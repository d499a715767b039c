------------------------- MODULE BinCompressProofs -------------------------
(***************************************************************************)
(* Theorems about bincompress, for every length of a file, every size of a *)
(* block and whatever the compressor makes of each block.  The first part  *)
(* says where in a packed file each block lies; the loader that reads such *)
(* files needs it as well.                                                 *)
(***************************************************************************)
EXTENDS BinCompress, SequenceTheorems, WellFoundedInduction, TLAPS

ByteSet == [offset : Nat]
HeadSet == [size : Nat, stored : BOOLEAN, partial : BOOLEAN]
PartSet == [block : Seq(ByteSet), part : Nat, of : Nat]
CellSet == ByteSet \cup {Signature} \cup [length : Nat] \cup HeadSet \cup PartSet

HeadLength(last) == IF last THEN 2 ELSE 1
SizeOf(b, m) == IF Stored(b, m) THEN Len(b) ELSE m

(* A block of which the compressor made m cells, behind p cells of F.      *)
BlockAt(F, p, b, m, last) ==
  /\ F[p + 1] = BlockHead(b, m, last)
  /\ last => F[p + 2] = Length(Len(b))
  /\ \A i \in 1 .. SizeOf(b, m) :
       F[p + HeadLength(last) + i] = IF Stored(b, m) THEN b[i] ELSE Encoded(b, m)[i]

(* w is s and then t.                                                      *)
Joined(w, s, t) ==
  /\ Len(w) = Len(s) + Len(t)
  /\ \A i \in 1 .. Len(s) : w[i] = s[i]
  /\ \A i \in 1 .. Len(t) : w[Len(s) + i] = t[i]

LEMMA ConcatIs ==
  ASSUME NEW S, NEW s \in Seq(S), NEW t \in Seq(S)
  PROVE  s \o t \in Seq(S) /\ Joined(s \o t, s, t)
<1>1. /\ s \o t \in Seq(S) /\ Len(s \o t) = Len(s) + Len(t)
      /\ \A i \in 1 .. Len(s) + Len(t) :
           (s \o t)[i] = IF i <= Len(s) THEN s[i] ELSE t[i - Len(s)]
  BY ConcatProperties
<1>2. PICK w : w = s \o t
  OBVIOUS
<1>3. PICK a \in Nat : a = Len(s)
  BY LenProperties
<1>4. PICK c \in Nat : c = Len(t)
  BY LenProperties
<1>5. \A i \in 1 .. a + c : w[i] = IF i <= a THEN s[i] ELSE t[i - a]
  BY <1>1, <1>2, <1>3, <1>4
<1>6. \A i \in 1 .. a : w[i] = s[i]
  BY <1>5
<1>7. \A i \in 1 .. c : w[a + i] = t[i]
  <2> SUFFICES ASSUME NEW i \in 1 .. c PROVE w[a + i] = t[i]
    OBVIOUS
  <2>1. a + i \in 1 .. a + c /\ ~(a + i <= a) /\ a + i - a = i
    OBVIOUS
  <2> QED  BY <1>5, <2>1
<1> QED  BY <1>1, <1>2, <1>3, <1>4, <1>6, <1>7 DEF Joined

LEMMA BytesAre ==
  ASSUME NEW k \in Nat, NEW n \in Nat
  PROVE  /\ Bytes(k, n) \in Seq(ByteSet) /\ Len(Bytes(k, n)) = n
         /\ \A i \in 1 .. n : Bytes(k, n)[i] = Byte(k + i - 1)
<1>1. \A i \in 1 .. n : k + i - 1 \in Nat /\ Byte(k + i - 1) \in ByteSet
  BY DEF Byte, ByteSet
<1>2. Bytes(k, n) \in Seq(ByteSet) /\ Len(Bytes(k, n)) = n
  BY <1>1, IsASeq DEF Bytes
<1> QED  BY <1>2 DEF Bytes

LEMMA BytesJoin ==
  ASSUME NEW k \in Nat, NEW a \in Nat, NEW c \in Nat
  PROVE  Bytes(k, a) \o Bytes(k + a, c) = Bytes(k, a + c)
<1>0. k + a \in Nat /\ a + c \in Nat
  OBVIOUS
<1>1. PICK s \in Seq(ByteSet) : s = Bytes(k, a)
  BY BytesAre
<1>2. PICK t \in Seq(ByteSet) : t = Bytes(k + a, c)
  BY <1>0, BytesAre
<1>3. PICK u \in Seq(ByteSet) : u = Bytes(k, a + c)
  BY <1>0, BytesAre
<1>4. Len(s) = a /\ \A i \in 1 .. a : s[i] = Byte(k + i - 1)
  BY <1>1, BytesAre
<1>5. Len(t) = c /\ \A i \in 1 .. c : t[i] = Byte(k + a + i - 1)
  BY <1>0, <1>2, BytesAre
<1>6. Len(u) = a + c /\ \A i \in 1 .. a + c : u[i] = Byte(k + i - 1)
  BY <1>0, <1>3, BytesAre
<1>7. PICK w \in Seq(ByteSet) : w = s \o t /\ Joined(w, s, t)
  BY ConcatIs
<1>70. /\ Len(w) = a + c
       /\ \A i \in 1 .. a : w[i] = s[i]
       /\ \A i \in 1 .. c : w[a + i] = t[i]
  BY <1>4, <1>5, <1>7 DEF Joined
<1>8. ASSUME NEW i \in 1 .. a + c PROVE w[i] = u[i]
  <2>1. CASE i <= a
    BY <2>1, <1>4, <1>6, <1>70
  <2>2. CASE ~(i <= a)
    <3>1. PICK j \in 1 .. c : i = a + j
      <4>1. i - a \in 1 .. c /\ i = a + (i - a)
        BY <2>2
      <4> QED  BY <4>1
    <3>2. w[a + j] = Byte(k + a + j - 1) /\ u[a + j] = Byte(k + (a + j) - 1)
      BY <3>1, <1>5, <1>6, <1>70
    <3>3. k + a + j - 1 = k + (a + j) - 1
      OBVIOUS
    <3> QED  BY <3>1, <3>2, <3>3
  <2> QED  BY <2>1, <2>2
<1>9. w = u
  BY <1>6, <1>70, <1>8, SeqEqual
<1> QED  BY <1>1, <1>2, <1>3, <1>7, <1>9

LEMMA EncodedAre ==
  ASSUME NEW b \in Seq(ByteSet), NEW m \in Nat
  PROVE  /\ Encoded(b, m) \in Seq(PartSet) /\ Len(Encoded(b, m)) = m
         /\ \A i \in 1 .. m : Encoded(b, m)[i] = [block |-> b, part |-> i, of |-> m]
<1>1. \A i \in 1 .. m : [block |-> b, part |-> i, of |-> m] \in PartSet
  BY DEF PartSet
<1>2. Encoded(b, m) \in Seq(PartSet) /\ Len(Encoded(b, m)) = m
  BY <1>1, IsASeq DEF Encoded
<1> QED  BY <1>2 DEF Encoded

(* The cells of a block, as they stand in the file.                        *)
LEMMA BlockCellsAre ==
  ASSUME NEW b \in Seq(ByteSet), b # <<>>, NEW m \in Nat \ {0}, NEW last \in BOOLEAN
  PROVE  /\ BlockCells(b, m, last) \in Seq(CellSet)
         /\ Len(BlockCells(b, m, last)) = HeadLength(last) + SizeOf(b, m)
         /\ BlockAt(BlockCells(b, m, last), 0, b, m, last)
         /\ SizeOf(b, m) \in Nat \ {0}
<1>1. Len(b) \in Nat \ {0}
  BY LenProperties, EmptySeq
<1>2. SizeOf(b, m) \in Nat \ {0}
  BY <1>1 DEF SizeOf
<1>3. PICK h \in Seq(CellSet) : h = <<BlockHead(b, m, last)>>
  <2>1. BlockHead(b, m, last) \in HeadSet
    BY <1>1 DEF BlockHead, HeadSet, Stored
  <2>2. BlockHead(b, m, last) \in CellSet
    BY <2>1 DEF CellSet
  <2>3. <<BlockHead(b, m, last)>> \in Seq(CellSet)
    BY <2>2
  <2> QED  BY <2>3
<1>4. PICK l \in Seq(CellSet) : l = IF last THEN <<Length(Len(b))>> ELSE <<>>
  <2>1. Length(Len(b)) \in CellSet
    BY <1>1 DEF Length, CellSet
  <2>2. <<Length(Len(b))>> \in Seq(CellSet) /\ <<>> \in Seq(CellSet)
    BY <2>1
  <2> QED  BY <2>2
<1>5. PICK d \in Seq(CellSet) : d = IF Stored(b, m) THEN b ELSE Encoded(b, m)
  <2>1. Encoded(b, m) \in Seq(CellSet)
    BY EncodedAre, SeqMonotonic DEF CellSet
  <2>2. b \in Seq(CellSet)
    BY SeqMonotonic DEF CellSet
  <2> QED  BY <2>1, <2>2
<1>6. /\ Len(h) = 1 /\ h[1] = BlockHead(b, m, last)
      /\ Len(l) = HeadLength(last) - 1 /\ (last => l[1] = Length(Len(b)))
  BY <1>3, <1>4 DEF HeadLength
<1>7. Len(d) = SizeOf(b, m)
  BY <1>5, EncodedAre DEF SizeOf
<1>8. PICK hl \in Seq(CellSet) :
        /\ hl = h \o l /\ Len(hl) = HeadLength(last)
        /\ hl[1] = BlockHead(b, m, last) /\ (last => hl[2] = Length(Len(b)))
  <2>1. PICK w \in Seq(CellSet) : w = h \o l /\ Joined(w, h, l)
    BY ConcatIs
  <2>2. Len(w) = HeadLength(last)
    BY <2>1, <1>6 DEF HeadLength, Joined
  <2>3. w[1] = BlockHead(b, m, last)
    BY <2>1, <1>6 DEF Joined
  <2>4. ASSUME last PROVE w[2] = Length(Len(b))
    <3>1. Len(h) + 1 = 2 /\ 1 \in 1 .. Len(l)
      BY <2>4, <1>6 DEF HeadLength
    <3>2. w[Len(h) + 1] = l[1]
      BY <2>1, <3>1 DEF Joined
    <3> QED  BY <2>4, <3>1, <3>2, <1>6
  <2> QED  BY <2>1, <2>2, <2>3, <2>4
<1>9. PICK c \in Seq(CellSet) : c = hl \o d /\ Joined(c, hl, d)
  BY <1>8, ConcatIs
<1>90. /\ Len(c) = HeadLength(last) + SizeOf(b, m)
       /\ \A i \in 1 .. HeadLength(last) : c[i] = hl[i]
       /\ \A i \in 1 .. SizeOf(b, m) : c[HeadLength(last) + i] = d[i]
  BY <1>7, <1>8, <1>9 DEF Joined
<1>10. BlockCells(b, m, last) = c
  BY <1>3, <1>4, <1>5, <1>8, <1>9 DEF BlockCells
<1>11. BlockAt(c, 0, b, m, last)
  <2>1. HeadLength(last) \in 1 .. 2 /\ (last => HeadLength(last) = 2)
    BY DEF HeadLength
  <2>2. c[1] = BlockHead(b, m, last)
    <3>1. 1 \in 1 .. HeadLength(last)
      BY <2>1
    <3>2. c[1] = hl[1]
      BY <1>90, <3>1
    <3> QED  BY <1>8, <3>2
  <2>3. ASSUME last PROVE c[2] = Length(Len(b))
    <3>1. 2 \in 1 .. HeadLength(last)
      BY <2>1, <2>3
    <3>2. c[2] = hl[2]
      BY <1>90, <3>1
    <3> QED  BY <1>8, <2>3, <3>2
  <2>5. ASSUME NEW i \in 1 .. SizeOf(b, m)
        PROVE  c[0 + HeadLength(last) + i] = IF Stored(b, m) THEN b[i] ELSE Encoded(b, m)[i]
    BY <2>1, <1>90, <1>5
  <2> QED  BY <2>2, <2>3, <2>5 DEF BlockAt
<1> QED  BY <1>2, <1>90, <1>10, <1>11

(* What is read of a block, and unpacked, is the block.                    *)
LEMMA BlockRestores ==
  ASSUME NEW b \in Seq(ByteSet), b # <<>>, NEW m \in Nat \ {0}, NEW S, NEW d \in Seq(S),
         Len(d) = SizeOf(b, m),
         \A i \in 1 .. SizeOf(b, m) :
           d[i] = IF Stored(b, m) THEN b[i] ELSE Encoded(b, m)[i]
  PROVE  /\ Stored(b, m) => SubSeq(d, 1, Len(b)) = b
         /\ ~Stored(b, m) => Decoded(d) = b
<1>1. ASSUME Stored(b, m) PROVE SubSeq(d, 1, Len(b)) = b
  <2>1. d = b
    BY <1>1, SeqEqual DEF SizeOf
  <2> QED  BY <2>1, SubSeqFull
<1>2. ASSUME ~Stored(b, m) PROVE Decoded(d) = b
  <2>1. d = Encoded(b, m)
    BY <1>2, EncodedAre, SeqEqual DEF SizeOf
  <2>2. d[1] = [block |-> b, part |-> 1, of |-> m] /\ d # <<>>
    <3>1. /\ d \in Seq(PartSet) /\ Len(d) = m
          /\ \A i \in 1 .. m : d[i] = [block |-> b, part |-> i, of |-> m]
      BY <2>1, EncodedAre
    <3>2. 1 \in 1 .. m /\ m # 0
      OBVIOUS
    <3>3. d # <<>>
      BY <3>1, <3>2, EmptySeq
    <3> QED  BY <3>1, <3>2, <3>3
  <2>3. IsEncoded(d[1]) /\ d[1].block = b /\ d[1].of = m
    BY <2>2 DEF IsEncoded
  <2> QED  BY <2>1, <2>2, <2>3 DEF Decoded
<1> QED  BY <1>1, <1>2
-----------------------------------------------------------------------------
(* The blocks of a file of n bytes: the first k of them hold Reach(n, k)   *)
(* bytes.                                                                  *)
Reach(n, k) == Lesser(k * MaxBlock, n)

LEMMA BlocksCover ==
  ASSUME NEW n \in Nat
  PROVE  /\ NumBlocks(n) \in Nat
         /\ \A k \in Nat : k < NumBlocks(n) <=> k * MaxBlock < n
<1>1. PICK M \in Nat \ {0} : M = MaxBlock
  BY BlockAssumption
<1>2. PICK a \in Nat : a = n + M - 1
  OBVIOUS
<1>3. PICK q \in Int : q = a \div M
  OBVIOUS
<1>4. M * q <= a /\ a < M * q + M
  BY <1>3
<1>5. q \in Nat
  BY <1>4
<1>6. NumBlocks(n) = q
  BY <1>1, <1>2, <1>3 DEF NumBlocks
<1>7. ASSUME NEW k \in Nat PROVE k < q <=> k * M < n
  <2>1. CASE k < q
    <3>1. PICK d \in Nat : q = k + 1 + d
      <4>1. q - k - 1 \in Nat /\ q = k + 1 + (q - k - 1)
        BY <1>5, <2>1
      <4> QED  BY <4>1
    <3>2. M * q = k * M + M + M * d /\ M * d >= 0
      BY <3>1
    <3>3. k * M < n
      BY <3>2, <1>2, <1>4
    <3> QED  BY <2>1, <3>3
  <2>2. CASE ~(k < q)
    <3>1. PICK d \in Nat : k = q + d
      <4>1. k - q \in Nat /\ k = q + (k - q)
        BY <1>5, <2>2
      <4> QED  BY <4>1
    <3>2. k * M = M * q + M * d /\ M * d >= 0
      BY <3>1, <1>5
    <3>3. ~(k * M < n)
      BY <3>2, <1>2, <1>4
    <3> QED  BY <2>2, <3>3
  <2> QED  BY <2>1, <2>2
<1> QED  BY <1>1, <1>5, <1>6, <1>7

LEMMA ReachIs ==
  ASSUME NEW n \in Nat
  PROVE  /\ \A k \in Nat : Reach(n, k) \in 0 .. n
         /\ Reach(n, 0) = 0 /\ Reach(n, NumBlocks(n)) = n
         /\ \A k \in Nat : k < NumBlocks(n) =>
              /\ Reach(n, k) = k * MaxBlock /\ Reach(n, k) < n
              /\ Reach(n, k + 1) = Reach(n, k) + Lesser(MaxBlock, n - Reach(n, k))
              /\ Reach(n, k + 1) = n <=> k + 1 = NumBlocks(n)
<1>1. PICK M \in Nat \ {0} : M = MaxBlock
  BY BlockAssumption
<1>2. PICK q \in Nat : q = NumBlocks(n)
  BY BlocksCover
<1>3. \A k \in Nat : k < q <=> k * M < n
  BY <1>1, <1>2, BlocksCover
<1>4. ASSUME NEW k \in Nat
      PROVE  k * M \in Nat /\ Reach(n, k) = IF k * M <= n THEN k * M ELSE n
  BY <1>1 DEF Reach, Lesser
<1>5. ASSUME NEW k \in Nat PROVE Reach(n, k) \in 0 .. n
  BY <1>4
<1>6. Reach(n, 0) = 0
  BY <1>4
<1>7. Reach(n, q) = n
  BY <1>3, <1>4
<1>8. ASSUME NEW k \in Nat, k < q
      PROVE  /\ Reach(n, k) = k * M /\ Reach(n, k) < n
             /\ Reach(n, k + 1) = Reach(n, k) + Lesser(M, n - Reach(n, k))
             /\ Reach(n, k + 1) = n <=> k + 1 = q
  <2>1. k * M < n /\ Reach(n, k) = k * M
    BY <1>3, <1>4, <1>8
  <2>2. PICK p \in Nat : p = k * M
    BY <1>4
  <2>3. (k + 1) * M = p + M
    BY <2>2
  <2>4. Reach(n, k + 1) = IF p + M <= n THEN p + M ELSE n
    BY <1>4, <2>3
  <2>5. Reach(n, k + 1) = p + Lesser(M, n - p)
    BY <2>1, <2>2, <2>4 DEF Lesser
  <2>6. k + 1 < q <=> p + M < n
    BY <1>3, <2>3
  <2>7. Reach(n, k + 1) = n <=> k + 1 = q
    BY <1>8, <2>4, <2>6
  <2> QED  BY <2>1, <2>2, <2>5, <2>7
<1> QED  BY <1>1, <1>2, <1>5, <1>6, <1>7, <1>8

LEMMA BlockOfIs ==
  ASSUME NEW n \in Nat, NEW k \in Nat, k < NumBlocks(n)
  PROVE  /\ BlockOf(n, k + 1) = Bytes(Reach(n, k), Lesser(MaxBlock, n - Reach(n, k)))
         /\ BlockOf(n, k + 1) \in Seq(ByteSet) /\ BlockOf(n, k + 1) # <<>>
         /\ Len(BlockOf(n, k + 1)) = Reach(n, k + 1) - Reach(n, k)
         /\ Len(BlockOf(n, k + 1)) \in 1 .. MaxBlock
         /\ k + 1 # NumBlocks(n) => Len(BlockOf(n, k + 1)) = MaxBlock
         /\ Bytes(0, Reach(n, k)) \o BlockOf(n, k + 1) = Bytes(0, Reach(n, k + 1))
<1>1. PICK M \in Nat \ {0} : M = MaxBlock
  BY BlockAssumption
<1>2. PICK p \in Nat : p = Reach(n, k)
  BY ReachIs
<1>3. PICK l \in Int : l = Lesser(M, n - p)
  <2>1. Lesser(M, n - p) \in Int
    BY DEF Lesser
  <2> QED  BY <2>1
<1>4. /\ p = k * M /\ p < n /\ Reach(n, k + 1) = p + l
      /\ Reach(n, k + 1) = n <=> k + 1 = NumBlocks(n)
  BY <1>1, <1>2, <1>3, ReachIs
<1>5. l \in Nat /\ l \in 1 .. M /\ (p + l # n => l = M)
  BY <1>3, <1>4 DEF Lesser
<1>6. BlockOf(n, k + 1) = Bytes(p, l)
  <2>1. (k + 1) - 1 = k
    OBVIOUS
  <2> QED  BY <2>1, <1>1, <1>3, <1>4 DEF BlockOf
<1>7. Bytes(p, l) \in Seq(ByteSet) /\ Len(Bytes(p, l)) = l
  BY <1>5, BytesAre
<1>8. Bytes(p, l) # <<>>
  BY <1>5, <1>7
<1>9. Bytes(0, p) \o Bytes(p, l) = Bytes(0, p + l)
  <2>1. Bytes(0, p) \o Bytes(0 + p, l) = Bytes(0, p + l)
    BY <1>5, BytesJoin
  <2> QED  BY <2>1
<1>10. PICK B : B = BlockOf(n, k + 1)
  OBVIOUS
<1>11. /\ B \in Seq(ByteSet) /\ B # <<>> /\ Len(B) = l
       /\ Bytes(0, p) \o B = Bytes(0, p + l)
  BY <1>6, <1>7, <1>8, <1>9, <1>10
<1>12. l = Reach(n, k + 1) - Reach(n, k) /\ (k + 1 # NumBlocks(n) => l = MaxBlock)
  BY <1>1, <1>2, <1>4, <1>5
<1>13. B = Bytes(Reach(n, k), Lesser(MaxBlock, n - Reach(n, k)))
  BY <1>1, <1>2, <1>3, <1>6, <1>10
<1> QED  BY <1>1, <1>2, <1>4, <1>5, <1>10, <1>11, <1>12, <1>13

-----------------------------------------------------------------------------
(* The packed file grows block by block: g[k] is what it is after k.       *)
Packing(n, ms, g) ==
  /\ g \in [0 .. Len(ms) -> Seq(CellSet)]
  /\ g[0] = FileHead(n)
  /\ \A k \in 0 .. Len(ms) - 1 :
       g[k + 1] = g[k] \o BlockCells(BlockOf(n, k + 1), ms[k + 1], k + 1 = NumBlocks(n))

Mades(n) == {ms \in Seq(1 .. MaxBlock) : Len(ms) <= NumBlocks(n)}

LEMMA HeadIs ==
  ASSUME NEW n \in Nat
  PROVE  /\ FileHead(n) \in Seq(CellSet) /\ Len(FileHead(n)) = 2
         /\ FileHead(n)[1] = Signature /\ FileHead(n)[2] = Length(n)
<1>1. Signature \in CellSet /\ Length(n) \in CellSet
  BY DEF Length, CellSet
<1> QED  BY <1>1 DEF FileHead

(* Where the blocks lie.                                                   *)
LEMMA PackingStep ==
  ASSUME NEW n \in Nat, NEW ms \in Mades(n), NEW g, Packing(n, ms, g),
         NEW k \in 0 .. Len(ms) - 1
  PROVE  LET b == BlockOf(n, k + 1)
             last == k + 1 = NumBlocks(n)
         IN  /\ Len(g[k + 1]) = Len(g[k]) + HeadLength(last) + SizeOf(b, ms[k + 1])
             /\ BlockAt(g[k + 1], Len(g[k]), b, ms[k + 1], last)
             /\ \A i \in 1 .. Len(g[k]) : g[k + 1][i] = g[k][i]
             /\ Len(g[k]) \in Nat /\ Len(g[k]) < Len(g[k + 1])
<1>1. Len(ms) \in Nat /\ ms \in Seq(1 .. MaxBlock) /\ NumBlocks(n) \in Nat
  BY BlocksCover DEF Mades
<1>2. k \in Nat /\ k < NumBlocks(n) /\ k + 1 \in 1 .. Len(ms)
  BY <1>1 DEF Mades
<1>3. PICK m \in Nat \ {0} : m = ms[k + 1]
  <2>1. ms[k + 1] \in 1 .. MaxBlock
    BY <1>1, <1>2, ElementOfSeq
  <2> QED  BY <2>1, BlockAssumption
<1>4. PICK b \in Seq(ByteSet) : b = BlockOf(n, k + 1) /\ b # <<>>
  BY <1>2, BlockOfIs
<1>5. PICK last \in BOOLEAN : last = (k + 1 = NumBlocks(n))
  OBVIOUS
<1>6. PICK c \in Seq(CellSet) :
        c = BlockCells(b, m, last) /\ Len(c) = HeadLength(last) + SizeOf(b, m)
        /\ BlockAt(c, 0, b, m, last) /\ SizeOf(b, m) \in Nat \ {0}
  BY <1>4, BlockCellsAre
<1>7. PICK s \in Seq(CellSet) : s = g[k]
  BY <1>2 DEF Packing
<1>8. PICK w \in Seq(CellSet) : w = s \o c /\ Joined(w, s, c)
  BY ConcatIs
<1>9. g[k + 1] = w
  BY <1>3, <1>4, <1>5, <1>6, <1>7, <1>8 DEF Packing
<1>10. PICK p \in Nat : p = Len(s)
  BY LenProperties
<1>11. PICK e \in 1 .. 2 : e = HeadLength(last)
  BY DEF HeadLength
<1>12. PICK z \in Nat \ {0} : z = SizeOf(b, m)
  BY <1>6
<1>130. Len(c) = e + z
  BY <1>6, <1>11, <1>12
<1>13. /\ Len(w) = p + e + z
       /\ \A i \in 1 .. p : w[i] = s[i]
       /\ \A i \in 1 .. e + z : w[p + i] = c[i]
  <2>1. Len(w) = p + (e + z) /\ p + (e + z) = p + e + z
    BY <1>130, <1>8, <1>10 DEF Joined
  <2>2. \A i \in 1 .. p : w[i] = s[i]
    BY <1>8, <1>10 DEF Joined
  <2>3. \A i \in 1 .. e + z : w[p + i] = c[i]
    BY <1>130, <1>8, <1>10 DEF Joined
  <2> QED  BY <2>1, <2>2, <2>3
<1>14. BlockAt(w, p, b, m, last)
  <2>1. w[p + 1] = BlockHead(b, m, last)
    <3>1. 1 \in 1 .. e + z /\ c[0 + 1] = c[1]
      OBVIOUS
    <3>2. c[0 + 1] = BlockHead(b, m, last)
      BY <1>6 DEF BlockAt
    <3> QED  BY <3>1, <3>2, <1>13
  <2>2. ASSUME last PROVE w[p + 2] = Length(Len(b))
    <3>1. 2 \in 1 .. e + z /\ c[0 + 2] = c[2]
      BY <2>2, <1>11 DEF HeadLength
    <3>2. c[0 + 2] = Length(Len(b))
      BY <2>2, <1>6 DEF BlockAt
    <3> QED  BY <3>1, <3>2, <1>13
  <2>3. ASSUME NEW i \in 1 .. z PROVE w[p + e + i] = IF Stored(b, m) THEN b[i] ELSE Encoded(b, m)[i]
    <3>1. e + i \in 1 .. e + z /\ p + (e + i) = p + e + i /\ 0 + e + i = e + i
      OBVIOUS
    <3>2. c[0 + e + i] = IF Stored(b, m) THEN b[i] ELSE Encoded(b, m)[i]
      BY <1>6, <1>11, <1>12 DEF BlockAt
    <3>3. w[p + (e + i)] = c[e + i]
      BY <3>1, <1>13
    <3> QED  BY <3>1, <3>2, <3>3
  <2> QED  BY <2>1, <2>2, <2>3, <1>11, <1>12 DEF BlockAt
<1>15. p < Len(w)
  BY <1>13
<1> QED  BY <1>3, <1>4, <1>5, <1>7, <1>9, <1>10, <1>11, <1>12, <1>13, <1>14, <1>15
LEMMA LeastElement ==
  ASSUME NEW T \in SUBSET Nat, T # {}
  PROVE  \E n \in T : \A m \in T : n <= m
<1> DEFINE R == {p \in Nat \X Nat : p[1] < p[2]}
<1>1. IsWellFoundedOn(R, Nat)
  BY NatLessThanWellFounded DEF OpToRel
<1>2. \E x \in T : \A y \in T : ~(<<y, x>> \in R)
  <2> HIDE DEF R
  <2> QED  BY <1>1, WFMin
<1>3. \A x, y \in Nat : y < x => <<y, x>> \in R
  OBVIOUS
<1>4. PICK x \in T : \A y \in T : ~(<<y, x>> \in R)
  BY <1>2
<1>5. \A y \in T : ~(y < x)
  BY <1>3, <1>4
<1> QED  BY <1>5

LEMMA Induction ==
  ASSUME NEW S \in SUBSET Nat, 0 \in S, \A n \in S : n + 1 \in S
  PROVE  S = Nat
<1> SUFFICES ASSUME S # Nat PROVE FALSE
  OBVIOUS
<1>1. PICK n \in Nat \ S : \A m \in Nat \ S : n <= m
  BY LeastElement
<1>2. n # 0 /\ n - 1 \in Nat /\ n - 1 \in S
  BY <1>1
<1> QED  BY <1>1, <1>2

(* What was written stays where it is.                                     *)
Grown(f, h) == Len(f) <= Len(h) /\ \A i \in 1 .. Len(f) : h[i] = f[i]

LEMMA PackingGrows ==
  ASSUME NEW n \in Nat, NEW ms \in Mades(n), NEW g, Packing(n, ms, g),
         NEW k \in 0 .. Len(ms)
  PROVE  \A j \in k .. Len(ms) :
           Grown(g[k], g[j]) /\ (k < j => Len(g[k]) < Len(g[j])) /\ Len(g[k]) \in Nat
<1>1. PICK L \in Nat : L = Len(ms)
  BY LenProperties DEF Mades
<1>2. \A j \in 0 .. L : g[j] \in Seq(CellSet) /\ Len(g[j]) \in Nat
  BY <1>1, LenProperties DEF Packing
<1> DEFINE S == {d \in Nat : k + d <= L =>
                   Grown(g[k], g[k + d]) /\ (d > 0 => Len(g[k]) < Len(g[k + d]))}
<1>3. 0 \in S
  <2>1. k + 0 = k /\ k \in 0 .. L
    BY <1>1
  <2> QED  BY <2>1, <1>2 DEF Grown
<1>4. ASSUME NEW d \in S PROVE d + 1 \in S
  <2> SUFFICES ASSUME k + (d + 1) <= L
               PROVE  Grown(g[k], g[k + (d + 1)]) /\ Len(g[k]) < Len(g[k + (d + 1)])
    BY DEF S
  <2>1. /\ k + d \in 0 .. L - 1 /\ k + (d + 1) = k + d + 1
        /\ k \in 0 .. L /\ k + d \in 0 .. L /\ k + d + 1 \in 0 .. L
    BY <1>1
  <2>2. Grown(g[k], g[k + d])
    BY <2>1
  <2>3. PICK a \in Nat : a = Len(g[k])
    BY <1>2, <2>1
  <2>4. PICK c \in Nat : c = Len(g[k + d])
    BY <1>2, <2>1
  <2>5. /\ c < Len(g[k + d + 1]) /\ \A i \in 1 .. c : g[k + d + 1][i] = g[k + d][i]
    BY <1>1, <2>1, <2>4, PackingStep
  <2>6. a <= c /\ \A i \in 1 .. a : g[k + d][i] = g[k][i]
    BY <2>2, <2>3, <2>4 DEF Grown
  <2>7. PICK e \in Nat : e = Len(g[k + d + 1])
    BY <1>2, <2>1
  <2>8. a < e /\ \A i \in 1 .. a : g[k + d + 1][i] = g[k][i]
    BY <2>5, <2>6, <2>7
  <2> QED  BY <2>1, <2>3, <2>7, <2>8 DEF Grown
<1> HIDE DEF S
<1>5. S \subseteq Nat
  BY DEF S
<1>6. S = Nat
  BY <1>3, <1>4, <1>5, Induction
<1>7. ASSUME NEW j \in k .. L
      PROVE  Grown(g[k], g[j]) /\ (k < j => Len(g[k]) < Len(g[j]))
  <2>1. PICK d \in Nat : j = k + d
    <3>1. j - k \in Nat /\ j = k + (j - k)
      BY <1>1
    <3> QED  BY <3>1
  <2>2. d \in S /\ k + d <= L /\ (k < j => d > 0)
    BY <1>1, <1>6, <2>1
  <2> QED  BY <2>1, <2>2 DEF S
<1> QED  BY <1>1, <1>2, <1>7

(* The cells of a block are where the file before it ended, also in the    *)
(* whole file.                                                             *)
LEMMA PackingBlock ==
  ASSUME NEW n \in Nat, NEW ms \in Mades(n), NEW g, Packing(n, ms, g),
         NEW k \in 0 .. Len(ms) - 1
  PROVE  LET b == BlockOf(n, k + 1)
             last == k + 1 = NumBlocks(n)
         IN  /\ Len(g[k + 1]) = Len(g[k]) + HeadLength(last) + SizeOf(b, ms[k + 1])
             /\ BlockAt(g[Len(ms)], Len(g[k]), b, ms[k + 1], last)
             /\ Len(g[k]) \in Nat /\ Len(g[k + 1]) <= Len(g[Len(ms)])
             /\ SizeOf(b, ms[k + 1]) \in Nat \ {0} /\ ms[k + 1] \in Nat \ {0}
<1>1. PICK L \in Nat : L = Len(ms)
  BY LenProperties DEF Mades
<1>2. k \in 0 .. L /\ k + 1 \in 0 .. L /\ L \in k + 1 .. L
  BY <1>1
<1>3. PICK m \in Nat \ {0} : m = ms[k + 1]
  <2>0. ms \in Seq(1 .. MaxBlock) /\ k + 1 \in 1 .. Len(ms)
    BY <1>1, <1>2 DEF Mades
  <2>1. ms[k + 1] \in 1 .. MaxBlock
    BY <2>0, ElementOfSeq
  <2> QED  BY <2>1, BlockAssumption
<1>4. PICK b \in Seq(ByteSet) : b = BlockOf(n, k + 1) /\ b # <<>>
  <2>1. k \in Nat /\ k < NumBlocks(n)
    BY <1>1, BlocksCover DEF Mades
  <2> QED  BY <2>1, BlockOfIs
<1>5. PICK last \in BOOLEAN : last = (k + 1 = NumBlocks(n))
  OBVIOUS
<1>6. PICK z \in Nat \ {0} : z = SizeOf(b, m)
  BY <1>4, BlockCellsAre
<1>7. PICK e \in 1 .. 2 : e = HeadLength(last) /\ (last => e = 2)
  BY DEF HeadLength
<1>8. PICK p \in Nat : p = Len(g[k])
  BY PackingStep
<1>9. Len(g[k + 1]) = p + e + z /\ BlockAt(g[k + 1], p, b, m, last)
  BY <1>3, <1>4, <1>5, <1>6, <1>7, <1>8, PackingStep
<1>10. PICK w : w = g[k + 1]
  OBVIOUS
<1>11. PICK F : F = g[Len(ms)]
  OBVIOUS
<1>12. Grown(w, F)
  BY <1>1, <1>2, <1>10, <1>11, PackingGrows
<1>13. p + e + z <= Len(F) /\ \A i \in 1 .. p + e + z : F[i] = w[i]
  BY <1>9, <1>10, <1>12 DEF Grown
<1>14. BlockAt(F, p, b, m, last)
  <2>1. /\ w[p + 1] = BlockHead(b, m, last)
        /\ last => w[p + 2] = Length(Len(b))
        /\ \A i \in 1 .. z : w[p + e + i] = IF Stored(b, m) THEN b[i] ELSE Encoded(b, m)[i]
    BY <1>6, <1>7, <1>9, <1>10 DEF BlockAt
  <2>2. p + 1 \in 1 .. p + e + z /\ (last => p + 2 \in 1 .. p + e + z)
    BY <1>7
  <2>3. \A i \in 1 .. z : p + e + i \in 1 .. p + e + z
    OBVIOUS
  <2>4. F[p + 1] = BlockHead(b, m, last)
    BY <2>1, <2>2, <1>13
  <2>5. ASSUME last PROVE F[p + 2] = Length(Len(b))
    BY <2>1, <2>2, <2>5, <1>13
  <2>6. \A i \in 1 .. z : F[p + e + i] = IF Stored(b, m) THEN b[i] ELSE Encoded(b, m)[i]
    BY <2>1, <2>3, <1>13
  <2> QED  BY <2>4, <2>5, <2>6, <1>6, <1>7 DEF BlockAt
<1> QED  BY <1>3, <1>4, <1>5, <1>6, <1>7, <1>8, <1>9, <1>11, <1>13, <1>14

(* The file begins with its head.                                          *)
LEMMA PackingHead ==
  ASSUME NEW n \in Nat, NEW ms \in Mades(n), NEW g, Packing(n, ms, g)
  PROVE  LET F == g[Len(ms)]
         IN  /\ F \in Seq(CellSet) /\ Len(F) \in Nat /\ Len(g[0]) = 2
             /\ Len(F) >= 2 /\ F[1] = Signature /\ F[2] = Length(n)
<1>1. PICK L \in Nat : L = Len(ms)
  BY LenProperties DEF Mades
<1>2. PICK F \in Seq(CellSet) : F = g[Len(ms)]
  BY <1>1 DEF Packing
<1>3. g[0] = FileHead(n) /\ 0 \in 0 .. L /\ L \in 0 .. L
  BY DEF Packing
<1>4. Grown(FileHead(n), F)
  BY <1>1, <1>2, <1>3, PackingGrows
<1>5. Len(F) \in Nat
  BY <1>2, LenProperties
<1>6. Len(F) >= 2 /\ F[1] = FileHead(n)[1] /\ F[2] = FileHead(n)[2]
  BY <1>4, <1>5, HeadIs DEF Grown
<1> QED  BY <1>2, <1>3, <1>5, <1>6, HeadIs
LEMMA PackingEmpty ==
  ASSUME NEW n \in Nat
  PROVE  <<>> \in Mades(n) /\ Packing(n, <<>>, [k \in 0 .. 0 |-> FileHead(n)])
<1>1. <<>> \in Seq(1 .. MaxBlock) /\ Len(<<>>) = 0
  OBVIOUS
<1>2. <<>> \in Mades(n)
  BY <1>1, BlocksCover DEF Mades
<1>3. Packing(n, <<>>, [k \in 0 .. 0 |-> FileHead(n)])
  BY <1>1, HeadIs DEF Packing
<1> QED  BY <1>2, <1>3

(* EncodeBlock adds a block.                                               *)
LEMMA PackingAdds ==
  ASSUME NEW n \in Nat, NEW ms \in Mades(n), NEW g, Packing(n, ms, g),
         Len(ms) < NumBlocks(n), NEW m \in 1 .. MaxBlock
  PROVE  /\ Append(ms, m) \in Mades(n) /\ Len(Append(ms, m)) = Len(ms) + 1
         /\ \E h : /\ Packing(n, Append(ms, m), h)
                   /\ h[Len(ms) + 1] =
                        g[Len(ms)] \o BlockCells(BlockOf(n, Len(ms) + 1), m,
                                                   Len(ms) + 1 = NumBlocks(n))
<1>1. PICK L \in Nat : L = Len(ms)
  BY LenProperties DEF Mades
<1>2. ms \in Seq(1 .. MaxBlock)
  BY DEF Mades
<1>3. PICK made2 \in Seq(1 .. MaxBlock) :
        /\ made2 = Append(ms, m) /\ Len(made2) = L + 1 /\ made2[L + 1] = m
        /\ \A i \in 1 .. L : made2[i] = ms[i]
  <2>1. /\ Append(ms, m) \in Seq(1 .. MaxBlock) /\ Append(ms, m) # <<>>
        /\ Len(Append(ms, m)) = Len(ms) + 1
        /\ \A i \in 1 .. Len(ms) : Append(ms, m)[i] = ms[i]
        /\ Append(ms, m)[Len(ms) + 1] = m
    BY <1>2, AppendProperties
  <2> QED  BY <2>1, <1>1
<1>4. made2 \in Mades(n)
  BY <1>1, <1>3, BlocksCover DEF Mades
<1>5. PICK c \in Seq(CellSet) :
        c = BlockCells(BlockOf(n, L + 1), m, L + 1 = NumBlocks(n))
  <2>1. PICK b \in Seq(ByteSet) : b = BlockOf(n, L + 1) /\ b # <<>>
    BY <1>1, BlockOfIs
  <2>2. m \in Nat \ {0}
    BY BlockAssumption
  <2>3. PICK last \in BOOLEAN : last = (L + 1 = NumBlocks(n))
    OBVIOUS
  <2>4. BlockCells(b, m, last) \in Seq(CellSet)
    BY <2>1, <2>2, BlockCellsAre
  <2> QED  BY <2>1, <2>3, <2>4
<1>6. PICK h : h = [k \in 0 .. L + 1 |-> IF k = L + 1 THEN g[L] \o c ELSE g[k]]
  OBVIOUS
<1>7. \A k \in 0 .. L : h[k] = g[k]
  BY <1>6
<1>8. h[L + 1] = g[L] \o c
  BY <1>6
<1>9. h \in [0 .. L + 1 -> Seq(CellSet)]
  <2>1. \A k \in 0 .. L : g[k] \in Seq(CellSet)
    BY <1>1 DEF Packing
  <2>2. L \in 0 .. L
    OBVIOUS
  <2>3. g[L] \o c \in Seq(CellSet)
    BY <2>1, <2>2, <1>5, ConcatProperties
  <2>4. ASSUME NEW k \in 0 .. L + 1 PROVE h[k] \in Seq(CellSet)
    <3>1. CASE k = L + 1
      BY <3>1, <2>3, <1>8
    <3>2. CASE k # L + 1
      <4>1. k \in 0 .. L
        BY <3>2
      <4> QED  BY <4>1, <1>7, <2>1
    <3> QED  BY <3>1, <3>2
  <2> QED  BY <2>4, <1>6
<1>10. ASSUME NEW k \in 0 .. L
       PROVE  h[k + 1] = h[k] \o BlockCells(BlockOf(n, k + 1), made2[k + 1], k + 1 = NumBlocks(n))
  <2>1. CASE k = L
    BY <2>1, <1>3, <1>5, <1>7, <1>8
  <2>2. CASE k # L
    <3>1. k \in 0 .. L - 1 /\ k + 1 \in 0 .. L /\ k + 1 \in 1 .. L
      BY <2>2
    <3>2. g[k + 1] = g[k] \o BlockCells(BlockOf(n, k + 1), ms[k + 1], k + 1 = NumBlocks(n))
      BY <3>1, <1>1 DEF Packing
    <3>3. h[k + 1] = g[k + 1] /\ h[k] = g[k] /\ made2[k + 1] = ms[k + 1]
      BY <3>1, <1>3, <1>7
    <3> QED  BY <3>2, <3>3
  <2> QED  BY <2>1, <2>2
<1>11. Packing(n, made2, h)
  <2>1. h[0] = FileHead(n)
    <3>1. 0 \in 0 .. L
      OBVIOUS
    <3> QED  BY <3>1, <1>7 DEF Packing
  <2>2. Len(made2) - 1 = L
    BY <1>3
  <2> QED  BY <2>1, <2>2, <1>3, <1>9, <1>10 DEF Packing
<1> QED  BY <1>1, <1>3, <1>4, <1>5, <1>7, <1>8, <1>11

LEMMA PackingExists ==
  ASSUME NEW n \in Nat, NEW ms \in Mades(n)
  PROVE  \E g : Packing(n, ms, g)
<1>1. PICK L \in Nat : L = Len(ms)
  BY LenProperties DEF Mades
<1>2. ms \in Seq(1 .. MaxBlock) /\ L <= NumBlocks(n)
  BY <1>1 DEF Mades
<1> DEFINE S == {l \in Nat : l <= L =>
                   SubSeq(ms, 1, l) \in Mades(n) /\ \E g : Packing(n, SubSeq(ms, 1, l), g)}
<1>3. 0 \in S
  <2>1. SubSeq(ms, 1, 0) = <<>>
    BY <1>2, SubSeqEmpty
  <2> QED  BY <2>1, PackingEmpty
<1>4. ASSUME NEW l \in S PROVE l + 1 \in S
  <2> SUFFICES ASSUME l + 1 <= L
               PROVE  SubSeq(ms, 1, l + 1) \in Mades(n)
                      /\ \E g : Packing(n, SubSeq(ms, 1, l + 1), g)
    BY DEF S
  <2>0. l \in Nat /\ l <= L
    BY <1>4 DEF S
  <2>1. PICK part \in Mades(n) : part = SubSeq(ms, 1, l) /\ \E g : Packing(n, part, g)
    BY <2>0, <1>4 DEF S
  <2> HIDE DEF S
  <2>2. PICK g : Packing(n, part, g)
    BY <2>1
  <2>3. l \in Nat /\ l + 1 \in 1 .. L /\ ms[l + 1] \in 1 .. MaxBlock
    <3>1. l + 1 \in 1 .. Len(ms)
      BY <1>1, <2>0
    <3> QED  BY <2>0, <3>1, <1>1, <1>2, ElementOfSeq
  <2>4. Len(part) = l
    <3>0. \A i \in 1 .. l : i \in 1 .. Len(ms)
      BY <1>1, <2>3
    <3>1. \A i \in 1 .. l : ms[i] \in 1 .. MaxBlock
      BY <3>0, <1>2, ElementOfSeq
    <3>2. Len(SubSeq(ms, 1, l)) = IF 1 <= l THEN l - 1 + 1 ELSE 0
      BY <3>1, <2>3, SubSeqProperties
    <3> QED  BY <3>2, <2>1, <2>3
  <2>5. SubSeq(ms, 1, l + 1) = Append(part, ms[l + 1])
    <3>1. ms \in Seq(1 .. MaxBlock) /\ 1 \in 1 .. Len(ms) + 1 /\ l + 1 \in 1 .. Len(ms)
      BY <1>1, <1>2, <2>3
    <3>2. SubSeq(ms, 1, l + 1) = Append(SubSeq(ms, 1, (l + 1) - 1), ms[l + 1])
      BY <3>1, SubSeqRecursiveSecond
    <3>3. (l + 1) - 1 = l
      BY <2>0
    <3> QED  BY <3>2, <3>3, <2>1
  <2>6. Len(part) < NumBlocks(n)
    BY <2>4, <1>2, BlocksCover
  <2>7. Append(part, ms[l + 1]) \in Mades(n) /\ \E h : Packing(n, Append(part, ms[l + 1]), h)
    BY <2>2, <2>3, <2>6, PackingAdds
  <2> QED  BY <2>5, <2>7
<1> HIDE DEF S
<1>5. S \subseteq Nat
  BY DEF S
<1>6. S = Nat
  BY <1>3, <1>4, <1>5, Induction
<1>7. SubSeq(ms, 1, L) = ms
  BY <1>1, <1>2, SubSeqFull
<1>8. \E g : Packing(n, SubSeq(ms, 1, L), g)
  BY <1>6 DEF S
<1> QED  BY <1>7, <1>8

IsUpTo(n, ms, f) ==
  f = [k \in 0 .. NumBlocks(n) |->
         IF k = 0 THEN FileHead(n)
         ELSE f[k - 1] \o BlockCells(BlockOf(n, k), ms[k], k = NumBlocks(n))]

LEMMA PackedIs ==
  ASSUME NEW n \in Nat, NEW ms \in Mades(n), NEW g, Packing(n, ms, g),
         Len(ms) = NumBlocks(n)
  PROVE  Packed(n, ms) = g[Len(ms)]
<1>1. PICK N \in Nat : N = NumBlocks(n)
  BY BlocksCover
<1>2. Packed(n, ms) = (CHOOSE f : IsUpTo(n, ms, f))[N]
  BY <1>1 DEF Packed, IsUpTo
<1>3. IsUpTo(n, ms, g)
  <2>1. ASSUME NEW k \in 0 .. N
        PROVE  g[k] = IF k = 0 THEN FileHead(n)
                      ELSE g[k - 1] \o BlockCells(BlockOf(n, k), ms[k], k = NumBlocks(n))
    <3>1. CASE k = 0
      BY <3>1 DEF Packing
    <3>2. CASE k # 0
      <4>1. k - 1 \in 0 .. Len(ms) - 1 /\ (k - 1) + 1 = k
        BY <3>2, <1>1
      <4>2. g[(k - 1) + 1] = g[k - 1] \o BlockCells(BlockOf(n, (k - 1) + 1), ms[(k - 1) + 1],
                                                    (k - 1) + 1 = NumBlocks(n))
        BY <4>1 DEF Packing
      <4> QED  BY <4>1, <4>2, <3>2
    <3> QED  BY <3>1, <3>2
  <2>2. g = [k \in 0 .. N |-> g[k]]
    BY <1>1 DEF Packing
  <2>3. g = [k \in 0 .. N |->
               IF k = 0 THEN FileHead(n)
               ELSE g[k - 1] \o BlockCells(BlockOf(n, k), ms[k], k = NumBlocks(n))]
    BY <2>1, <2>2
  <2> QED  BY <1>1, <2>3 DEF IsUpTo
<1>4. PICK f : IsUpTo(n, ms, f) /\ f = CHOOSE h : IsUpTo(n, ms, h)
  BY <1>3
<1> DEFINE S == {k \in Nat : k <= N => f[k] = g[k]}
<1>5. 0 \in S
  <2>1. 0 \in 0 .. N
    OBVIOUS
  <2>2. f[0] = FileHead(n)
    BY <1>1, <1>4, <2>1 DEF IsUpTo
  <2> QED  BY <2>2 DEF Packing
<1>6. ASSUME NEW k \in S PROVE k + 1 \in S
  <2> SUFFICES ASSUME k + 1 <= N PROVE f[k + 1] = g[k + 1]
    BY DEF S
  <2>1. f[k] = g[k] /\ k + 1 \in 0 .. N /\ k \in 0 .. N - 1 /\ k + 1 # 0 /\ (k + 1) - 1 = k
    OBVIOUS
  <2>2. f[k + 1] = f[k] \o BlockCells(BlockOf(n, k + 1), ms[k + 1], k + 1 = NumBlocks(n))
    <3>1. f = [j \in 0 .. N |->
                 IF j = 0 THEN FileHead(n)
                 ELSE f[j - 1] \o BlockCells(BlockOf(n, j), ms[j], j = NumBlocks(n))]
      BY <1>1, <1>4 DEF IsUpTo
    <3> HIDE DEF S
    <3>2. f[k + 1] = IF k + 1 = 0 THEN FileHead(n)
                     ELSE f[(k + 1) - 1] \o BlockCells(BlockOf(n, k + 1), ms[k + 1],
                                                       k + 1 = NumBlocks(n))
      BY <2>1, <3>1, Zenon
    <3> QED  BY <2>1, <3>2
  <2>3. g[k + 1] = g[k] \o BlockCells(BlockOf(n, k + 1), ms[k + 1], k + 1 = NumBlocks(n))
    BY <1>1, <2>1 DEF Packing
  <2> QED  BY <2>1, <2>2, <2>3
<1> HIDE DEF S
<1>7. S \subseteq Nat
  BY DEF S
<1>8. S = Nat
  BY <1>5, <1>6, <1>7, Induction
<1>9. f[N] = g[N]
  BY <1>8 DEF S
<1> QED  BY <1>1, <1>2, <1>4, <1>9
-----------------------------------------------------------------------------
(* bincompress: what /C wrote is a packed file or the beginning of one,    *)
(* and /D has written the blocks before its place in it.                   *)
FileInv(g) ==
  /\ Packing(inSize, made, g)
  /\ outFile \in Seq(CellSet) /\ Grown(outFile, g[Len(made)])
  /\ packStatus = 0 =>
       /\ Len(made) = NumBlocks(inSize)
       /\ "/C" \notin lost => outFile = g[Len(made)]
  /\ tool = "/D" =>
       \E k \in 0 .. Len(made) :
         processed = Len(g[k]) /\ unpacked = Bytes(0, Reach(inSize, k))

IsPlain == outFile = Original /\ packStatus = NeverPacked /\ tool # "/D"

EndInv ==
  tool = "unpacked" =>
    /\ status = 0 /\ "/D" \notin lost => unpacked = Original
    /\ PackedWhole => status \notin {4, 6, 9}

ToolInv ==
  /\ ToolTypeOK /\ made \in Mades(inSize)
  /\ tool = "idle" => outFile = <<>> /\ made = <<>> /\ processed = 0
  /\ tool \in {"idle", "/C"} => packStatus = NeverPacked
  /\ tool \in {"idle", "/C", "packed"} => unpacked = <<>>
  /\ tool = "/C" =>
       \E g : /\ Packing(inSize, made, g) /\ outFile = g[Len(made)]
              /\ processed = Reach(inSize, Len(made))
  /\ tool \in {"packed", "/D", "unpacked"} => IsPlain \/ \E g : FileInv(g)
  /\ tool = "/D" => expected = inSize
  /\ EndInv

LEMMA CutGrown ==
  ASSUME NEW S, NEW f \in Seq(S), NEW c \in Seq(S), NEW w \in CutShort(f, c)
  PROVE  w \in Seq(S) /\ Grown(w, f \o c)
<1>1. PICK k \in 0 .. Len(c) - 1 : w = f \o SubSeq(c, 1, k)
  BY DEF CutShort
<1>2. PICK d : d = SubSeq(c, 1, k)
  OBVIOUS
<1>3. \A i \in 1 .. k : i \in 1 .. Len(c)
  OBVIOUS
<1>4. \A i \in 1 .. k : c[i] \in S
  BY <1>3, ElementOfSeq
<1>5. /\ d \in Seq(S) /\ Len(d) = IF 1 <= k THEN k - 1 + 1 ELSE 0
      /\ \A i \in 1 .. k - 1 + 1 : d[i] = c[1 + i - 1]
  <2>1. k \in Int /\ 1 \in Int
    OBVIOUS
  <2> QED  BY <1>2, <1>4, <2>1, SubSeqProperties
<1>6. Len(d) = k /\ \A i \in 1 .. k : d[i] = c[i]
  BY <1>5
<1>7. w \in Seq(S) /\ Joined(w, f, d)
  BY <1>1, <1>2, <1>5, ConcatIs
<1>8. PICK v : v = f \o c /\ Joined(v, f, c)
  BY ConcatIs
<1>9. PICK a \in Nat : a = Len(f)
  BY LenProperties
<1>10. PICK e \in Nat : e = Len(c)
  BY LenProperties
<1>11. /\ Len(w) = a + k /\ Len(v) = a + e /\ k <= e
       /\ \A i \in 1 .. a : w[i] = f[i] /\ v[i] = f[i]
       /\ \A i \in 1 .. k : w[a + i] = d[i]
       /\ \A i \in 1 .. e : v[a + i] = c[i]
  BY <1>6, <1>7, <1>8, <1>9, <1>10 DEF Joined
<1>12. ASSUME NEW i \in 1 .. a + k PROVE v[i] = w[i]
  <2>1. CASE i <= a
    BY <2>1, <1>11
  <2>2. CASE ~(i <= a)
    <3>1. PICK j \in 1 .. k : i = a + j
      <4>1. i - a \in 1 .. k /\ i = a + (i - a)
        BY <2>2
      <4> QED  BY <4>1
    <3>2. j \in 1 .. e
      BY <1>11
    <3> QED  BY <3>1, <3>2, <1>6, <1>11
  <2> QED  BY <2>1, <2>2
<1> QED  BY <1>7, <1>8, <1>11, <1>12 DEF Grown

LEMMA CloseGrown ==
  ASSUME NEW S, NEW f \in Seq(S), NEW w \in AtClose(f)
  PROVE  w \in Seq(S) /\ Grown(w, f)
<1>1. Grown(f, f)
  BY LenProperties DEF Grown
<1>2. <<>> \in Seq(S) /\ <<>> \o f = f
  BY EmptySeq, ConcatEmptySeq
<1>3. ASSUME w \in CutShort(<<>>, f) PROVE w \in Seq(S) /\ Grown(w, f)
  <2>1. w \in Seq(S) /\ Grown(w, <<>> \o f)
    BY <1>2, <1>3, CutGrown
  <2> QED  BY <2>1, <1>2
<1> QED  BY <1>1, <1>3 DEF AtClose

LEMMA NotSignature == ASSUME NEW n \in Nat PROVE Byte(n) # Signature
<1>1. DOMAIN Byte(n) = {"offset"} /\ DOMAIN Signature = {"signature"}
  BY DEF Byte, Signature
<1> QED  BY <1>1

LEMMA ToolInvInit == ToolInit => ToolInv
<1> SUFFICES ASSUME ToolInit PROVE ToolInv
  OBVIOUS
<1>1. inSize \in Nat
  BY SizeAssumption DEF ToolInit
<1>2. <<>> \in Mades(inSize)
  BY <1>1, PackingEmpty
<1>3. ToolTypeOK
  BY SizeAssumption, EmptySeq DEF ToolInit, ToolTypeOK
<1> QED  BY <1>2, <1>3 DEF ToolInit, ToolInv, EndInv
ToolType == ToolTypeOK /\ inSize \in Nat /\ made \in Mades(inSize)

LEMMA ToolFacts ==
  ASSUME ToolInv
  PROVE  ToolType /\ MaxBlock \in Nat \ {0}
BY SizeAssumption, BlockAssumption DEF ToolInv, ToolType, ToolTypeOK

LEMMA CannotPackKeeps == ToolInv /\ CannotPack => ToolInv'
<1> SUFFICES ASSUME ToolInv, CannotPack PROVE ToolInv'
  OBVIOUS
<1>1. inSize \in Nat /\ tool = "idle" /\ outFile = <<>> /\ made = <<>> /\ unpacked = <<>>
  BY SizeAssumption DEF CannotPack, ToolInv, ToolTypeOK
<1>2. /\ tool' = "packed" /\ packStatus' \in {20, 1, 2} /\ status' = packStatus'
      /\ UNCHANGED <<inSize, outFile, processed, made, unpacked, expected, lost>>
  BY DEF CannotPack, EndPacking, Packs
<1>3. ToolTypeOK' /\ made' \in Mades(inSize')
  BY <1>2 DEF ToolInv, ToolTypeOK
<1>4. PICK g : g = [k \in 0 .. 0 |-> FileHead(inSize)]
  OBVIOUS
<1>5. Packing(inSize, <<>>, g)
  BY <1>1, <1>4, PackingEmpty
<1>6. outFile \in Seq(CellSet) /\ Grown(outFile, g[Len(made)])
  <2>1. g[0] = FileHead(inSize) /\ Len(made) = 0
    BY <1>1, <1>4
  <2>2. Len(g[0]) = 2
    BY <1>1, <2>1, HeadIs
  <2> QED  BY <1>1, <2>1, <2>2, EmptySeq DEF Grown
<1>7. FileInv(g)'
  BY <1>1, <1>2, <1>5, <1>6 DEF FileInv
<1> QED  BY <1>1, <1>2, <1>3, <1>7 DEF ToolInv, EndInv

LEMMA EncodeHeadKeeps == ToolInv /\ EncodeHead => ToolInv'
<1> SUFFICES ASSUME ToolInv, EncodeHead PROVE ToolInv'
  OBVIOUS
<1>1. /\ inSize \in Nat /\ tool = "idle" /\ outFile = <<>> /\ made = <<>> /\ unpacked = <<>>
      /\ processed = 0
  BY SizeAssumption DEF EncodeHead, ToolInv, ToolTypeOK
<1>2. UNCHANGED <<inSize, processed, made, unpacked, expected, lost>>
  BY DEF EncodeHead
<1>3. PICK g : g = [k \in 0 .. 0 |-> FileHead(inSize)]
  OBVIOUS
<1>4. /\ Packing(inSize, <<>>, g) /\ g[0] = FileHead(inSize) /\ Len(<<>>) = 0
      /\ FileHead(inSize) \in Seq(CellSet)
  <2>1. Packing(inSize, <<>>, g)
    BY <1>1, <1>3, PackingEmpty
  <2>2. g[0] = FileHead(inSize) /\ Len(<<>>) = 0
    BY <1>3
  <2> QED  BY <1>1, <2>1, <2>2, HeadIs
<1>5. CASE tool' = "/C" /\ outFile' = FileHead(inSize) /\ UNCHANGED <<status, packStatus>>
  <2>1. ToolTypeOK' /\ made' \in Mades(inSize')
    BY <1>2, <1>5 DEF ToolInv, ToolTypeOK
  <2>2. Reach(inSize, 0) = 0
    BY <1>1, ReachIs
  <2>3. Packing(inSize', made', g) /\ outFile' = g[Len(made')] /\ processed' = Reach(inSize', Len(made'))
    BY <1>1, <1>2, <1>4, <1>5, <2>2
  <2>4. packStatus' = NeverPacked
    BY <1>1, <1>5 DEF ToolInv
  <2> QED  BY <1>1, <1>2, <1>5, <2>1, <2>3, <2>4 DEF ToolInv, EndInv
<1>6. CASE EndPacking(4) /\ outFile' \in CutShort(<<>>, FileHead(inSize))
  <2>1. ToolTypeOK' /\ made' \in Mades(inSize')
    BY <1>2, <1>6 DEF ToolInv, ToolTypeOK, EndPacking, Packs
  <2>2. PICK w : w = outFile'
    OBVIOUS
  <2>3. <<>> \in Seq(CellSet) /\ <<>> \o FileHead(inSize) = FileHead(inSize)
    BY <1>4, EmptySeq, ConcatEmptySeq
  <2>4. w \in Seq(CellSet) /\ Grown(w, <<>> \o FileHead(inSize))
    BY <1>4, <1>6, <2>2, <2>3, CutGrown
  <2>5. Grown(w, g[Len(made)])
    BY <1>1, <1>4, <2>3, <2>4
  <2>6. FileInv(g)'
    BY <1>1, <1>2, <1>4, <1>6, <2>2, <2>4, <2>5 DEF FileInv, EndPacking, Packs
  <2> QED  BY <1>1, <1>2, <1>6, <2>1, <2>6 DEF ToolInv, EndInv, EndPacking, Packs
<1> QED  BY <1>5, <1>6 DEF EncodeHead

(* Where /C stands.                                                        *)
LEMMA WherePacked ==
  ASSUME ToolInv, tool = "/C"
  PROVE  \E g : /\ Packing(inSize, made, g) /\ outFile = g[Len(made)]
                /\ processed = Reach(inSize, Len(made))
                /\ outFile \in Seq(CellSet)
                /\ processed < inSize <=> Len(made) < NumBlocks(inSize)
                /\ Len(made) \in Nat /\ Len(made) <= NumBlocks(inSize)
<1>1. inSize \in Nat /\ made \in Mades(inSize)
  BY ToolFacts DEF ToolType
<1>2. PICK g : /\ Packing(inSize, made, g) /\ outFile = g[Len(made)]
               /\ processed = Reach(inSize, Len(made))
  BY DEF ToolInv
<1>3. PICK L \in Nat : L = Len(made) /\ L <= NumBlocks(inSize)
  BY <1>1, LenProperties DEF Mades
<1>4. outFile \in Seq(CellSet)
  BY <1>1, <1>2, PackingHead
<1>5. L < NumBlocks(inSize) => Reach(inSize, L) < inSize
  BY <1>1, ReachIs
<1>6. ~(L < NumBlocks(inSize)) => Reach(inSize, L) = inSize
  <2>1. NumBlocks(inSize) \in Nat
    BY <1>1, BlocksCover
  <2>2. ~(L < NumBlocks(inSize)) => L = NumBlocks(inSize)
    BY <1>3, <2>1
  <2> QED  BY <1>1, <2>2, ReachIs
<1>7. processed < inSize <=> L < NumBlocks(inSize)
  BY <1>1, <1>2, <1>3, <1>5, <1>6
<1> QED  BY <1>2, <1>3, <1>4, <1>7

LEMMA EncodeFailsKeeps == ToolInv /\ EncodeFails => ToolInv'
<1> SUFFICES ASSUME ToolInv, EncodeFails PROVE ToolInv'
  OBVIOUS
<1>1. tool = "/C" /\ tool' = "packed" /\ packStatus' \in {3, 7} /\ status' = packStatus'
      /\ UNCHANGED <<inSize, outFile, processed, made, unpacked, expected, lost>>
  BY DEF EncodeFails, EndPacking, Packs
<1>2. ToolTypeOK' /\ made' \in Mades(inSize')
  BY <1>1 DEF ToolInv, ToolTypeOK
<1>3. PICK g : Packing(inSize, made, g) /\ outFile = g[Len(made)] /\ outFile \in Seq(CellSet)
  BY <1>1, WherePacked
<1>4. Grown(outFile, g[Len(made)])
  BY <1>3, LenProperties DEF Grown
<1>5. FileInv(g)'
  BY <1>1, <1>3, <1>4 DEF FileInv
<1> QED  BY <1>1, <1>2, <1>5 DEF ToolInv, EndInv

LEMMA EncodeBlockKeeps == ToolInv /\ EncodeBlock => ToolInv'
<1> SUFFICES ASSUME ToolInv, EncodeBlock PROVE ToolInv'
  OBVIOUS
<1>1. /\ tool = "/C" /\ processed < inSize /\ inSize \in Nat /\ made \in Mades(inSize)
      /\ unpacked = <<>> /\ packStatus = NeverPacked
      /\ UNCHANGED <<inSize, unpacked, expected, lost>>
      /\ processed' = processed + ReadLength
  BY ToolFacts DEF EncodeBlock, ToolInv, ToolType
<1>2. PICK g : /\ Packing(inSize, made, g) /\ outFile = g[Len(made)]
               /\ processed = Reach(inSize, Len(made))
               /\ outFile \in Seq(CellSet)
               /\ Len(made) \in Nat /\ Len(made) < NumBlocks(inSize)
  BY <1>1, WherePacked
<1>3. PICK m \in 1 .. MaxBlock :
        LET cells == BlockCells(Bytes(processed, ReadLength), m, IsLast)
        IN  /\ made' = Append(made, m)
            /\ \/ /\ outFile' = Written(outFile, cells)
                  /\ UNCHANGED <<tool, status, packStatus>>
               \/ outFile' \in CutShort(outFile, cells) /\ EndPacking(4)
  BY DEF EncodeBlock
<1>4. PICK L \in Nat : L = Len(made)
  BY <1>2
<1>5. /\ processed' = Reach(inSize, L + 1)
      /\ IsLast <=> L + 1 = NumBlocks(inSize)
      /\ Bytes(processed, ReadLength) = BlockOf(inSize, L + 1)
  <2>1. Reach(inSize, L + 1) = processed + ReadLength
    BY <1>1, <1>2, <1>4, ReachIs DEF ReadLength
  <2>2. Reach(inSize, L + 1) = inSize <=> L + 1 = NumBlocks(inSize)
    BY <1>1, <1>2, <1>4, ReachIs
  <2>3. Bytes(processed, ReadLength) = BlockOf(inSize, L + 1)
    BY <1>1, <1>2, <1>4, BlockOfIs DEF ReadLength
  <2> QED  BY <1>1, <2>1, <2>2, <2>3 DEF IsLast
<1>6. PICK last \in BOOLEAN : last = (L + 1 = NumBlocks(inSize)) /\ IsLast = last
  BY <1>5 DEF IsLast
<1>7. PICK c \in Seq(CellSet) : c = BlockCells(BlockOf(inSize, L + 1), m, last)
  <2>1. PICK b \in Seq(ByteSet) : b = BlockOf(inSize, L + 1) /\ b # <<>>
    BY <1>1, <1>2, <1>4, BlockOfIs
  <2>2. m \in Nat \ {0}
    BY BlockAssumption
  <2>3. BlockCells(b, m, last) \in Seq(CellSet)
    BY <2>1, <2>2, BlockCellsAre
  <2> QED  BY <2>1, <2>3
<1>8. \/ outFile' = outFile \o c /\ UNCHANGED <<tool, status, packStatus>>
      \/ outFile' \in CutShort(outFile, c) /\ EndPacking(4)
  BY <1>3, <1>5, <1>6, <1>7 DEF Written
<1>9. PICK made2 \in Mades(inSize) : made2 = Append(made, m) /\ Len(made2) = L + 1
  BY <1>1, <1>2, <1>4, PackingAdds
<1>10. PICK h : Packing(inSize, made2, h) /\ h[L + 1] = g[L] \o c
  <2>1. Len(made) < NumBlocks(inSize) /\ Packing(inSize, made, g)
    BY <1>2
  <2>2. PICK h : /\ Packing(inSize, Append(made, m), h)
                 /\ h[Len(made) + 1] =
                      g[Len(made)] \o BlockCells(BlockOf(inSize, Len(made) + 1), m,
                                                 Len(made) + 1 = NumBlocks(inSize))
    <3>1. inSize \in Nat /\ made \in Mades(inSize)
      BY <1>1
    <3> QED  BY <2>1, <3>1, PackingAdds, Zenon
  <2>3. h[L + 1] = g[L] \o c
    BY <2>2, <1>4, <1>6, <1>7
  <2> QED  BY <2>2, <2>3, <1>9
<1>11. made' = made2 /\ made' \in Mades(inSize')
  BY <1>1, <1>3, <1>9
<1>12. made' \in Seq(1 .. MaxBlock) /\ processed' \in Nat
  <2>1. L + 1 \in Nat
    OBVIOUS
  <2> QED  BY <1>1, <1>5, <1>11, <2>1, ReachIs DEF Mades
<1>13. CASE outFile' = outFile \o c /\ UNCHANGED <<tool, status, packStatus>>
  <2>1. ToolTypeOK'
    BY <1>1, <1>12, <1>13 DEF ToolInv, ToolTypeOK
  <2>2. Packing(inSize', made', h) /\ outFile' = h[Len(made')] /\ processed' = Reach(inSize', Len(made'))
    BY <1>1, <1>2, <1>4, <1>5, <1>9, <1>10, <1>11, <1>13
  <2> QED  BY <1>1, <1>11, <1>13, <2>1, <2>2 DEF ToolInv, EndInv
<1>14. CASE outFile' \in CutShort(outFile, c) /\ EndPacking(4)
  <2>1. ToolTypeOK'
    BY <1>1, <1>12, <1>14 DEF ToolInv, ToolTypeOK, EndPacking, Packs
  <2>2. PICK w : w = outFile'
    OBVIOUS
  <2>3. PICK f \in Seq(CellSet) : f = outFile
    BY <1>2
  <2>4. w \in Seq(CellSet) /\ Grown(w, f \o c)
    BY <1>14, <2>2, <2>3, CutGrown
  <2>5. Grown(w, h[Len(made')])
    BY <1>2, <1>4, <1>9, <1>10, <1>11, <2>3, <2>4
  <2>6. FileInv(h)'
    BY <1>1, <1>10, <1>11, <1>14, <2>2, <2>4, <2>5 DEF FileInv, EndPacking, Packs
  <2> QED  BY <1>1, <1>11, <1>14, <2>1, <2>6 DEF ToolInv, EndInv, EndPacking, Packs
<1> QED  BY <1>8, <1>13, <1>14

LEMMA EncodeEndKeeps == ToolInv /\ EncodeEnd => ToolInv'
<1> SUFFICES ASSUME ToolInv, EncodeEnd PROVE ToolInv'
  OBVIOUS
<1>1. /\ tool = "/C" /\ ~(processed < inSize) /\ inSize \in Nat /\ made \in Mades(inSize)
      /\ UNCHANGED <<inSize, processed, made, unpacked, expected>>
      /\ tool' = "packed" /\ packStatus' = 0 /\ status' = 0
      /\ outFile' \in AtClose(outFile)
      /\ lost' = IF outFile' = outFile THEN lost ELSE lost \cup {"/C"}
      /\ unpacked = <<>>
  <2>1. processed \in Nat /\ inSize \in Nat /\ made \in Mades(inSize)
    BY ToolFacts DEF ToolType, ToolTypeOK
  <2> QED  BY <2>1 DEF EncodeEnd, EndPacking, Packs, ToolInv
<1>2. PICK g : /\ Packing(inSize, made, g) /\ outFile = g[Len(made)]
               /\ outFile \in Seq(CellSet)
               /\ Len(made) = NumBlocks(inSize)
  <2>1. NumBlocks(inSize) \in Nat
    BY <1>1, BlocksCover
  <2> QED  BY <1>1, <2>1, WherePacked
<1>3. ToolTypeOK' /\ made' \in Mades(inSize')
  BY <1>1 DEF ToolInv, ToolTypeOK
<1>4. PICK w : w = outFile'
  OBVIOUS
<1>5. PICK f \in Seq(CellSet) : f = outFile
  BY <1>2
<1>6. w \in Seq(CellSet) /\ Grown(w, f)
  BY <1>1, <1>4, <1>5, CloseGrown
<1>7. "/C" \notin lost' => outFile' = outFile
  BY <1>1
<1>8. FileInv(g)'
  BY <1>1, <1>2, <1>4, <1>5, <1>6, <1>7 DEF FileInv
<1> QED  BY <1>1, <1>3, <1>8 DEF ToolInv, EndInv

LEMMA TakePlainKeeps == ToolInv /\ TakePlain => ToolInv'
<1> SUFFICES ASSUME ToolInv, TakePlain PROVE ToolInv'
  OBVIOUS
<1>1. /\ tool = "idle" /\ tool' = "packed" /\ outFile' = Original
      /\ UNCHANGED <<inSize, processed, made, unpacked, expected, status, packStatus, lost>>
      /\ packStatus = NeverPacked /\ unpacked = <<>>
  BY DEF TakePlain, ToolInv
<1>2. ToolTypeOK' /\ made' \in Mades(inSize')
  BY <1>1 DEF ToolInv, ToolTypeOK
<1>3. IsPlain'
  BY <1>1 DEF IsPlain, Original
<1> QED  BY <1>1, <1>2, <1>3 DEF ToolInv, EndInv
LEMMA CannotUnpackKeeps == ToolInv /\ (CannotUnpack \/ DecodeReadFails) => ToolInv'
<1> SUFFICES ASSUME ToolInv, CannotUnpack \/ DecodeReadFails PROVE ToolInv'
  OBVIOUS
<1>1. /\ tool \in {"packed", "/D"} /\ tool' = "unpacked" /\ status' \in {20, 1, 3}
      /\ UNCHANGED <<inSize, outFile, processed, made, unpacked, expected, packStatus, lost>>
  BY DEF CannotUnpack, DecodeReadFails, EndUnpacking, More
<1>2. ToolTypeOK' /\ made' \in Mades(inSize')
  BY <1>1 DEF ToolInv, ToolTypeOK
<1>3. IsPlain \/ \E g : FileInv(g)
  BY <1>1 DEF ToolInv
<1>4. IsPlain' \/ \E g : FileInv(g)'
  BY <1>1, <1>3 DEF IsPlain, Original, FileInv
<1> QED  BY <1>1, <1>2, <1>4 DEF ToolInv, EndInv

LEMMA DecodeHeadKeeps == ToolInv /\ DecodeHead => ToolInv'
<1> SUFFICES ASSUME ToolInv, DecodeHead PROVE ToolInv'
  OBVIOUS
<1>1. /\ tool = "packed" /\ unpacked = <<>> /\ inSize \in Nat /\ made \in Mades(inSize)
      /\ UNCHANGED <<inSize, outFile, made, unpacked, packStatus, lost>>
  BY ToolFacts DEF DecodeHead, ToolInv, ToolType
<1>2. made' \in Mades(inSize') /\ (IsPlain \/ \E g : FileInv(g))
  BY <1>1 DEF ToolInv
<1>3. CASE EndUnpacking(3) /\ processed' = 0 /\ UNCHANGED expected
  <2>1. ToolTypeOK'
    BY <1>1, <1>3 DEF ToolInv, ToolTypeOK, EndUnpacking
  <2>2. IsPlain' \/ \E g : FileInv(g)'
    BY <1>1, <1>2, <1>3 DEF IsPlain, Original, FileInv, EndUnpacking
  <2> QED  BY <1>1, <1>2, <1>3, <2>1, <2>2 DEF ToolInv, EndInv, EndUnpacking
<1>4. CASE /\ Len(outFile) >= 1 /\ outFile[1] # Signature /\ EndUnpacking(9)
           /\ processed' = 0 /\ UNCHANGED expected
  <2>1. ToolTypeOK'
    BY <1>1, <1>4 DEF ToolInv, ToolTypeOK, EndUnpacking
  <2>2. IsPlain' \/ \E g : FileInv(g)'
    BY <1>1, <1>2, <1>4 DEF IsPlain, Original, FileInv, EndUnpacking
  <2>3. ~PackedWhole'
    <3>1. CASE IsPlain
      BY <1>1, <3>1 DEF IsPlain, PackedWhole, NeverPacked
    <3>2. CASE \E g : FileInv(g)
      <4>1. PICK g : FileInv(g)
        BY <3>2
      <4>2. g[Len(made)][1] = Signature
        BY <1>1, <4>1, PackingHead DEF FileInv
      <4>3. ~(packStatus = 0 /\ "/C" \notin lost)
        BY <1>4, <4>1, <4>2 DEF FileInv
      <4> QED  BY <1>1, <4>3 DEF PackedWhole
    <3> QED  BY <1>2, <3>1, <3>2
  <2> QED  BY <1>1, <1>2, <1>4, <2>1, <2>2, <2>3 DEF ToolInv, EndInv, EndUnpacking
<1>5. CASE /\ Len(outFile) >= 2 /\ outFile[1] = Signature
           /\ expected' = outFile[2].length /\ processed' = 2
           /\ \/ tool' = "/D" /\ UNCHANGED status
              \/ EndUnpacking(2)
  <2>1. PICK g : FileInv(g)
    <3>1. ~IsPlain
      <4> SUFFICES ASSUME outFile = Bytes(0, inSize) PROVE FALSE
        BY DEF IsPlain, Original
      <4>1. Len(outFile) = inSize /\ \A i \in 1 .. inSize : outFile[i] = Byte(0 + i - 1)
        <5>1. 0 \in Nat /\ inSize \in Nat
          BY <1>1
        <5> QED  BY <5>1, BytesAre
      <4>2. 1 \in 1 .. inSize
        BY <1>1, <1>5, <4>1
      <4>3. outFile[1] = Byte(0)
        BY <4>1, <4>2
      <4> QED  BY <1>5, <4>3, NotSignature
    <3> QED  BY <1>2, <3>1
  <2>2. PICK F : F = g[Len(made)]
    OBVIOUS
  <2>3. F[2] = Length(inSize) /\ Len(g[0]) = 2 /\ Packing(inSize, made, g)
    BY <1>1, <2>1, <2>2, PackingHead DEF FileInv
  <2>4. outFile[2] = F[2]
    <3>1. outFile \in Seq(CellSet) /\ Grown(outFile, F)
      BY <2>1, <2>2 DEF FileInv
    <3>2. 2 \in 1 .. Len(outFile)
      BY <1>5, <3>1, LenProperties
    <3> QED  BY <3>1, <3>2 DEF Grown
  <2>5. expected' = inSize
    BY <1>5, <2>3, <2>4 DEF Length
  <2>6. ToolTypeOK'
    BY <1>1, <1>5, <2>5 DEF ToolInv, ToolTypeOK, EndUnpacking
  <2>7. FileInv(g)'
    <3>1. 0 \in 0 .. Len(made) /\ unpacked = Bytes(0, Reach(inSize, 0))
      <4>1. Bytes(0, 0) = <<>>
        BY BytesAre, EmptySeq
      <4>2. Len(made) \in Nat
        BY <1>1, LenProperties DEF Mades
      <4> QED  BY <1>1, <4>1, <4>2, ReachIs
    <3>2. \E k \in 0 .. Len(made) : processed' = Len(g[k]) /\ unpacked = Bytes(0, Reach(inSize, k))
      BY <3>1, <1>5, <2>3
    <3> QED  BY <1>1, <2>1, <3>2 DEF FileInv
  <2>8. CASE tool' = "/D" /\ UNCHANGED status
    BY <1>1, <1>2, <2>5, <2>6, <2>7, <2>8 DEF ToolInv, EndInv
  <2>9. CASE EndUnpacking(2)
    BY <1>1, <1>2, <2>5, <2>6, <2>7, <2>9 DEF ToolInv, EndInv, EndUnpacking
  <2> QED  BY <1>5, <2>8, <2>9
<1> QED  BY <1>3, <1>4, <1>5 DEF DecodeHead

(* What /D takes for the next block is that block, and all of it.          *)
LEMMA NextRestored ==
  ASSUME ToolInv, HasBlock, NEW g, FileInv(g)
  PROVE  \E k \in Nat :
           /\ k + 1 \in 0 .. Len(made)
           /\ processed + Taken = Len(g[k + 1])
           /\ Restored # Failed /\ Restored \in Seq(ByteSet)
           /\ unpacked \o Restored = Bytes(0, Reach(inSize, k + 1))
           /\ unpacked \in Seq(ByteSet)
<1>1. /\ inSize \in Nat /\ made \in Mades(inSize) /\ processed \in Nat /\ tool = "/D"
      /\ Packing(inSize, made, g) /\ outFile \in Seq(CellSet) /\ Grown(outFile, g[Len(made)])
  BY ToolFacts DEF ToolType, ToolTypeOK, HasBlock, More, FileInv
<1>2. PICK L \in Nat : L = Len(made) /\ L <= NumBlocks(inSize)
  BY <1>1, LenProperties DEF Mades
<1>3. PICK k \in 0 .. L : processed = Len(g[k]) /\ unpacked = Bytes(0, Reach(inSize, k))
  BY <1>1, <1>2 DEF FileInv
<1>4. PICK F : F = g[L]
  OBVIOUS
<1>5. PICK o \in Nat : o = Len(outFile)
  BY <1>1, LenProperties
<1>6. PICK p \in Nat : p = processed
  BY <1>1
<1>7. p < o /\ o <= Len(F) /\ \A i \in 1 .. o : outFile[i] = F[i]
  BY <1>1, <1>2, <1>4, <1>5, <1>6 DEF Grown, HasBlock, More
<1>8. k \in 0 .. L - 1 /\ k < NumBlocks(inSize)
  <2>1. Len(F) \in Nat
    BY <1>1, <1>2, <1>4, PackingHead
  <2>2. k # L
    BY <1>3, <1>4, <1>6, <1>7, <2>1
  <2>3. NumBlocks(inSize) \in Nat
    BY <1>1, BlocksCover
  <2> QED  BY <1>2, <2>2, <2>3
<1>81. k \in Nat /\ inSize \in Nat /\ k < NumBlocks(inSize)
  BY <1>1, <1>8
<1>82. /\ BlockOf(inSize, k + 1) \in Seq(ByteSet) /\ BlockOf(inSize, k + 1) # <<>>
       /\ k + 1 # NumBlocks(inSize) => Len(BlockOf(inSize, k + 1)) = MaxBlock
       /\ Bytes(0, Reach(inSize, k)) \o BlockOf(inSize, k + 1) = Bytes(0, Reach(inSize, k + 1))
  BY <1>81, BlockOfIs
<1>9. PICK b \in Seq(ByteSet) : b = BlockOf(inSize, k + 1) /\ b # <<>>
  BY <1>82
<1>10. PICK last \in BOOLEAN : last = (k + 1 = NumBlocks(inSize))
  OBVIOUS
<1>11. PICK m \in Nat \ {0} : m = made[k + 1]
  BY <1>1, <1>2, <1>8, PackingBlock
<1>12. PICK z \in Nat \ {0} : z = SizeOf(b, m)
  BY <1>1, <1>2, <1>8, <1>9, <1>11, PackingBlock
<1>13. PICK e \in 1 .. 2 : e = HeadLength(last) /\ (last <=> e = 2)
  BY DEF HeadLength
<1>14. Len(g[k + 1]) = p + e + z /\ BlockAt(F, p, b, m, last)
  BY <1>1, <1>2, <1>3, <1>4, <1>6, <1>8, <1>9, <1>10, <1>11, <1>12, <1>13, PackingBlock
<1>15. ThisHead = BlockHead(b, m, last)
  <2>1. p + 1 \in 1 .. o
    BY <1>7
  <2>2. outFile[p + 1] = BlockHead(b, m, last)
    BY <2>1, <1>7, <1>14 DEF BlockAt
  <2> QED  BY <2>2, <1>6 DEF ThisHead, InFile
<1>16. ThisHead.size = z /\ ThisHead.stored = Stored(b, m) /\ ThisHead.partial = last
  BY <1>12, <1>15 DEF BlockHead, SizeOf
<1>17. Taken = e + z
  BY <1>13, <1>16 DEF Taken
<1>18. p + (e + z) <= o
  BY <1>5, <1>6, <1>17 DEF HasBlock, Unread
<1>19. WriteLength = Len(b)
  <2>1. CASE last
    <3>0. p + 2 \in 1 .. o
      <4>1. e = 2
        BY <2>1, <1>13
      <4> HIDE <2>1
      <4> QED  BY <4>1, <1>18
    <3>1. F[p + 2] = Length(Len(b))
      BY <2>1, <1>14 DEF BlockAt
    <3>2. InFile(2) = Length(Len(b))
      BY <3>0, <3>1, <1>6, <1>7 DEF InFile
    <3> QED  BY <2>1, <3>2, <1>16 DEF WriteLength, Length
  <2>2. CASE ~last
    BY <2>2, <1>82, <1>9, <1>10, <1>16 DEF WriteLength
  <2> QED  BY <2>1, <2>2
<1>20. PICK d : d = SubSeq(outFile, p + 1 + (e + z) - z, p + (e + z)) /\ d = BlockData
  BY <1>6, <1>16, <1>17 DEF BlockData
<1>21. /\ d \in Seq(CellSet) /\ Len(d) = z
       /\ \A i \in 1 .. z : d[i] = outFile[p + e + i]
  <2>1. PICK a \in Int, c \in Int : a = p + 1 + (e + z) - z /\ c = p + (e + z)
    OBVIOUS
  <2>2. \A i \in a .. c : i \in 1 .. o
    BY <2>1, <1>18
  <2>3. \A i \in a .. c : outFile[i] \in CellSet
    BY <2>2, <1>1, <1>5, ElementOfSeq
  <2>31. /\ SubSeq(outFile, a, c) \in Seq(CellSet)
         /\ Len(SubSeq(outFile, a, c)) = IF a <= c THEN c - a + 1 ELSE 0
         /\ \A i \in 1 .. c - a + 1 : SubSeq(outFile, a, c)[i] = outFile[a + i - 1]
    BY <1>1, <2>3, SubSeqProperties
  <2>32. d = SubSeq(outFile, a, c)
    BY <1>20, <2>1
  <2>4. /\ d \in Seq(CellSet) /\ Len(d) = IF a <= c THEN c - a + 1 ELSE 0
        /\ \A i \in 1 .. c - a + 1 : d[i] = outFile[a + i - 1]
    BY <2>31, <2>32
  <2>5. c - a + 1 = z /\ \A i \in 1 .. z : a + i - 1 = p + e + i
    BY <2>1
  <2>6. a <= c
    BY <2>5
  <2> QED  BY <2>4, <2>5, <2>6
<1>22. \A i \in 1 .. z : d[i] = IF Stored(b, m) THEN b[i] ELSE Encoded(b, m)[i]
  <2> SUFFICES ASSUME NEW i \in 1 .. z
               PROVE  d[i] = IF Stored(b, m) THEN b[i] ELSE Encoded(b, m)[i]
    OBVIOUS
  <2>1. p + e + i \in 1 .. o
    BY <1>18
  <2>2. d[i] = F[p + e + i]
    BY <2>1, <1>7, <1>21
  <2>3. F[p + e + i] = IF Stored(b, m) THEN b[i] ELSE Encoded(b, m)[i]
    BY <1>12, <1>13, <1>14 DEF BlockAt
  <2> QED  BY <2>2, <2>3
<1>23. Restored = b
  <2>1. /\ Stored(b, m) => SubSeq(d, 1, Len(b)) = b
        /\ ~Stored(b, m) => Decoded(d) = b
    BY <1>9, <1>12, <1>21, <1>22, BlockRestores
  <2> QED  BY <2>1, <1>16, <1>19, <1>20 DEF Restored
<1>24. k + 1 \in 0 .. L /\ processed + Taken = Len(g[k + 1])
  BY <1>6, <1>8, <1>14, <1>17
<1>25. unpacked \o b = Bytes(0, Reach(inSize, k + 1)) /\ unpacked \in Seq(ByteSet)
  <2>1. Reach(inSize, k) \in Nat /\ 0 \in Nat
    BY <1>81, ReachIs
  <2>2. Bytes(0, Reach(inSize, k)) \in Seq(ByteSet)
    BY <2>1, BytesAre
  <2>3. Bytes(0, Reach(inSize, k)) \o b = Bytes(0, Reach(inSize, k + 1))
    BY <1>82, <1>9
  <2> QED  BY <2>2, <2>3, <1>3
<1>26. Restored # Failed
  BY <1>9, <1>23 DEF Failed
<1>27. k + 1 \in 0 .. Len(made)
  BY <1>2, <1>24
<1> QED  BY <1>81, <1>9, <1>23, <1>24, <1>25, <1>26, <1>27

LEMMA DecodeBlockKeeps == ToolInv /\ DecodeBlock => ToolInv'
<1> SUFFICES ASSUME ToolInv, DecodeBlock PROVE ToolInv'
  OBVIOUS
<1>1. /\ tool = "/D" /\ made \in Mades(inSize) /\ HasBlock
      /\ UNCHANGED <<inSize, outFile, made, expected, packStatus, lost>>
      /\ processed' = processed + Taken
  BY DEF DecodeBlock, ToolInv, HasBlock, More
<1>2. PICK g : FileInv(g)
  BY <1>1 DEF ToolInv, IsPlain
<1>3. PICK k \in Nat :
        /\ k + 1 \in 0 .. Len(made)
        /\ processed + Taken = Len(g[k + 1])
        /\ Restored # Failed /\ Restored \in Seq(ByteSet)
        /\ unpacked \o Restored = Bytes(0, Reach(inSize, k + 1))
        /\ unpacked \in Seq(ByteSet)
  BY <1>1, <1>2, NextRestored
<1>4. made' \in Mades(inSize') /\ processed' \in Nat
  <2>1. Len(g[k + 1]) \in Nat
    <3>1. Packing(inSize, made, g) /\ g[k + 1] \in Seq(CellSet)
      BY <1>2, <1>3 DEF FileInv, Packing
    <3> QED  BY <3>1, LenProperties
  <2> QED  BY <1>1, <1>3, <2>1
<1>5. CASE unpacked' = Written(unpacked, Restored) /\ UNCHANGED <<tool, status>>
  <2>1. ToolTypeOK'
    BY <1>1, <1>4, <1>5 DEF ToolInv, ToolTypeOK
  <2>2. \E j \in 0 .. Len(made) : processed' = Len(g[j]) /\ unpacked' = Bytes(0, Reach(inSize, j))
    BY <1>1, <1>3, <1>5 DEF Written
  <2>3. FileInv(g)'
    BY <1>1, <1>2, <1>5, <2>2 DEF FileInv
  <2> QED  BY <1>1, <1>4, <1>5, <2>1, <2>3 DEF ToolInv, EndInv
<1>6. CASE unpacked' \in CutShort(unpacked, Restored) /\ EndUnpacking(5)
  <2>1. ToolTypeOK'
    BY <1>1, <1>4, <1>6 DEF ToolInv, ToolTypeOK, EndUnpacking
  <2>2. FileInv(g)'
    BY <1>1, <1>2, <1>6 DEF FileInv, EndUnpacking
  <2> QED  BY <1>1, <1>4, <1>6, <2>1, <2>2 DEF ToolInv, EndInv, EndUnpacking
<1> QED  BY <1>3, <1>5, <1>6 DEF DecodeBlock

LEMMA DecodeEndKeeps == ToolInv /\ DecodeEnd => ToolInv'
<1> SUFFICES ASSUME ToolInv, DecodeEnd PROVE ToolInv'
  OBVIOUS
<1>1. /\ tool = "/D" /\ made \in Mades(inSize) /\ inSize \in Nat /\ expected = inSize
      /\ UNCHANGED <<inSize, outFile, processed, made, expected, packStatus>>
      /\ tool' = "unpacked" /\ status' = IF Len(unpacked) = expected THEN 0 ELSE 6
      /\ unpacked' \in AtClose(unpacked)
      /\ lost' = IF unpacked' = unpacked THEN lost ELSE lost \cup {"/D"}
      /\ processed >= Len(outFile)
  BY ToolFacts DEF DecodeEnd, ToolInv, ToolType, EndUnpacking
<1>2. PICK g : FileInv(g)
  BY <1>1 DEF ToolInv, IsPlain
<1>3. ToolTypeOK' /\ made' \in Mades(inSize')
  BY <1>1 DEF ToolInv, ToolTypeOK
<1>4. PICK L \in Nat : L = Len(made) /\ Packing(inSize, made, g)
  BY <1>1, <1>2, LenProperties DEF Mades, FileInv
<1>5. PICK k \in 0 .. L : processed = Len(g[k]) /\ unpacked = Bytes(0, Reach(inSize, k))
  BY <1>1, <1>2, <1>4 DEF FileInv
<1>6. Len(unpacked) = Reach(inSize, k) /\ Reach(inSize, k) \in Nat
  BY <1>1, <1>5, ReachIs, BytesAre
<1>7. Len(unpacked) = expected => unpacked = Original
  BY <1>1, <1>5, <1>6 DEF Original
<1>8. PackedWhole => Len(unpacked) = expected
  <2> SUFFICES ASSUME PackedWhole PROVE Reach(inSize, k) = inSize
    BY <1>1, <1>6
  <2>1. outFile = g[L] /\ L = NumBlocks(inSize)
    BY <1>2, <1>4 DEF PackedWhole, FileInv
  <2>2. k = L
    <3>1. k < L => Len(g[k]) < Len(g[L])
      BY <1>1, <1>4, PackingGrows
    <3>2. Len(g[k]) \in Nat /\ Len(g[L]) \in Nat
      <4>1. g[k] \in Seq(CellSet) /\ g[L] \in Seq(CellSet)
        BY <1>4, <1>5 DEF Packing
      <4> QED  BY <4>1, LenProperties
    <3> QED  BY <1>1, <1>5, <2>1, <3>1, <3>2
  <2> QED  BY <1>1, <2>1, <2>2, ReachIs
<1>9. PackedWhole' => PackedWhole
  BY <1>1 DEF PackedWhole
<1>10. "/D" \notin lost' => unpacked' = unpacked
  BY <1>1
<1>11. EndInv'
  <2>1. status' = 0 /\ "/D" \notin lost' => unpacked' = Original'
    BY <1>1, <1>7, <1>10 DEF Original
  <2>2. PackedWhole' => status' \notin {4, 6, 9}
    BY <1>1, <1>8, <1>9
  <2> QED  BY <2>1, <2>2 DEF EndInv
<1>12. FileInv(g)'
  BY <1>1, <1>2 DEF FileInv
<1> QED  BY <1>1, <1>3, <1>11, <1>12 DEF ToolInv

LEMMA RunAgainKeeps == ToolInv /\ RunAgain => ToolInv'
<1> SUFFICES ASSUME ToolInv, RunAgain PROVE ToolInv'
  OBVIOUS
<1>1. inSize' \in Nat /\ <<>> \in Mades(inSize')
  BY SizeAssumption, PackingEmpty DEF RunAgain
<1>2. ToolTypeOK'
  BY EmptySeq DEF RunAgain, ToolTypeOK, NeverPacked
<1> QED  BY <1>1, <1>2 DEF RunAgain, ToolInv, EndInv

LEMMA ToolInvNext == ToolInv /\ [ToolNext]_toolVars => ToolInv'
<1> SUFFICES ASSUME ToolInv, [ToolNext]_toolVars PROVE ToolInv'
  OBVIOUS
<1>1. CASE UNCHANGED toolVars
  <2>1. IsPlain' = IsPlain /\ \A g : FileInv(g)' = FileInv(g)
    BY <1>1 DEF toolVars, IsPlain, Original, FileInv
  <2> QED  BY <1>1, <2>1 DEF toolVars, ToolInv, ToolTypeOK, EndInv, PackedWhole, Original
<1>2. CASE ToolNext
  BY <1>2, CannotPackKeeps, EncodeHeadKeeps, EncodeFailsKeeps, EncodeBlockKeeps,
     EncodeEndKeeps, TakePlainKeeps, CannotUnpackKeeps, DecodeHeadKeeps, DecodeBlockKeeps,
     DecodeEndKeeps, RunAgainKeeps DEF ToolNext
<1> QED  BY <1>1, <1>2

LEMMA ToolInvGives == ToolInv => RoundTrip
<1> SUFFICES ASSUME ToolInv PROVE RoundTrip
  OBVIOUS
<1>1. PackedWhole => outFile = Packed(inSize, made)
  <2> SUFFICES ASSUME PackedWhole PROVE outFile = Packed(inSize, made)
    OBVIOUS
  <2>1. tool \in {"packed", "/D", "unpacked"} /\ packStatus # NeverPacked
    BY DEF PackedWhole, ToolInv, ToolTypeOK, NeverPacked
  <2>2. PICK g : FileInv(g)
    BY <2>1 DEF ToolInv, IsPlain
  <2>3. outFile = g[Len(made)] /\ Len(made) = NumBlocks(inSize) /\ Packing(inSize, made, g)
    BY <2>2 DEF PackedWhole, FileInv
  <2>4. inSize \in Nat /\ made \in Mades(inSize)
    BY ToolFacts DEF ToolType
  <2> QED  BY <2>3, <2>4, PackedIs
<1> QED  BY <1>1 DEF ToolInv, EndInv, RoundTrip

(* bincompress: what /D calls a success is the original, and the file of a *)
(* /C that succeeded has the form the loader reads.                        *)
THEOREM RoundTripHolds == ToolSpec => []RoundTrip
<1>1. ToolSpec => []ToolInv
  BY ToolInvInit, ToolInvNext, PTL DEF ToolSpec
<1> QED  BY <1>1, ToolInvGives, PTL
=============================================================================
