----------------------------- MODULE BiosProofs -----------------------------
(***************************************************************************)
(* Theorems about the BIOS loader and its decoder, for every disk whose    *)
(* files are as they were written or the beginning of that.                *)
(***************************************************************************)
EXTENDS BiosBoot, BinCompressProofs

Asking == {"splash read", "image header", "record header", "body"}
ImageStages == {"opened", "image header", "record header", "body"}
Busy == {"splash size", "splash read"} \cup ImageStages

AnyCell == CellSet \cup {Zero}

(* What stands at place o of a file, as the decoder delivers it: of one    *)
(* that was cut off the last cell is a zero.                               *)
TrueCell(f, o, c) ==
  \/ c = Byte(o) /\ (f.whole \/ o + 1 # Len(f.data))
  \/ ~f.whole /\ (c = Zero \/ o = 0)

CellsTrue(f, o, w) ==
  w \in Seq(AnyCell) /\ \A i \in 1 .. Len(w) : TrueCell(f, o + i - 1, w[i])

FileForm(f) ==
  /\ Len(f.data) \in Nat /\ f.slack \in Nat /\ f.whole \in BOOLEAN
  /\ f.cells \in Seq(CellSet) /\ Len(f.cells) \in Nat

PlainForm(f) ==
  /\ \A i \in 1 .. Len(f.cells) : f.cells[i] = Byte(i - 1) \/ (i = 1 /\ ~f.whole)
  /\ IF f.whole THEN Len(f.cells) = Len(f.data)
     ELSE Len(f.cells) < Len(f.data) \/ Len(f.cells) <= 1

PackedForm(f, ms, g) ==
  /\ ms \in Mades(Len(f.data)) /\ Len(ms) = NumBlocks(Len(f.data))
  /\ Packing(Len(f.data), ms, g) /\ Grown(f.cells, g[Len(ms)])
  /\ f.whole <=> Len(f.cells) = Len(g[Len(ms)])

(* Where the decoder stands in a packed file: behind block k, with some of *)
(* it still to be delivered, or, of a file that was cut off, behind all    *)
(* there is.                                                               *)
BehindBlock(f, g, k) ==
  LET left == originalDataBytesLeft
  IN  /\ fsPos = Len(g[k]) /\ left \in Nat /\ place + left = Reach(Len(f.data), k)
      /\ left > 0 =>
           \E b : \E o \in Nat :
             /\ originalData = b /\ CellsTrue(f, o, b)
             /\ originalDataPos + left = Len(b) /\ o + Len(b) = Reach(Len(f.data), k)
             /\ Len(b) <= MaxBlock
BehindAll(f) == ~f.whole /\ originalDataBytesLeft = 0 /\ fsPos >= Len(f.cells)

InPacked(f) ==
  \E ms, g :
    /\ PackedForm(f, ms, g)
    /\ BehindAll(f) \/ \E k \in 0 .. NumBlocks(Len(f.data)) : BehindBlock(f, g, k)
InPlain(f) == PlainForm(f) /\ fsPos = place

HasGiven(f) == \E w : \E o \in Nat : given = w /\ place = o + Len(w) /\ CellsTrue(f, o, w)
ReadsIn(f) ==
  /\ FileForm(f) /\ compressedFile = IsPacked(f)
  /\ HasGiven(f)
  /\ f.whole => place + need <= Len(f.data)
  /\ ~broke => IF IsPacked(f) THEN InPacked(f) ELSE InPlain(f)
  /\ broke /\ f.whole /\ ~(workHit /\ IsPacked(f)) => faults > 0
ReadInv == \E v, f : vol = v /\ fsFile \in DOMAIN v /\ v[fsFile] = f /\ f # NoFile /\ ReadsIn(f)

(* The records before header p are in memory, the later of two for one     *)
(* address.                                                                *)
IsRecord(d, r) == d[r].kind = "record"
Latest(d, p, r) ==
  IsRecord(d, r) /\ \A s \in r + 1 .. p - 1 : ~(IsRecord(d, s) /\ d[s].addr = d[r].addr)
Placed(f, p) ==
  f.whole => \A r \in 1 .. p - 1 :
    Latest(f.data, p, r) => ram[f.data[r].addr] = [image |-> loading, record |-> r]

AtHeader(f) ==
  \E p \in Headers(f.data) : Len(given) + need = 1 /\ place + need = p /\ Placed(f, p)
InBody(f) ==
  \E p \in Headers(f.data) :
    /\ IsRecord(f.data, p) /\ target = f.data[p].addr
    /\ place + need = p + f.data[p].len /\ Len(given) + need = f.data[p].len
    /\ Placed(f, p)
Whole(f) == f.whole /\ ImgAddr = f.data[Len(f.data)].start /\ Placed(f, Len(f.data))

(* The image that is loaded, at each stage.                                *)
ImageInv(f) ==
  /\ f # NoFile
  /\ stage = "image header" => place + need = 1
  /\ stage = "record header" => AtHeader(f)
  /\ stage = "body" => InBody(f)
  /\ stage = "loaded" /\ ImgAddr # 0 => Whole(f)
  /\ stage = "jumped" => Whole(f)

IniInv(f) == f # NoFile /\ SizeOnDisk(f) > 0 /\ f.cells \in Seq(CellSet)
SplashInv(f) == f.whole => originalFileLength = Len(f.data)

StageInv ==
  /\ stage \notin Asking => Answered
  /\ stage = "ini read" => \E v : vol = v /\ fsFile = "boot.ini" /\ IniInv(v["boot.ini"])
  /\ stage \in Busy => ReadInv
  /\ stage \in {"splash size", "opened"} =>
       need = 0 /\ ~broke /\ place = 0 /\ given = <<>>
  /\ stage = "splash size" => \E v, f : vol = v /\ v[fsFile] = f /\ SplashInv(f)
  /\ stage \in ImageStages => fsFile = loading
  /\ stage \in ImageStages \cup {"loaded", "jumped"} =>
       \E v, f : vol = v /\ v[loading] = f /\ ImageInv(f)

(* The first t images of the order were tried.                             *)
TriedSome(t) ==
  /\ t \in 0 .. Len(Order) /\ Len(untried) = Len(Order) - t
  /\ \A i \in 1 .. Len(untried) : untried[i] = Order[t + i]
Excused(t) == \A i \in 1 .. t : \A name : name = Order[i] /\ Loadable(name) => faults > 0
OrderInv ==
  /\ stage = "open" => \E t \in Nat : TriedSome(t) /\ t < Len(Order) /\ Excused(t)
  /\ stage \in ImageStages \cup {"loaded", "jumped"} =>
       \E t \in Nat \ {0} : TriedSome(t) /\ loading = Order[t] /\ Excused(t - 1)

BootTypes ==
  /\ BiosTypeOK
  /\ \E v \in Volumes :
       /\ vol = v /\ IniParams \in Settings(v)
       /\ chosen \in ImageNames(v) /\ loading \in ImageNames(v)
       /\ untried \in Seq(ImageNames(v))
       /\ fsFile # None => v[fsFile] # NoFile

BiosInv == BootTypes /\ StageInv /\ OrderInv

-----------------------------------------------------------------------------
(* Files                                                                   *)

LEMMA BeginningIs ==
  ASSUME NEW S, NEW w \in Seq(S), NEW n \in 0 .. Len(w)
  PROVE  /\ SubSeq(w, 1, n) \in Seq(S) /\ Len(SubSeq(w, 1, n)) = n
         /\ \A i \in 1 .. n : SubSeq(w, 1, n)[i] = w[i]
<1>1. Len(w) \in Nat /\ n \in Int /\ 1 \in Int
  BY LenProperties
<1>2. \A i \in 1 .. n : i \in 1 .. Len(w)
  BY <1>1
<1>3. \A i \in 1 .. n : w[i] \in S
  BY <1>2, ElementOfSeq
<1>4. /\ SubSeq(w, 1, n) \in Seq(S)
      /\ Len(SubSeq(w, 1, n)) = IF 1 <= n THEN n - 1 + 1 ELSE 0
      /\ \A i \in 1 .. n - 1 + 1 : SubSeq(w, 1, n)[i] = w[1 + i - 1]
  BY <1>1, <1>3, SubSeqProperties
<1>5. \A i \in 1 .. n : 1 + i - 1 = i /\ i \in 1 .. n - 1 + 1
  OBVIOUS
<1> QED  BY <1>4, <1>5

LEMMA FormIs ==
  ASSUME NEW f, WasWritten(f)
  PROVE  /\ FileForm(f)
         /\ IsPacked(f) => /\ f.cells[2] = Length(Len(f.data))
                           /\ \E ms, g : PackedForm(f, ms, g)
         /\ ~IsPacked(f) => PlainForm(f)
<1>1. PICK n \in Nat : n = Len(f.data)
  BY DEF WasWritten
<1>2. PICK w \in Forms(n) : \E c \in 0 .. Len(w) :
        f.cells = SubSeq(w, 1, c) /\ f.whole = (c = Len(w))
  BY <1>1 DEF WasWritten
<1>3. PICK c \in 0 .. Len(w) : f.cells = SubSeq(w, 1, c) /\ f.whole = (c = Len(w))
  BY <1>2
<1>4. CASE w = Bytes(0, n)
  <2>1. w \in Seq(ByteSet) /\ Len(w) = n /\ \A i \in 1 .. n : w[i] = Byte(0 + i - 1)
    <3>1. 0 \in Nat /\ n \in Nat
      OBVIOUS
    <3> QED  BY <3>1, <1>4, BytesAre
  <2>2. /\ f.cells \in Seq(ByteSet) /\ Len(f.cells) = c
        /\ \A i \in 1 .. c : f.cells[i] = w[i]
    BY <1>3, <2>1, BeginningIs
  <2>3. \A i \in 1 .. c : f.cells[i] = Byte(i - 1)
    BY <2>1, <2>2
  <2>4. ~IsPacked(f)
    <3>1. ASSUME c >= 2 PROVE f.cells[1] # Signature
      <4>1. 1 \in 1 .. c /\ 1 - 1 = 0 /\ 0 \in Nat
        BY <3>1, <2>1
      <4> QED  BY <4>1, <2>3, NotSignature
    <3> QED  BY <3>1, <2>2 DEF IsPacked, SizeOnDisk
  <2>5. f.cells \in Seq(CellSet)
    <3>1. f.cells \in Seq(ByteSet) /\ \A i \in 1 .. Len(f.cells) : f.cells[i] \in CellSet
      BY <2>2, ElementOfSeq DEF CellSet
    <3> QED  BY <3>1
  <2>6. FileForm(f)
    BY <1>1, <1>3, <2>1, <2>2, <2>5 DEF FileForm, WasWritten
  <2>7. PlainForm(f)
    <3>1. c \in Nat /\ c <= n /\ (f.whole <=> c = n)
      <4>1. c \in Nat /\ c <= n
        BY <2>1
      <4>2. f.whole <=> c = Len(w)
        BY <1>3
      <4> QED  BY <4>1, <4>2, <2>1
    <3>2. IF f.whole THEN c = n ELSE c < n \/ c <= 1
      <4>1. CASE c = n
        BY <4>1, <3>1
      <4>2. CASE c # n
        BY <4>2, <3>1
      <4> QED  BY <4>1, <4>2
    <3> QED  BY <3>2, <1>1, <2>2, <2>3 DEF PlainForm
  <2> QED  BY <2>4, <2>6, <2>7
<1>5. CASE \E ms \in [1 .. NumBlocks(n) -> 1 .. MaxBlock] : w = Packed(n, ms)
  <2>1. PICK ms \in [1 .. NumBlocks(n) -> 1 .. MaxBlock] : w = Packed(n, ms)
    BY <1>5
  <2>2. NumBlocks(n) \in Nat
    BY BlocksCover
  <2>3. ms \in Mades(n) /\ Len(ms) = NumBlocks(n)
    <3>1. PICK q \in Nat : q = NumBlocks(n)
      BY <2>2
    <3>2. ms \in Seq(1 .. MaxBlock) /\ Len(ms) = q
      <4>1. PICK S : S = 1 .. MaxBlock
        OBVIOUS
      <4>2. ms \in [1 .. q -> S]
        BY <3>1, <4>1
      <4>3. ms \in Seq(S) /\ Len(ms) = q
        BY <4>2
      <4> QED  BY <4>1, <4>3
    <3> QED  BY <3>1, <3>2 DEF Mades
  <2>4. PICK g : Packing(n, ms, g)
    BY <2>3, PackingExists
  <2>5. w = g[Len(ms)]
    BY <2>1, <2>3, <2>4, PackedIs
  <2>6. w \in Seq(CellSet) /\ Len(w) \in Nat /\ Len(w) >= 2 /\ w[1] = Signature /\ w[2] = Length(n)
    BY <2>3, <2>4, <2>5, PackingHead
  <2>7. /\ f.cells \in Seq(CellSet) /\ Len(f.cells) = c
        /\ \A i \in 1 .. c : f.cells[i] = w[i]
    BY <1>3, <2>6, BeginningIs
  <2>8. FileForm(f)
    BY <1>1, <1>3, <2>6, <2>7 DEF FileForm, WasWritten
  <2>9. Grown(f.cells, w) /\ (f.whole <=> Len(f.cells) = Len(w))
    <3>1. c \in Nat /\ c <= Len(w)
      BY <2>6
    <3>2. f.whole <=> c = Len(w)
      BY <1>3
    <3>3. Len(f.cells) <= Len(w) /\ \A i \in 1 .. Len(f.cells) : w[i] = f.cells[i]
      BY <2>7, <3>1
    <3> QED  BY <2>7, <3>2, <3>3 DEF Grown
  <2>10. PackedForm(f, ms, g)
    BY <1>1, <2>3, <2>4, <2>5, <2>9 DEF PackedForm
  <2>11. IsPacked(f) => f.cells[2] = Length(n)
    BY <2>6, <2>7 DEF IsPacked, SizeOnDisk
  <2>12. ASSUME ~IsPacked(f) PROVE PlainForm(f)
    <3>1. c < 2
      <4> SUFFICES ASSUME c >= 2 PROVE FALSE
        BY <2>6
      <4>1. 1 \in 1 .. c
        BY <2>6
      <4> QED  BY <4>1, <2>6, <2>7, <2>12 DEF IsPacked, SizeOnDisk
    <3>2. c <= 1 /\ c # Len(w) /\ c \in Nat
      BY <3>1, <2>6
    <3>3. ~f.whole
      BY <3>2, <1>3
    <3>4. \A i \in 1 .. c : i = 1
      BY <3>2
    <3> QED  BY <3>2, <3>3, <3>4, <2>7 DEF PlainForm
  <2> QED  BY <1>1, <2>8, <2>10, <2>11, <2>12
<1> QED  BY <1>2, <1>4, <1>5 DEF Forms

LEMMA CellsJoin ==
  ASSUME NEW f, NEW o \in Nat, NEW w, NEW u, CellsTrue(f, o, w), CellsTrue(f, o + Len(w), u)
  PROVE  CellsTrue(f, o, w \o u) /\ Len(w \o u) = Len(w) + Len(u)
<1>1. w \in Seq(AnyCell) /\ u \in Seq(AnyCell)
  BY DEF CellsTrue
<1>2. PICK a \in Nat : a = Len(w)
  BY <1>1, LenProperties
<1>3. PICK c \in Nat : c = Len(u)
  BY <1>1, LenProperties
<1>4. PICK x : x = w \o u
  OBVIOUS
<1>5. x \in Seq(AnyCell) /\ Joined(x, w, u)
  BY <1>1, <1>4, ConcatIs
<1>6. /\ Len(x) = a + c /\ \A i \in 1 .. a : x[i] = w[i]
      /\ \A i \in 1 .. c : x[a + i] = u[i]
  BY <1>2, <1>3, <1>5 DEF Joined
<1>7. ASSUME NEW i \in 1 .. a + c PROVE TrueCell(f, o + i - 1, x[i])
  <2>1. CASE i <= a
    <3>1. i \in 1 .. a
      BY <2>1
    <3> QED  BY <3>1, <1>2, <1>6 DEF CellsTrue
  <2>2. CASE ~(i <= a)
    <3>1. PICK j \in 1 .. c : i = a + j
      <4>1. i - a \in 1 .. c /\ i = a + (i - a)
        BY <2>2
      <4> QED  BY <4>1
    <3>2. TrueCell(f, o + a + j - 1, u[j])
      BY <1>2, <1>3 DEF CellsTrue
    <3>3. x[i] = u[j] /\ o + a + j - 1 = o + i - 1
      BY <3>1, <1>6
    <3> QED  BY <3>2, <3>3
  <2> QED  BY <2>1, <2>2
<1> QED  BY <1>2, <1>3, <1>4, <1>5, <1>6, <1>7 DEF CellsTrue

Part(b, p, n) == SubSeq(b, p + 1, p + n)

LEMMA PartIs ==
  ASSUME NEW S, NEW b \in Seq(S), NEW p \in Nat, NEW n \in Nat, p + n <= Len(b)
  PROVE  /\ Part(b, p, n) \in Seq(S) /\ Len(Part(b, p, n)) = n
         /\ \A i \in 1 .. n : Part(b, p, n)[i] = b[p + i]
<1>1. PICK c \in Int, h \in Int : c = p + 1 /\ h = p + n
  OBVIOUS
<1>2. \A i \in c .. h : i \in 1 .. Len(b)
  BY <1>1
<1>3. \A i \in c .. h : b[i] \in S
  BY <1>2, ElementOfSeq
<1>4. /\ SubSeq(b, c, h) \in Seq(S)
      /\ Len(SubSeq(b, c, h)) = IF c <= h THEN h - c + 1 ELSE 0
      /\ \A i \in 1 .. h - c + 1 : SubSeq(b, c, h)[i] = b[c + i - 1]
  BY <1>3, SubSeqProperties
<1>5. Part(b, p, n) = SubSeq(b, c, h)
  BY <1>1 DEF Part
<1>6. h - c + 1 = n /\ (IF c <= h THEN h - c + 1 ELSE 0) = n /\ \A i \in 1 .. n : c + i - 1 = p + i
  BY <1>1
<1> QED  BY <1>4, <1>5, <1>6

LEMMA CellsPart ==
  ASSUME NEW f, NEW o \in Nat, NEW b, CellsTrue(f, o, b), NEW p \in Nat, NEW n \in Nat,
         NEW q, q = o + p, NEW l \in Nat, l = Len(b), p + n <= l
  PROVE  CellsTrue(f, q, Part(b, p, n))
<1>1. PICK d : d = Part(b, p, n)
  OBVIOUS
<1>2. d \in Seq(AnyCell) /\ Len(d) = n /\ \A i \in 1 .. n : d[i] = b[p + i]
  <2>1. b \in Seq(AnyCell)
    BY DEF CellsTrue
  <2>2. p + n <= Len(b)
    OBVIOUS
  <2>3. /\ Part(b, p, n) \in Seq(AnyCell) /\ Len(Part(b, p, n)) = n
        /\ \A i \in 1 .. n : Part(b, p, n)[i] = b[p + i]
    BY <2>1, <2>2, PartIs
  <2> QED  BY <1>1, <2>3
<1>3. ASSUME NEW i \in 1 .. n PROVE TrueCell(f, q + i - 1, d[i])
  <2>1. p + i \in 1 .. l
    OBVIOUS
  <2>2. TrueCell(f, o + (p + i) - 1, b[p + i])
    BY <2>1 DEF CellsTrue
  <2>3. o + (p + i) - 1 = q + i - 1
    OBVIOUS
  <2> QED  BY <2>2, <2>3, <1>2
<1> QED  BY <1>1, <1>2, <1>3 DEF CellsTrue

(* A whole file delivers its bytes.                                        *)
LEMMA WholeIsTrue ==
  ASSUME NEW f, f.whole, NEW o \in Nat, NEW w, CellsTrue(f, o, w)
  PROVE  w = Bytes(o, Len(w))
<1>1. w \in Seq(AnyCell) /\ \A i \in 1 .. Len(w) : w[i] = Byte(o + i - 1)
  BY DEF CellsTrue, TrueCell
<1>2. PICK a \in Nat : a = Len(w)
  BY <1>1, LenProperties
<1>3. PICK c : c = Bytes(o, a)
  OBVIOUS
<1>4. c \in Seq(ByteSet) /\ Len(c) = a /\ \A i \in 1 .. a : c[i] = Byte(o + i - 1)
  BY <1>3, BytesAre
<1>5. c \in Seq(AnyCell)
  <2>1. \A i \in 1 .. Len(c) : c[i] \in AnyCell
    BY <1>4, ElementOfSeq DEF AnyCell, CellSet
  <2> QED  BY <1>4, <2>1
<1>6. \A i \in 1 .. Len(w) : w[i] = c[i]
  BY <1>1, <1>2, <1>4
<1> QED  BY <1>1, <1>2, <1>3, <1>4, <1>5, <1>6, SeqEqual-----------------------------------------------------------------------------
(* Opening a file and asking for some of it.                               *)

LEMMA NoCells == ASSUME NEW f, NEW o \in Nat PROVE CellsTrue(f, o, <<>>)
<1>1. <<>> \in Seq(AnyCell) /\ Len(<<>>) = 0
  BY EmptySeq
<1> QED  BY <1>1 DEF CellsTrue

LEMMA OpenedReads ==
  ASSUME NEW v, vol = v, NEW name \in DOMAIN v, NEW f, f = v[name], WasWritten(f),
         OpenWorks(name)
  PROVE  /\ ReadInv' /\ ReadsIn(f)' /\ f # NoFile /\ SizeOnDisk(f) > 0
         /\ vol' = v /\ fsFile' = name
         /\ need' = 0 /\ broke' = FALSE /\ place' = 0 /\ given' = <<>>
         /\ SplashInv(f)' /\ fsPos' \in Nat /\ originalFileLength' \in Nat
<1>1. PICK n \in Nat : n = Len(f.data)
  BY DEF WasWritten
<1>2. /\ FileForm(f)
      /\ IsPacked(f) => f.cells[2] = Length(n) /\ \E ms, g : PackedForm(f, ms, g)
      /\ ~IsPacked(f) => PlainForm(f)
  BY <1>1, FormIs
<1>3. /\ vol' = v /\ fsFile' = name /\ compressedFile' = IsPacked(f)
      /\ originalFileLength' = IF IsPacked(f) THEN f.cells[2].length ELSE Len(f.cells)
      /\ fsPos' = IF IsPacked(f) THEN 2 ELSE 0
      /\ originalDataBytesLeft' = 0 /\ f # NoFile /\ SizeOnDisk(f) > 0
      /\ need' = 0 /\ broke' = FALSE /\ place' = 0 /\ given' = <<>>
  BY DEF OpenWorks, Opened, NoCall, SizeOnDisk
<1>4. HasGiven(f)'
  <2>1. CellsTrue(f, 0, <<>>) /\ Len(<<>>) = 0 /\ 0 \in Nat
    BY NoCells, EmptySeq
  <2>2. given' = <<>> /\ place' = 0 + Len(<<>>)
    BY <1>3, <2>1
  <2> QED  BY <2>1, <2>2 DEF HasGiven
<1>5. IF IsPacked(f) THEN InPacked(f)' ELSE InPlain(f)'
  <2>1. ASSUME IsPacked(f) PROVE InPacked(f)'
    <3>1. PICK ms, g : PackedForm(f, ms, g)
      BY <1>2, <2>1
    <3>2. Len(g[0]) = 2
      <4>1. ms \in Mades(n) /\ Packing(n, ms, g) /\ n \in Nat
        BY <1>1, <3>1 DEF PackedForm
      <4> QED  BY <4>1, PackingHead
    <3>3. Reach(n, 0) = 0 /\ NumBlocks(n) \in Nat
      BY <1>1, ReachIs, BlocksCover
    <3>4. BehindBlock(f, g, 0)'
      BY <1>1, <1>3, <2>1, <3>2, <3>3 DEF BehindBlock
    <3>5. 0 \in 0 .. NumBlocks(Len(f.data))
      BY <1>1, <3>3
    <3> QED  BY <3>1, <3>4, <3>5 DEF InPacked
  <2>2. ASSUME ~IsPacked(f) PROVE InPlain(f)'
    BY <1>2, <1>3, <2>2 DEF InPlain
  <2> QED  BY <2>1, <2>2
<1>6. ReadsIn(f)'
  <2>1. f.whole => place' + need' <= Len(f.data)
    BY <1>1, <1>3
  <2>2. ~broke' => IF IsPacked(f) THEN InPacked(f)' ELSE InPlain(f)'
    BY <1>5
  <2> QED  BY <1>2, <1>3, <1>4, <2>1, <2>2 DEF ReadsIn
<1>7. SplashInv(f)' /\ fsPos' \in Nat /\ originalFileLength' \in Nat
  <2>1. Len(f.cells) \in Nat
    BY <1>2 DEF FileForm
  <2>2. IsPacked(f) => f.cells[2].length = n
    BY <1>2 DEF Length
  <2>3. ~IsPacked(f) /\ f.whole => Len(f.cells) = n
    BY <1>1, <1>2 DEF PlainForm
  <2> QED  BY <1>1, <1>3, <2>1, <2>2, <2>3 DEF SplashInv
<1> QED  BY <1>3, <1>6, <1>7 DEF ReadInv

LEMMA AsksReads ==
  ASSUME NEW f, ReadsIn(f), DecoderTypeOK, NEW n \in Nat, Asks(n), ~broke,
         f.whole => place + n <= Len(f.data)
  PROVE  ReadsIn(f)'
<1>1. /\ need' = n /\ broke' = FALSE /\ given' = <<>>
      /\ UNCHANGED <<vol, fsFile, originalFileLength, compressedFile, fsPos, originalData,
                     originalDataBytesLeft, originalDataPos, place, workHit, faults>>
  BY DEF Asks, opened, block
<1>2. HasGiven(f)'
  <2>1. PICK o \in Nat : o = place
    BY DEF DecoderTypeOK
  <2>2. CellsTrue(f, o, <<>>) /\ o + Len(<<>>) = o
    BY NoCells, EmptySeq
  <2> QED  BY <1>1, <2>1, <2>2 DEF HasGiven
<1>3. InPacked(f) => InPacked(f)'
  BY <1>1 DEF InPacked, BehindAll, BehindBlock
<1>4. InPlain(f) => InPlain(f)'
  BY <1>1 DEF InPlain
<1>5. IF IsPacked(f) THEN InPacked(f)' ELSE InPlain(f)'
  BY <1>3, <1>4 DEF ReadsIn
<1>6. FileForm(f) /\ compressedFile' = IsPacked(f)
  BY <1>1 DEF ReadsIn
<1> QED  BY <1>1, <1>2, <1>5, <1>6 DEF ReadsIn

(* A step of a read: what it may change of what the caller sees.           *)
Moved(f) ==
  /\ vol' = vol /\ fsFile' = fsFile /\ workHit' = workHit
  /\ faults' \in 0 .. MaxFaults /\ faults' >= faults
  /\ \/ given' = given /\ place' = place /\ need' = need
     \/ \E w : /\ given' = given \o w /\ place' = place + Len(w) /\ need' = need - Len(w)
               /\ Len(w) \in 1 .. need /\ CellsTrue(f, place, w)

LEMMA GivenGrows ==
  ASSUME NEW f, HasGiven(f), DecoderTypeOK, Moved(f)
  PROVE  /\ HasGiven(f)' /\ place' \in Nat /\ need' \in Nat
         /\ place' + need' = place + need /\ Len(given') + need' = Len(given) + need
<1>1. CASE given' = given /\ place' = place /\ need' = need
  BY <1>1 DEF HasGiven, DecoderTypeOK
<1>2. CASE \E w : /\ given' = given \o w /\ place' = place + Len(w) /\ need' = need - Len(w)
                  /\ Len(w) \in 1 .. need /\ CellsTrue(f, place, w)
  <2>1. PICK w : /\ given' = given \o w /\ place' = place + Len(w) /\ need' = need - Len(w)
                 /\ Len(w) \in 1 .. need /\ CellsTrue(f, place, w)
    BY <1>2
  <2>2. PICK u : given = u /\ \E o \in Nat : place = o + Len(u) /\ CellsTrue(f, o, u)
    BY DEF HasGiven
  <2>3. PICK o \in Nat : place = o + Len(u) /\ CellsTrue(f, o, u)
    BY <2>2
  <2>4. CellsTrue(f, o, u \o w) /\ Len(u \o w) = Len(u) + Len(w)
    <3>1. CellsTrue(f, o + Len(u), w)
      BY <2>1, <2>3
    <3> QED  BY <2>3, <3>1, CellsJoin
  <2>5. Len(u) \in Nat /\ need \in Nat /\ place \in Nat
    BY <2>3, LenProperties DEF CellsTrue, DecoderTypeOK
  <2>6. given' = u \o w /\ place' = o + Len(u \o w)
    <3>1. given' = u \o w
      BY <2>1, <2>2
    <3>2. PICK a \in Nat, c \in Nat : a = Len(u) /\ c = Len(w)
      BY <2>1, <2>5
    <3>3. place' = (o + a) + c
      BY <3>2, <2>1, <2>3
    <3>4. Len(u \o w) = a + c
      BY <3>2, <2>4
    <3> QED  BY <3>1, <3>3, <3>4
  <2>7. HasGiven(f)'
    BY <2>4, <2>6 DEF HasGiven
  <2> QED  BY <2>1, <2>2, <2>4, <2>5, <2>6, <2>7
<1> QED  BY <1>1, <1>2 DEF Moved-----------------------------------------------------------------------------
(* The steps of a read of a plain file.                                    *)

LEMMA PlainCells ==
  ASSUME NEW f, vol[fsFile] = f, FileForm(f), PlainForm(f), NEW k \in Nat, NEW n \in Nat,
         f.whole => k + n <= Len(f.data)
  PROVE  CellsTrue(f, k, CellsAt(k, n)) /\ Len(CellsAt(k, n)) = n
<1>1. PICK c \in Nat : c = Len(f.cells)
  BY DEF FileForm
<1>2. ASSUME NEW i \in 1 .. n
      PROVE  Cell(k + i) \in AnyCell /\ TrueCell(f, k + i - 1, Cell(k + i))
  <2>1. CASE k + i <= c
    <3>1. Cell(k + i) = f.cells[k + i] /\ k + i \in 1 .. c
      BY <2>1, <1>1 DEF Cell, File, SizeOnDisk
    <3>2. f.cells[k + i] \in AnyCell
      BY <3>1, <1>1, ElementOfSeq DEF FileForm, AnyCell
    <3>3. f.cells[k + i] = Byte(k + i - 1) \/ (k + i = 1 /\ ~f.whole)
      BY <3>1, <1>1 DEF PlainForm
    <3>4. f.whole \/ k + i # Len(f.data) \/ (k + i <= 1 /\ ~f.whole)
      BY <2>1, <1>1 DEF PlainForm, FileForm
    <3> QED  BY <3>1, <3>2, <3>3, <3>4 DEF TrueCell, FileForm
  <2>2. CASE ~(k + i <= c)
    <3>1. Cell(k + i) = Zero
      BY <2>2, <1>1 DEF Cell, File, SizeOnDisk
    <3>2. ~f.whole
      BY <2>2, <1>1 DEF PlainForm
    <3> QED  BY <3>1, <3>2 DEF TrueCell, AnyCell
  <2> QED  BY <2>1, <2>2
<1>3. CellsAt(k, n) \in Seq(AnyCell) /\ Len(CellsAt(k, n)) = n
  BY <1>2, IsASeq DEF CellsAt
<1>4. ASSUME NEW i \in 1 .. n PROVE TrueCell(f, k + i - 1, CellsAt(k, n)[i])
  BY <1>2 DEF CellsAt
<1> QED  BY <1>3, <1>4 DEF CellsTrue

LEMMA ReadPlainKeeps ==
  ASSUME NEW f, vol[fsFile] = f, ReadsIn(f), DecoderTypeOK, ReadPlain
  PROVE  ReadsIn(f)' /\ Moved(f) /\ DecoderTypeOK'
<1>1. PICK p \in Nat, n \in Nat \ {0} : p = place /\ n = need
  BY DEF ReadPlain, Answered, DecoderTypeOK
<1>2. PICK w : w = CellsAt(p, n)
  OBVIOUS
<1>3. ~broke /\ ~compressedFile /\ fsPos = p /\ FileForm(f) /\ PlainForm(f) /\ ~IsPacked(f)
  BY <1>1 DEF ReadPlain, Answered, ReadsIn, InPlain
<1>4. /\ given' = given \o w /\ place' = p + Len(w) /\ need' = n - Len(w) /\ fsPos' = p + n
      /\ UNCHANGED <<vol, fsFile, originalFileLength, compressedFile, originalData,
                     originalDataBytesLeft, originalDataPos, broke, workHit, faults>>
  BY <1>1, <1>2, <1>3 DEF ReadPlain, Deliver, opened, block, FSReads, NoFault
<1>5. CellsTrue(f, p, w) /\ Len(w) = n
  <2>1. f.whole => p + n <= Len(f.data)
    BY <1>1 DEF ReadsIn
  <2> QED  BY <2>1, <1>2, <1>3, PlainCells
<1>6. Moved(f)
  <2>1. /\ given' = given \o w /\ place' = place + Len(w) /\ need' = need - Len(w)
        /\ Len(w) \in 1 .. need /\ CellsTrue(f, place, w)
    BY <1>1, <1>4, <1>5
  <2>2. faults' \in 0 .. MaxFaults /\ faults' >= faults
    BY <1>4 DEF DecoderTypeOK
  <2> QED  BY <1>4, <2>1, <2>2 DEF Moved
<1>7. HasGiven(f)' /\ place' + need' = place + need
  BY <1>6, GivenGrows DEF ReadsIn
<1>8. InPlain(f)'
  BY <1>3, <1>4, <1>5 DEF InPlain
<1>9. ReadsIn(f)'
  BY <1>3, <1>4, <1>7, <1>8 DEF ReadsIn
<1>10. DecoderTypeOK'
  BY <1>1, <1>4, <1>5 DEF DecoderTypeOK
<1> QED  BY <1>6, <1>9, <1>10

(* A read that fails within a whole file fails of the disk.                *)
LEMMA FaultsGrow ==
  ASSUME DecoderTypeOK
  PROVE  /\ Fault => faults' \in 0 .. MaxFaults /\ faults' > faults /\ faults' > 0
         /\ NoFault => faults' \in 0 .. MaxFaults /\ faults' = faults
BY DecoderAssumption DEF DecoderTypeOK, Fault, NoFault

LEMMA ReadPlainFailsKeeps ==
  ASSUME NEW f, vol[fsFile] = f, ReadsIn(f), DecoderTypeOK, ReadPlainFails
  PROVE  ReadsIn(f)' /\ Moved(f) /\ DecoderTypeOK'
<1>1. PICK p \in Nat, n \in Nat \ {0} : p = place /\ n = need
  BY DEF ReadPlainFails, Answered, DecoderTypeOK
<1>2. ~broke /\ ~compressedFile /\ fsPos = p /\ FileForm(f) /\ PlainForm(f) /\ ~IsPacked(f)
  BY <1>1 DEF ReadPlainFails, Answered, ReadsIn, InPlain
<1>3. /\ broke' = TRUE
      /\ UNCHANGED <<vol, fsFile, originalFileLength, compressedFile, fsPos, originalData,
                     originalDataBytesLeft, originalDataPos, need, given, place, workHit>>
      /\ faults' \in 0 .. MaxFaults /\ faults' >= faults
  <2>1. FSReadFails(need)
    BY DEF ReadPlainFails
  <2>2. faults' \in 0 .. MaxFaults /\ faults' >= faults
    BY <2>1, FaultsGrow DEF FSReadFails, DecoderTypeOK
  <2> QED  BY <2>2 DEF ReadPlainFails, Breaks, opened, block
<1>4. ASSUME f.whole PROVE faults' > 0
  <2>1. p + n <= Len(f.data) /\ Len(f.data) = Len(f.cells) /\ f.slack \in Nat
    BY <1>1, <1>2, <1>4 DEF ReadsIn, PlainForm, FileForm
  <2>2. InClusters(fsPos + need)
    BY <2>1, <1>1, <1>2 DEF InClusters, File, SizeOnDisk, FileForm
  <2>3. Fault
    BY <2>2, <1>1 DEF ReadPlainFails, FSReadFails
  <2> QED  BY <2>3, FaultsGrow
<1>5. Moved(f)
  BY <1>3 DEF Moved
<1>6. HasGiven(f)'
  BY <1>5, GivenGrows DEF ReadsIn
<1>7. ReadsIn(f)'
  BY <1>2, <1>3, <1>4, <1>6 DEF ReadsIn
<1>8. DecoderTypeOK'
  BY <1>3 DEF DecoderTypeOK
<1> QED  BY <1>5, <1>7, <1>8

-----------------------------------------------------------------------------
(* The steps of a read of a packed file.                                   *)

LEMMA TakeFromBlockKeeps ==
  ASSUME NEW f, vol[fsFile] = f, ReadsIn(f), DecoderTypeOK, TakeFromBlock
  PROVE  ReadsIn(f)' /\ Moved(f) /\ DecoderTypeOK'
<1>1. PICK p \in Nat, n \in Nat \ {0} : p = place /\ n = need
  BY DEF TakeFromBlock, Answered, DecoderTypeOK
<1>2. ~broke /\ compressedFile /\ FileForm(f) /\ IsPacked(f) /\ InPacked(f)
      /\ originalDataBytesLeft > 0
  BY <1>1 DEF TakeFromBlock, Answered, ReadsIn
<1>3. PICK ms : \E g : PackedForm(f, ms, g)
           /\ \E k \in 0 .. NumBlocks(Len(f.data)) : BehindBlock(f, g, k)
  BY <1>2 DEF InPacked, BehindAll
<1>4. PICK g : PackedForm(f, ms, g) /\ \E k \in 0 .. NumBlocks(Len(f.data)) : BehindBlock(f, g, k)
  BY <1>3
<1>5. PICK k \in 0 .. NumBlocks(Len(f.data)) : BehindBlock(f, g, k)
  BY <1>4
<1>6. PICK left \in Nat \ {0} : left = originalDataBytesLeft
  BY <1>2, <1>5 DEF BehindBlock
<1>7. PICK b : \E o \in Nat :
           /\ originalData = b /\ CellsTrue(f, o, b)
           /\ originalDataPos + left = Len(b) /\ o + Len(b) = Reach(Len(f.data), k)
           /\ Len(b) <= MaxBlock
  BY <1>5, <1>6 DEF BehindBlock
<1>8. PICK o \in Nat :
           /\ originalData = b /\ CellsTrue(f, o, b)
           /\ originalDataPos + left = Len(b) /\ o + Len(b) = Reach(Len(f.data), k)
           /\ Len(b) <= MaxBlock
  BY <1>7
<1>9. PICK x \in Nat : x = originalDataPos
  BY DEF DecoderTypeOK
<1>10. PICK t \in Nat \ {0} : t = Lesser(n, left) /\ t <= n /\ t <= left
  BY DEF Lesser
<1>11. PICK w : w = SubSeq(b, x + 1, x + t)
  OBVIOUS
<1>12. /\ given' = given \o w /\ place' = p + Len(w) /\ need' = n - Len(w)
       /\ originalDataPos' = x + t /\ originalDataBytesLeft' = left - t
       /\ UNCHANGED <<vol, fsFile, originalFileLength, compressedFile, fsPos, originalData,
                      broke, workHit, faults>>
  BY <1>1, <1>6, <1>8, <1>9, <1>10, <1>11 DEF TakeFromBlock, Deliver, PosAfter, opened
<1>13. CellsTrue(f, o + x, w) /\ Len(w) = t
  <2>1. x + t <= Len(b)
    BY <1>8, <1>9, <1>10
  <2>2. PICK l \in Nat, q \in Nat : l = Len(b) /\ q = o + x /\ x + t <= l
    <3>1. Len(b) \in Nat /\ o + x \in Nat
      BY <1>8, <1>9
    <3> QED  BY <2>1, <3>1
  <2>3. CellsTrue(f, q, Part(b, x, t)) /\ Len(Part(b, x, t)) = t
    <3>1. CellsTrue(f, o, b) /\ t \in Nat
      BY <1>8
    <3>2. CellsTrue(f, q, Part(b, x, t))
      BY <2>2, <3>1, CellsPart
    <3>3. Len(Part(b, x, t)) = t
      <4>1. b \in Seq(AnyCell)
        BY <3>1 DEF CellsTrue
      <4>2. x + t <= Len(b)
        BY <2>2
      <4> QED  BY <3>1, <4>1, <4>2, PartIs
    <3> QED  BY <3>2, <3>3
  <2> QED  BY <2>2, <2>3, <1>11 DEF Part
<1>14. p + left = Reach(Len(f.data), k) /\ o + x = p
  <2>1. p + left = Reach(Len(f.data), k)
    BY <1>1, <1>5, <1>6 DEF BehindBlock
  <2>2. Len(b) = x + left
    BY <1>8, <1>9
  <2> QED  BY <2>1, <2>2, <1>8
<1>15. Moved(f)
  <2>1. CellsTrue(f, place, w) /\ Len(w) \in 1 .. need
    BY <1>1, <1>10, <1>13, <1>14
  <2>2. /\ given' = given \o w /\ place' = place + Len(w) /\ need' = need - Len(w)
        /\ vol' = vol /\ fsFile' = fsFile /\ workHit' = workHit
    BY <1>1, <1>12
  <2>3. faults' \in 0 .. MaxFaults /\ faults' >= faults
    BY <1>12 DEF DecoderTypeOK
  <2> QED  BY <2>1, <2>2, <2>3 DEF Moved
<1>16. HasGiven(f)' /\ place' + need' = place + need
  BY <1>15, GivenGrows DEF ReadsIn
<1>17. BehindBlock(f, g, k)'
  <2>1. fsPos' = Len(g[k]) /\ originalDataBytesLeft' \in Nat
        /\ place' + originalDataBytesLeft' = Reach(Len(f.data), k)
    <3>1. fsPos' = Len(g[k])
      BY <1>5, <1>12 DEF BehindBlock
    <3>0. left - t \in Nat
      BY <1>10
    <3>2. place' = p + t /\ originalDataBytesLeft' = left - t /\ left - t \in Nat
      BY <3>0, <1>12, <1>13
    <3>3. (p + t) + (left - t) = Reach(Len(f.data), k)
      BY <1>14
    <3> QED  BY <3>1, <3>2, <3>3
  <2>2. originalData' = b /\ originalDataPos' + originalDataBytesLeft' = Len(b)
    <3>1. originalData' = b
      BY <1>8, <1>12
    <3>2. x + left = Len(b) /\ (x + t) + (left - t) = x + left
      BY <1>8, <1>9
    <3> QED  BY <3>1, <3>2, <1>12
  <2> QED  BY <2>1, <2>2, <1>8 DEF BehindBlock
<1>18. InPacked(f)'
  BY <1>4, <1>17 DEF InPacked
<1>19. ReadsIn(f)'
  BY <1>2, <1>12, <1>16, <1>18 DEF ReadsIn
<1>20. DecoderTypeOK'
  <2>1. x + left <= MaxBlock /\ MaxBlock \in Nat
    BY <1>8, <1>9, BlockAssumption
  <2>2. /\ originalDataPos' \in 0 .. MaxBlock /\ originalDataBytesLeft' \in -1 .. MaxBlock
        /\ need' \in Nat /\ place' \in Nat
    <3>1. place' = p + t /\ need' = n - t
      BY <1>12, <1>13
    <3>2. x + t \in 0 .. MaxBlock /\ left - t \in -1 .. MaxBlock /\ n - t \in Nat
      BY <1>10, <2>1
    <3> QED  BY <3>1, <3>2, <1>12
  <2> QED  BY <1>12, <2>2 DEF DecoderTypeOK
<1> QED  BY <1>15, <1>19, <1>20-----------------------------------------------------------------------------
(* The decoder stands before block b, of which the compressor made m       *)
(* cells; c cells of the file are there.                                   *)
FacingTypes(b, m, last, e, z, p, c) ==
  /\ b \in Seq(ByteSet) /\ b # <<>> /\ Len(b) \in 1 .. MaxBlock
  /\ m \in Nat \ {0} /\ last \in BOOLEAN
  /\ e \in 1 .. 2 /\ z \in Nat \ {0} /\ p \in Nat /\ c \in Nat
  /\ z = SizeOf(b, m) /\ (e = IF last THEN 2 ELSE 1)

FacingBlock(f, g, k, b, last, e, z, p, c) ==
  LET n == Len(f.data)
  IN  /\ Reach(n, k) \in Nat /\ Reach(n, k + 1) = Reach(n, k) + Len(b)
      /\ \A i \in 1 .. Len(b) : b[i] = Byte(Reach(n, k) + i - 1)
      /\ Reach(n, k) + Len(b) = n => last
      /\ ~last => Len(b) = MaxBlock
      /\ fsPos = p /\ Len(g[k + 1]) = p + e + z
      /\ c = Len(f.cells)
      /\ IF f.whole THEN p + e + z <= c ELSE last => c < p + e + z

FacingCells(b, m, last, e, z, p, c) ==
  /\ Cell(p + 1) = IF p + 1 <= c THEN BlockHead(b, m, last) ELSE Zero
  /\ last => Cell(p + 2) = IF p + 2 <= c THEN Length(Len(b)) ELSE Zero
  /\ \A i \in 1 .. z :
       Cell(p + e + i) = IF p + e + i > c THEN Zero
                         ELSE IF Stored(b, m) THEN b[i] ELSE Encoded(b, m)[i]

Facing(f, g, k, b, m, last, e, z, p, c) ==
  /\ FacingTypes(b, m, last, e, z, p, c) /\ FacingBlock(f, g, k, b, last, e, z, p, c)
  /\ FacingCells(b, m, last, e, z, p, c)

LEMMA NextIs ==
  ASSUME NEW f, vol[fsFile] = f, FileForm(f), NEW ms, NEW g, PackedForm(f, ms, g),
         NEW k \in Nat, k < NumBlocks(Len(f.data)), fsPos = Len(g[k])
  PROVE  \E b, m, last, e, z, p, c : Facing(f, g, k, b, m, last, e, z, p, c)
<1>1. PICK n \in Nat, c \in Nat : n = Len(f.data) /\ c = Len(f.cells)
  BY DEF FileForm
<1>2. PICK N \in Nat : N = NumBlocks(n)
  BY BlocksCover
<1>3. /\ ms \in Mades(n) /\ Len(ms) = N /\ Packing(n, ms, g) /\ k < N
      /\ k \in 0 .. Len(ms) - 1 /\ (f.whole <=> c = Len(g[N])) /\ Grown(f.cells, g[N])
  BY <1>1, <1>2 DEF PackedForm
<1>4. PICK F : F = g[N]
  OBVIOUS
<1>5. PICK b : b = BlockOf(n, k + 1)
  OBVIOUS
<1>6. PICK last \in BOOLEAN : last = (k + 1 = N)
  OBVIOUS
<1>7. PICK m : m = ms[k + 1]
  OBVIOUS
<1>8. PICK e \in 1 .. 2 : e = HeadLength(last) /\ (e = IF last THEN 2 ELSE 1)
  BY DEF HeadLength
<1>9. PICK z : z = SizeOf(b, m)
  OBVIOUS
<1>10. PICK p : p = Len(g[k])
  OBVIOUS
<1>11. /\ Len(g[k + 1]) = p + e + z /\ BlockAt(F, p, b, m, last)
       /\ p \in Nat /\ Len(g[k + 1]) <= Len(F) /\ z \in Nat \ {0} /\ m \in Nat \ {0}
  BY <1>2, <1>3, <1>4, <1>5, <1>6, <1>7, <1>8, <1>9, <1>10, PackingBlock, SMTT(30)
<1>12. /\ b = Bytes(Reach(n, k), Lesser(MaxBlock, n - Reach(n, k)))
       /\ b \in Seq(ByteSet) /\ b # <<>> /\ Len(b) = Reach(n, k + 1) - Reach(n, k)
       /\ Len(b) \in 1 .. MaxBlock /\ (k + 1 # N => Len(b) = MaxBlock)
  BY <1>2, <1>3, <1>5, BlockOfIs
<1>13. /\ Reach(n, k) \in Nat /\ Reach(n, k + 1) \in Nat
       /\ Reach(n, k) <= n
       /\ (Reach(n, k + 1) = n <=> k + 1 = N)
  <2>1. k \in Nat /\ k + 1 \in Nat /\ k < NumBlocks(n)
    BY <1>2, <1>3
  <2>2. Reach(n, k) \in 0 .. n /\ Reach(n, k + 1) \in 0 .. n
    BY <2>1, ReachIs
  <2>3. Reach(n, k + 1) = n <=> k + 1 = NumBlocks(n)
    BY <2>1, ReachIs
  <2> QED  BY <2>2, <2>3, <1>2
<1>14. FacingTypes(b, m, last, e, z, p, c)
  BY <1>8, <1>9, <1>11, <1>12 DEF FacingTypes
<1>15. FacingBlock(f, g, k, b, last, e, z, p, c)
  <2>1. PICK l \in Nat : l = Len(b)
    BY <1>12
  <2>2. PICK r \in Nat : r = Reach(n, k)
    BY <1>13
  <2>3. Reach(n, k + 1) = r + l
    BY <2>1, <2>2, <1>12, <1>13
  <2>4. \A i \in 1 .. l : b[i] = Byte(r + i - 1)
    <3>1. PICK h : h = Lesser(MaxBlock, n - r)
      OBVIOUS
    <3>2. h \in Nat
      <4>1. PICK M \in Nat : M = MaxBlock
        BY BlockAssumption
      <4>2. n - r \in Nat
        BY <1>13, <2>2
      <4>3. h = IF M <= n - r THEN M ELSE n - r
        BY <3>1, <4>1 DEF Lesser
      <4> QED  BY <4>2, <4>3
    <3>3. b = Bytes(r, h)
      BY <1>12, <2>2, <3>1
    <3>4. Len(b) = h /\ \A i \in 1 .. h : b[i] = Byte(r + i - 1)
      BY <3>2, <3>3, BytesAre
    <3> QED  BY <3>4, <2>1
  <2>5. (r + l = n => last) /\ (~last => l = MaxBlock)
    <3>1. (r + l = n => k + 1 = N) /\ (k + 1 # N => l = MaxBlock)
      BY <1>12, <1>13, <2>1, <2>3
    <3> QED  BY <3>1, <1>6
  <2>6. IF f.whole THEN p + e + z <= c ELSE last => c < p + e + z
    <3>1. Len(F) \in Nat /\ c <= Len(F)
      <4>1. Len(F) \in Nat
        BY <1>3, <1>4, PackingHead
      <4> QED  BY <4>1, <1>1, <1>3, <1>4 DEF Grown
    <3>2. ASSUME f.whole PROVE p + e + z <= c
      BY <3>1, <3>2, <1>3, <1>4, <1>11
    <3>3. ASSUME ~f.whole, last PROVE c < p + e + z
      <4>1. k + 1 = N /\ c # Len(F)
        BY <3>3, <1>3, <1>4, <1>6
      <4>2. Len(F) = p + e + z
        BY <4>1, <1>4, <1>11
      <4> QED  BY <4>1, <4>2, <3>1
    <3> QED  BY <3>2, <3>3
  <2> QED  BY <1>1, <1>10, <1>11, <2>1, <2>2, <2>3, <2>4, <2>5, <2>6 DEF FacingBlock
<1>16. FacingCells(b, m, last, e, z, p, c)
  <2>1. ASSUME NEW i \in Nat, i >= 1
        PROVE  Cell(i) = IF i <= c THEN F[i] ELSE Zero
    <3>1. Cell(i) = IF i <= c THEN f.cells[i] ELSE Zero
      BY <1>1 DEF Cell, File, SizeOnDisk
    <3>2. \A j \in 1 .. Len(f.cells) : F[j] = f.cells[j]
      BY <1>3, <1>4 DEF Grown
    <3>3. i <= c => i \in 1 .. c
      BY <2>1
    <3>4. i <= c => F[i] = f.cells[i]
      BY <3>2, <3>3, <1>1
    <3> QED  BY <3>1, <3>4
  <2>2. Cell(p + 1) = IF p + 1 <= c THEN BlockHead(b, m, last) ELSE Zero
    BY <2>1, <1>11 DEF BlockAt
  <2>3. last => Cell(p + 2) = IF p + 2 <= c THEN Length(Len(b)) ELSE Zero
    <3>1. last => F[p + 2] = Length(Len(b))
      BY <1>11 DEF BlockAt
    <3>2. p + 2 \in Nat /\ p + 2 >= 1
      BY <1>11
    <3> QED  BY <3>1, <3>2, <2>1
  <2>4. ASSUME NEW i \in 1 .. z
        PROVE  Cell(p + e + i) = IF p + e + i > c THEN Zero
                                 ELSE IF Stored(b, m) THEN b[i] ELSE Encoded(b, m)[i]
    <3>1. F[p + e + i] = IF Stored(b, m) THEN b[i] ELSE Encoded(b, m)[i]
      BY <1>8, <1>9, <1>11 DEF BlockAt
    <3>2. p + e + i \in Nat /\ p + e + i >= 1 /\ (p + e + i > c <=> ~(p + e + i <= c))
      BY <1>11
    <3> QED  BY <3>1, <3>2, <2>1
  <2> QED  BY <2>2, <2>3, <2>4 DEF FacingCells
<1> QED  BY <1>14, <1>15, <1>16 DEF Facing
(* Where the decoder needs a block: before one, or behind all there is of  *)
(* a file that was cut off.                                                *)
Ahead(f, ms, g, k) ==
  /\ PackedForm(f, ms, g) /\ k \in Nat /\ k < NumBlocks(Len(f.data))
  /\ fsPos = Len(g[k]) /\ place = Reach(Len(f.data), k)

LEMMA NeedsIs ==
  ASSUME NEW f, vol[fsFile] = f, ReadsIn(f), DecoderTypeOK, NeedsBlock
  PROVE  \/ NextHead.size = 0 /\ ~f.whole
         \/ \E ms, g, k : Ahead(f, ms, g, k)
<1>1. PICK p \in Nat, n \in Nat \ {0} : p = place /\ n = need
  BY DEF NeedsBlock, Answered, DecoderTypeOK
<1>2. ~broke /\ FileForm(f) /\ InPacked(f) /\ originalDataBytesLeft = 0
  BY <1>1 DEF NeedsBlock, Answered, ReadsIn
<1>3. PICK N \in Nat, c \in Nat, h \in Nat, q \in Nat :
        N = Len(f.data) /\ c = Len(f.cells) /\ h = NumBlocks(N) /\ q = fsPos
  BY <1>2, BlocksCover DEF FileForm, DecoderTypeOK
<1>4. ASSUME q >= c PROVE NextHead.size = 0
  <2>1. Cell(fsPos + 1) = Zero
    BY <1>3, <1>4 DEF Cell, File, SizeOnDisk
  <2> QED  BY <2>1 DEF NextHead
<1>5. CASE BehindAll(f)
  BY <1>3, <1>4, <1>5 DEF BehindAll
<1>6. CASE ~BehindAll(f)
  <2>1. PICK ms : \E g : PackedForm(f, ms, g) /\ \E k \in 0 .. h : BehindBlock(f, g, k)
    BY <1>2, <1>3, <1>6 DEF InPacked
  <2>2. PICK g : PackedForm(f, ms, g) /\ \E k \in 0 .. h : BehindBlock(f, g, k)
    BY <2>1
  <2>3. PICK k \in 0 .. h : BehindBlock(f, g, k)
    BY <2>2
  <2>4. fsPos = Len(g[k]) /\ place = Reach(Len(f.data), k)
    BY <1>1, <1>2, <2>3 DEF BehindBlock
  <2>5. CASE k < h
    <3>1. Ahead(f, ms, g, k)
      BY <1>3, <2>2, <2>4, <2>5 DEF Ahead
    <3> QED  BY <3>1
  <2>6. CASE ~(k < h)
    <3>1. k = h
      BY <2>6
    <3>2. ~f.whole
      <4>1. p = N
        BY <1>1, <1>3, <2>4, <3>1, ReachIs
      <4>2. f.whole => p + n <= N
        BY <1>1, <1>3 DEF ReadsIn
      <4> QED  BY <4>1, <4>2
    <3>3. q >= c
      <4>1. /\ ms \in Mades(N) /\ Len(ms) = h /\ Packing(N, ms, g) /\ Grown(f.cells, g[h])
        BY <1>3, <2>2 DEF PackedForm
      <4>2. c <= Len(g[h])
        BY <1>3, <4>1 DEF Grown
      <4> QED  BY <4>2, <1>3, <2>4, <3>1
    <3> QED  BY <3>2, <3>3, <1>4
  <2> QED  BY <2>5, <2>6
<1> QED  BY <1>5, <1>6

(* What the loader takes for the head of the next block.                   *)
LEMMA HeadRead ==
  ASSUME NEW f, NEW g, NEW k, NEW b, NEW m, NEW last, NEW e, NEW z, NEW p, NEW c,
         Facing(f, g, k, b, m, last, e, z, p, c)
  PROVE  /\ p + 1 > c => NextHead.size = 0
         /\ p + 1 <= c =>
              /\ NextHead.size = z /\ NextHead.stored = Stored(b, m) /\ HeadCells = e
              /\ DecompressedLength = IF last /\ p + 2 > c THEN 0 ELSE Len(b)
<1>1. /\ fsPos = p /\ p \in Nat /\ c \in Nat
      /\ Cell(p + 1) = IF p + 1 <= c THEN BlockHead(b, m, last) ELSE Zero
      /\ last => Cell(p + 2) = IF p + 2 <= c THEN Length(Len(b)) ELSE Zero
  BY DEF Facing, FacingTypes, FacingBlock, FacingCells
<1>2. z = SizeOf(b, m) /\ (e = IF last THEN 2 ELSE 1) /\ last \in BOOLEAN
      /\ (~last => Len(b) = MaxBlock)
  BY DEF Facing, FacingTypes, FacingBlock
<1>3. BlockHead(b, m, last) # Zero
  <2>1. DOMAIN BlockHead(b, m, last) = {"size", "stored", "partial"} /\ DOMAIN Zero = {"zero"}
    BY DEF BlockHead, Zero
  <2> QED  BY <2>1
<1>4. BlockHead(b, m, last).size = z /\ BlockHead(b, m, last).stored = Stored(b, m)
      /\ BlockHead(b, m, last).partial = last
  BY <1>2 DEF BlockHead, SizeOf
<1>5. ASSUME p + 1 > c PROVE NextHead.size = 0
  BY <1>1, <1>5 DEF NextHead
<1>6. ASSUME p + 1 <= c
      PROVE  /\ NextHead.size = z /\ NextHead.stored = Stored(b, m) /\ HeadCells = e
             /\ DecompressedLength = IF last /\ p + 2 > c THEN 0 ELSE Len(b)
  <2>1. NextHead = BlockHead(b, m, last)
    BY <1>1, <1>3, <1>6 DEF NextHead
  <2>2. NextHead.size = z /\ NextHead.stored = Stored(b, m) /\ NextHead.partial = last
    BY <2>1, <1>4
  <2>3. HeadCells = e
    BY <1>2, <2>2 DEF HeadCells
  <2>4. Length(Len(b)) # Zero /\ Length(Len(b)).length = Len(b)
    <3>1. DOMAIN Length(Len(b)) = {"length"} /\ DOMAIN Zero = {"zero"}
      BY DEF Length, Zero
    <3> QED  BY <3>1 DEF Length
  <2>5. DecompressedLength = IF last /\ p + 2 > c THEN 0 ELSE Len(b)
    <3>1. CASE ~last
      BY <3>1, <1>2, <2>2 DEF DecompressedLength
    <3>2. CASE last
      <4>1. LengthCell = IF p + 2 <= c THEN Length(Len(b)) ELSE Zero
        BY <1>1, <3>2 DEF LengthCell
      <4>2. DecompressedLength = IF p + 2 <= c THEN Len(b) ELSE 0
        BY <4>1, <2>2, <2>4, <3>2 DEF DecompressedLength
      <4> QED  BY <4>2, <3>2, <1>1
    <3> QED  BY <3>1, <3>2, <1>2
  <2> QED  BY <2>2, <2>3, <2>5
<1> QED  BY <1>5, <1>6
(* What is unpacked of the next block is its bytes.                        *)
LEMMA BlockGot ==
  ASSUME NEW f, vol[fsFile] = f, FileForm(f), NEW g, NEW k \in Nat, NEW b, NEW m, NEW last,
         NEW e, NEW z, NEW p, NEW c, Facing(f, g, k, b, m, last, e, z, p, c),
         p + 1 <= c, NextHead.stored \/ BlockUnpacked # Failed, DecompressedLength = Len(b)
  PROVE  CellsTrue(f, Reach(Len(f.data), k), BlockUnpacked) /\ Len(BlockUnpacked) = Len(b)
<1>1. /\ b \in Seq(ByteSet) /\ b # <<>> /\ Len(b) \in 1 .. MaxBlock
      /\ m \in Nat \ {0} /\ e \in 1 .. 2 /\ z \in Nat \ {0} /\ p \in Nat /\ c \in Nat
      /\ z = SizeOf(b, m) /\ last \in BOOLEAN
  BY DEF Facing, FacingTypes
<1>2. PICK n \in Nat, r \in Nat, l \in Nat :
        /\ n = Len(f.data) /\ r = Reach(n, k) /\ l = Len(b) /\ r + l <= n
        /\ \A i \in 1 .. l : b[i] = Byte(r + i - 1)
        /\ r + l = n => last
        /\ IF f.whole THEN p + e + z <= c ELSE last => c < p + e + z
  <2>1. PICK n \in Nat : n = Len(f.data)
    BY DEF FileForm
  <2>0. \A j \in Nat : Reach(n, j) \in 0 .. n
    BY ReachIs
  <2>2. PICK r \in Nat : r = Reach(n, k)
    <3>1. Reach(n, k) \in 0 .. n
      BY <2>0
    <3> QED  BY <3>1
  <2>3. PICK l \in Nat : l = Len(b)
    BY <1>1
  <2>4. r + l <= n
    <3>1. Reach(n, k + 1) \in 0 .. n
      <4>1. k + 1 \in Nat
        OBVIOUS
      <4> QED  BY <2>0, <4>1
    <3>2. Reach(n, k + 1) = r + l
      BY <2>1, <2>2, <2>3 DEF Facing, FacingBlock
    <3> QED  BY <3>1, <3>2
  <2>5. /\ \A i \in 1 .. l : b[i] = Byte(r + i - 1)
        /\ r + l = n => last
        /\ IF f.whole THEN p + e + z <= c ELSE last => c < p + e + z
    BY <2>1, <2>2, <2>3 DEF Facing, FacingBlock
  <2> QED  BY <2>1, <2>2, <2>3, <2>4, <2>5
<1>3. /\ fsPos = p /\ HeadCells = e /\ NextHead.size = z /\ NextHead.stored = Stored(b, m)
  <2>1. /\ NextHead.size = z /\ NextHead.stored = Stored(b, m) /\ HeadCells = e
        /\ DecompressedLength = IF last /\ p + 2 > c THEN 0 ELSE Len(b)
    BY HeadRead
  <2>2. fsPos = p
    BY DEF Facing, FacingBlock
  <2> QED  BY <2>1, <2>2
<1>4. PICK d : d = BlockCellsRead
  OBVIOUS
<1>5. \A i \in 1 .. z : d[i] = IF p + e + i > c THEN Zero
                             ELSE IF Stored(b, m) THEN b[i] ELSE Encoded(b, m)[i]
  BY <1>3, <1>4 DEF BlockCellsRead, CellsAt, Facing, FacingCells
<1>6. d \in Seq(AnyCell) /\ Len(d) = z /\ DOMAIN d = 1 .. z
  <2>1. \A i \in 1 .. z : d[i] \in AnyCell
    <3>1. Stored(b, m) => z = l
      BY <1>1, <1>2 DEF SizeOf
    <3>2. ~Stored(b, m) => z = m
      BY <1>1 DEF SizeOf
    <3>3. \A i \in 1 .. l : b[i] \in AnyCell
      BY <1>1, <1>2, ElementOfSeq DEF AnyCell, CellSet
    <3>4. \A i \in 1 .. m : Encoded(b, m)[i] \in AnyCell
      <4>1. Encoded(b, m) \in Seq(PartSet) /\ Len(Encoded(b, m)) = m
        BY <1>1, EncodedAre
      <4> QED  BY <4>1, ElementOfSeq DEF AnyCell, CellSet
    <3> QED  BY <3>1, <3>2, <3>3, <3>4, <1>5 DEF AnyCell
  <2>2. d = [i \in 1 .. z |-> Cell(p + e + i)]
    BY <1>3, <1>4 DEF BlockCellsRead, CellsAt
  <2>3. DOMAIN d = 1 .. z
    BY <2>2
  <2>4. [i \in 1 .. z |-> d[i]] \in Seq(AnyCell) /\ Len([i \in 1 .. z |-> d[i]]) = z
    BY <2>1, <1>1, IsASeq
  <2>5. d = [i \in 1 .. z |-> d[i]]
    BY <2>2
  <2> QED  BY <2>3, <2>4, <2>5
<1>7. CASE Stored(b, m)
  <2>1. z = l
    BY <1>7, <1>1, <1>2 DEF SizeOf
  <2>2. PICK u : u = SubSeq(d, 1, l)
    OBVIOUS
  <2>3. u \in Seq(AnyCell) /\ Len(u) = l /\ \A i \in 1 .. l : u[i] = d[i]
    BY <1>6, <2>1, <2>2, BeginningIs
  <2>4. BlockUnpacked = u
    BY <1>2, <1>3, <1>4, <1>7, <2>2 DEF BlockUnpacked
  <2>5. ASSUME NEW i \in 1 .. l PROVE TrueCell(f, r + i - 1, u[i])
    <3>1. u[i] = IF p + e + i > c THEN Zero ELSE b[i]
      BY <1>5, <1>7, <2>1, <2>3
    <3>2. CASE p + e + i > c
      <4>1. ~f.whole
        BY <3>2, <1>1, <1>2, <2>1, SMTT(30)
      <4> QED  BY <4>1, <3>1, <3>2 DEF TrueCell
    <3>3. CASE ~(p + e + i > c)
      <4>1. u[i] = Byte(r + i - 1)
        BY <3>1, <3>3, <1>2
      <4>2. f.whole \/ r + i # n
        <5> SUFFICES ASSUME ~f.whole, r + i = n PROVE FALSE
          OBVIOUS
        <5>1. i = l
          BY <1>2
        <5>2. c < p + e + z
          BY <5>1, <1>2
        <5> QED  BY <5>1, <5>2, <3>3, <2>1, <1>1
      <4>3. r + i - 1 + 1 = r + i
        OBVIOUS
      <4> QED  BY <4>1, <4>2, <4>3, <1>2 DEF TrueCell
    <3> QED  BY <3>2, <3>3
  <2> QED  BY <1>2, <2>3, <2>4, <2>5 DEF CellsTrue
<1>8. CASE ~Stored(b, m)
  <2>1. z = m
    BY <1>8, <1>1 DEF SizeOf
  <2>2. BlockUnpacked = Decoded(d) /\ Decoded(d) # Failed
    BY <1>3, <1>4, <1>8 DEF BlockUnpacked
  <2>3. PICK x, y : d = Encoded(x, y)
    BY <2>2 DEF Decoded
  <2>4. p + e + z <= c
    <3> SUFFICES ASSUME p + e + z > c PROVE FALSE
      BY <1>1
    <3>1. z \in 1 .. z
      BY <1>1
    <3>2. d[z] = Zero
      BY <3>1, <1>5
    <3>3. z \in 1 .. y
      BY <3>1, <2>3, <1>6 DEF Encoded
    <3>4. d[z] = [block |-> x, part |-> z, of |-> y]
      BY <3>3, <2>3 DEF Encoded
    <3>5. DOMAIN Zero = {"zero"} /\ DOMAIN [block |-> x, part |-> z, of |-> y] = {"block", "part", "of"}
      BY DEF Zero
    <3> QED  BY <3>2, <3>4, <3>5
  <2>5. \A i \in 1 .. z : d[i] = IF Stored(b, m) THEN b[i] ELSE Encoded(b, m)[i]
    <3>1. \A i \in 1 .. z : ~(p + e + i > c)
      BY <2>4, <1>1
    <3> QED  BY <3>1, <1>5
  <2>6. Decoded(d) = b
    BY <1>1, <1>6, <1>8, <2>5, BlockRestores
  <2>7. b \in Seq(AnyCell)
    <3>1. \A i \in 1 .. Len(b) : b[i] \in AnyCell
      BY <1>1, ElementOfSeq DEF AnyCell, CellSet
    <3> QED  BY <3>1, <1>1
  <2>8. ASSUME NEW i \in 1 .. l PROVE TrueCell(f, r + i - 1, b[i])
    <3>1. f.whole \/ r + i # n
      <4> SUFFICES ASSUME ~f.whole, r + i = n PROVE FALSE
        OBVIOUS
      <4>1. r + l = n
        BY <1>2
      <4>2. c < p + e + z
        BY <4>1, <1>2
      <4> QED  BY <4>2, <2>4, <1>1
    <3>2. r + i - 1 + 1 = r + i
      OBVIOUS
    <3> QED  BY <3>1, <3>2, <1>2 DEF TrueCell
  <2> QED  BY <1>2, <2>2, <2>6, <2>7, <2>8 DEF CellsTrue
<1> QED  BY <1>7, <1>8
(* A packed block that is all there is never refused.                      *)
LEMMA BlockDecodes ==
  ASSUME NEW f, vol[fsFile] = f, NEW g, NEW k, NEW b, NEW m, NEW last,
         NEW e, NEW z, NEW p, NEW c, Facing(f, g, k, b, m, last, e, z, p, c),
         p + e + z <= c, ~NextHead.stored, NextHead.stored = Stored(b, m),
         HeadCells = e, NextHead.size = z
  PROVE  BlockUnpacked # Failed
<1>1. /\ b \in Seq(ByteSet) /\ b # <<>> /\ m \in Nat \ {0} /\ e \in 1 .. 2
      /\ z \in Nat \ {0} /\ p \in Nat /\ c \in Nat /\ z = SizeOf(b, m) /\ fsPos = p
  BY DEF Facing, FacingTypes, FacingBlock
<1>2. PICK d : d = BlockCellsRead
  OBVIOUS
<1>3. d = [i \in 1 .. z |-> Cell(p + e + i)]
  BY <1>1, <1>2 DEF BlockCellsRead, CellsAt
<1>4. ~Stored(b, m) /\ z = m
  BY <1>1 DEF SizeOf
<1>5. \A i \in 1 .. z : d[i] = Encoded(b, m)[i]
  <2>1. \A i \in 1 .. z : ~(p + e + i > c)
    BY <1>1
  <2> QED  BY <2>1, <1>3, <1>4 DEF Facing, FacingCells
<1>6. Encoded(b, m) \in Seq(PartSet) /\ Len(Encoded(b, m)) = m
  BY <1>1, EncodedAre
<1>7. d \in Seq(PartSet) /\ Len(d) = z
  <2>1. \A i \in 1 .. z : Cell(p + e + i) \in PartSet
    BY <1>3, <1>4, <1>5, <1>6, ElementOfSeq
  <2> QED  BY <2>1, <1>1, <1>3, IsASeq
<1>8. Decoded(d) = b
  BY <1>1, <1>4, <1>5, <1>7, BlockRestores
<1> QED  BY <1>1, <1>2, <1>8 DEF BlockUnpacked, Failed

LEMMA NextBlockKeeps ==
  ASSUME NEW f, vol[fsFile] = f, ReadsIn(f), DecoderTypeOK, NextBlock
  PROVE  ReadsIn(f)' /\ Moved(f) /\ DecoderTypeOK'
<1>1. /\ NeedsBlock /\ NextHead.size > 0 /\ (NextHead.stored \/ BlockUnpacked # Failed)
      /\ originalData' = BlockUnpacked
      /\ originalDataBytesLeft' = DecompressedLength /\ originalDataPos' = 0
      /\ fsPos' = fsPos + HeadCells + NextHead.size
      /\ UNCHANGED <<vol, fsFile, originalFileLength, compressedFile,
                     need, broke, given, place, workHit, faults>>
  BY DEF NextBlock, opened, call, FSReads, NoFault
<1>2. ~broke /\ FileForm(f) /\ IsPacked(f) /\ compressedFile = IsPacked(f)
  BY <1>1 DEF NeedsBlock, Answered, ReadsIn
<1>3. PICK ms : \E g, k : Ahead(f, ms, g, k)
  BY <1>1, NeedsIs
<1>4. PICK g : \E k : Ahead(f, ms, g, k)
  BY <1>3
<1>5. PICK k : Ahead(f, ms, g, k)
  BY <1>4
<1>6. /\ PackedForm(f, ms, g) /\ k \in Nat /\ k < NumBlocks(Len(f.data))
      /\ fsPos = Len(g[k]) /\ place = Reach(Len(f.data), k)
  BY <1>5 DEF Ahead
<1>7. PICK b, m, last, e, z, p, c : Facing(f, g, k, b, m, last, e, z, p, c)
  BY <1>2, <1>6, NextIs
<1>8. /\ Len(b) \in 1 .. MaxBlock /\ e \in 1 .. 2 /\ z \in Nat \ {0} /\ p \in Nat /\ c \in Nat
      /\ (e = IF last THEN 2 ELSE 1) /\ last \in BOOLEAN
      /\ fsPos = p /\ Len(g[k + 1]) = p + e + z /\ c = Len(f.cells)
      /\ Reach(Len(f.data), k) \in Nat
      /\ Reach(Len(f.data), k + 1) = Reach(Len(f.data), k) + Len(b)
      /\ IF f.whole THEN p + e + z <= c ELSE last => c < p + e + z
  BY <1>7 DEF Facing, FacingTypes, FacingBlock
<1>9. /\ p + 1 > c => NextHead.size = 0
      /\ p + 1 <= c =>
              /\ NextHead.size = z /\ NextHead.stored = Stored(b, m) /\ HeadCells = e
              /\ DecompressedLength = IF last /\ p + 2 > c THEN 0 ELSE Len(b)
  BY <1>7, HeadRead
<1>10. p + 1 <= c
  BY <1>1, <1>8, <1>9
<1>11. fsPos' = p + e + z /\ fsPos' = Len(g[k + 1])
       /\ originalDataBytesLeft' = IF last /\ p + 2 > c THEN 0 ELSE Len(b)
  BY <1>1, <1>8, <1>9, <1>10
<1>12. InPacked(f)'
  <2>1. CASE last /\ p + 2 > c
    <3>1. ~f.whole
      BY <2>1, <1>8
    <3>2. fsPos' >= Len(f.cells) /\ originalDataBytesLeft' = 0
      BY <2>1, <1>8, <1>10, <1>11
    <3> QED  BY <3>1, <3>2, <1>6 DEF InPacked, BehindAll
  <2>2. CASE ~(last /\ p + 2 > c)
    <3>1. DecompressedLength = Len(b) /\ originalDataBytesLeft' = Len(b)
      BY <2>2, <1>9, <1>10, <1>11
    <3>2. /\ CellsTrue(f, Reach(Len(f.data), k), BlockUnpacked)
          /\ Len(BlockUnpacked) = Len(b)
      BY <1>1, <1>2, <1>6, <1>7, <1>10, <3>1, BlockGot
    <3>3. PICK u : u = originalData' /\ CellsTrue(f, Reach(Len(f.data), k), u) /\ Len(u) = Len(b)
      BY <1>1, <3>2
    <3>4. PICK r \in Nat, l \in Nat : r = Reach(Len(f.data), k) /\ l = Len(b)
      BY <1>8
    <3>5. /\ fsPos' = Len(g[k + 1]) /\ originalDataBytesLeft' = l
          /\ place' + l = Reach(Len(f.data), k + 1)
      BY <1>1, <1>6, <1>8, <1>11, <3>1, <3>4
    <3>6. /\ originalData' = u /\ CellsTrue(f, r, u)
          /\ originalDataPos' + l = Len(u) /\ r + Len(u) = Reach(Len(f.data), k + 1)
          /\ Len(u) <= MaxBlock
      BY BlockAssumption, <1>1, <1>8, <3>3, <3>4
    <3>7. BehindBlock(f, g, k + 1)'
      BY <3>4, <3>5, <3>6 DEF BehindBlock
    <3>8. k + 1 \in 0 .. NumBlocks(Len(f.data))
      <4>1. NumBlocks(Len(f.data)) \in Nat
        <5>1. Len(f.data) \in Nat
          BY <1>2 DEF FileForm
        <5> QED  BY <5>1, BlocksCover
      <4> QED  BY <4>1, <1>6
    <3> QED  BY <3>7, <3>8, <1>6 DEF InPacked
  <2> QED  BY <2>1, <2>2
<1>13. Moved(f)
  <2>1. faults' \in 0 .. MaxFaults /\ faults' >= faults
    BY <1>1 DEF DecoderTypeOK
  <2> QED  BY <1>1, <2>1 DEF Moved
<1>14. HasGiven(f)'
  BY <1>13, GivenGrows DEF ReadsIn
<1>15. ReadsIn(f)'
  BY <1>1, <1>2, <1>12, <1>14 DEF ReadsIn
<1>16. DecoderTypeOK'
  <2>1. /\ originalDataBytesLeft' \in -1 .. MaxBlock /\ originalDataPos' \in 0 .. MaxBlock
        /\ fsPos' \in Nat
    BY BlockAssumption, <1>1, <1>8, <1>11
  <2> QED  BY <1>1, <2>1 DEF DecoderTypeOK
<1> QED  BY <1>13, <1>15, <1>16

LEMMA BlockUnreadKeeps ==
  ASSUME NEW f, vol[fsFile] = f, ReadsIn(f), DecoderTypeOK, BlockUnread
  PROVE  ReadsIn(f)' /\ Moved(f) /\ DecoderTypeOK'
<1>1. /\ NeedsBlock /\ broke' = TRUE
      /\ UNCHANGED <<vol, fsFile, originalFileLength, compressedFile, fsPos, originalData,
                     originalDataBytesLeft, originalDataPos, need, given, place, workHit>>
      /\ \/ Fault
         \/ ~InClusters(fsPos + HeadCells + NextHead.size) /\ NoFault
         \/ NextHead.size = 0 /\ NoFault
  BY DEF BlockUnread, Breaks, opened, block
<1>2. faults' \in 0 .. MaxFaults /\ faults' >= faults
  BY <1>1, FaultsGrow DEF DecoderTypeOK
<1>3. ~broke /\ FileForm(f) /\ IsPacked(f) /\ compressedFile = IsPacked(f)
  BY <1>1 DEF NeedsBlock, Answered, ReadsIn
<1>4. ASSUME f.whole PROVE faults' > 0
  <2>1. PICK ms : \E g, k : Ahead(f, ms, g, k)
    BY <1>1, <1>4, NeedsIs
  <2>2. PICK g : \E k : Ahead(f, ms, g, k)
    BY <2>1
  <2>3. PICK k : Ahead(f, ms, g, k)
    BY <2>2
  <2>4. PICK b, m, last, e, z, p, c : Facing(f, g, k, b, m, last, e, z, p, c)
    BY <1>3, <2>3, NextIs DEF Ahead
  <2>5. /\ e \in 1 .. 2 /\ z \in Nat \ {0} /\ p \in Nat /\ c \in Nat
        /\ fsPos = p /\ c = Len(f.cells) /\ p + e + z <= c
    BY <1>4, <2>4 DEF Facing, FacingTypes, FacingBlock
  <2>6. NextHead.size = z /\ HeadCells = e
    <3>1. p + 1 <= c
      BY <2>5
    <3> QED  BY <2>4, <3>1, HeadRead
  <2>7. InClusters(fsPos + HeadCells + NextHead.size)
    BY <2>5, <2>6, <1>3 DEF InClusters, File, SizeOnDisk, FileForm
  <2>8. Fault
    BY <1>1, <2>5, <2>6, <2>7
  <2> QED  BY <2>8, FaultsGrow
<1>5. Moved(f)
  BY <1>1, <1>2 DEF Moved
<1>6. HasGiven(f)'
  BY <1>5, GivenGrows DEF ReadsIn
<1>7. ReadsIn(f)'
  BY <1>1, <1>3, <1>4, <1>6 DEF ReadsIn
<1>8. DecoderTypeOK'
  BY <1>1, <1>2 DEF DecoderTypeOK
<1> QED  BY <1>5, <1>7, <1>8

LEMMA BlockUndecodedKeeps ==
  ASSUME NEW f, vol[fsFile] = f, ReadsIn(f), DecoderTypeOK, BlockUndecoded
  PROVE  ReadsIn(f)' /\ Moved(f) /\ DecoderTypeOK'
<1>1. /\ NeedsBlock /\ broke' = TRUE /\ originalDataBytesLeft' = -1 /\ NextHead.size > 0
      /\ ~NextHead.stored /\ (BlockUnpacked = Failed \/ workHit)
      /\ UNCHANGED <<vol, fsFile, originalFileLength, compressedFile, fsPos, originalData,
                     originalDataPos, need, given, place, workHit, faults>>
  BY DEF BlockUndecoded, Breaks, opened, FSReads, NoFault
<1>2. faults' \in 0 .. MaxFaults /\ faults' >= faults
  BY <1>1 DEF DecoderTypeOK
<1>3. ~broke /\ FileForm(f) /\ IsPacked(f) /\ compressedFile = IsPacked(f)
  BY <1>1 DEF NeedsBlock, Answered, ReadsIn
<1>4. ASSUME f.whole, ~workHit PROVE FALSE
  <2>1. PICK ms : \E g, k : Ahead(f, ms, g, k)
    BY <1>1, <1>4, NeedsIs
  <2>2. PICK g : \E k : Ahead(f, ms, g, k)
    BY <2>1
  <2>3. PICK k : Ahead(f, ms, g, k)
    BY <2>2
  <2>4. PICK b, m, last, e, z, p, c : Facing(f, g, k, b, m, last, e, z, p, c)
    BY <1>3, <2>3, NextIs DEF Ahead
  <2>5. /\ e \in 1 .. 2 /\ z \in Nat \ {0} /\ p \in Nat /\ c \in Nat
        /\ fsPos = p /\ c = Len(f.cells) /\ p + e + z <= c
    BY <1>4, <2>4 DEF Facing, FacingTypes, FacingBlock
  <2>6. p + 1 <= c
    BY <2>5
  <2>7. NextHead.size = z /\ HeadCells = e /\ NextHead.stored = Stored(b, m)
    BY <2>4, <2>6, HeadRead
  <2>8. BlockUnpacked # Failed
    BY <1>3, <1>4, <1>1, <2>4, <2>5, <2>7, BlockDecodes
  <2> QED  BY <2>8, <1>1, <1>4
<1>5. Moved(f)
  BY <1>1, <1>2 DEF Moved
<1>6. HasGiven(f)'
  BY <1>5, GivenGrows DEF ReadsIn
<1>7. ReadsIn(f)'
  BY <1>1, <1>3, <1>4, <1>6 DEF ReadsIn
<1>8. DecoderTypeOK'
  BY <1>1, <1>2, BlockAssumption DEF DecoderTypeOK
<1> QED  BY <1>5, <1>7, <1>8

(* What the caller sees of a step of a read.                               *)
LEMMA StepKeeps ==
  ASSUME NEW f, vol[fsFile] = f, ReadsIn(f), DecoderTypeOK, DecoderStep
  PROVE  ReadsIn(f)' /\ Moved(f) /\ DecoderTypeOK'
BY ReadPlainKeeps, ReadPlainFailsKeeps, TakeFromBlockKeeps, NextBlockKeeps, BlockUnreadKeeps,
   BlockUndecodedKeeps DEF DecoderStep
-----------------------------------------------------------------------------
(* The loader.                                                             *)

LEMMA SettingsAre ==
  ASSUME NEW v, NEW s \in Settings(v)
  PROVE  /\ s.image \in ImageNames(v) /\ s.backup \in ImageNames(v)
         /\ s.delay \in Nat /\ s.video \in BOOLEAN
         /\ DOMAIN s = {"image", "backup", "users", "delay", "video"}
         /\ \A key \in DOMAIN s.users : s.users[key] \in ImageNames(v)
         /\ [s EXCEPT !.video = FALSE] \in Settings(v)
<1>1. PICK I : I = ImageNames(v)
  OBVIOUS
<1>2. PICK U : U = UNION {[K -> I] : K \in SUBSET Keys}
  OBVIOUS
<1>3. s \in [image : I, backup : I, users : U, delay : Nat, video : BOOLEAN]
  BY <1>1, <1>2 DEF Settings
<1>4. \A key \in DOMAIN s.users : s.users[key] \in I
  BY <1>2, <1>3
<1>5. [s EXCEPT !.video = FALSE] \in [image : I, backup : I, users : U, delay : Nat, video : BOOLEAN]
  BY <1>3
<1>6. [s EXCEPT !.video = FALSE] \in Settings(v)
  BY <1>1, <1>2, <1>5 DEF Settings
<1>7. DOMAIN s = {"image", "backup", "users", "delay", "video"}
  BY <1>3
<1> QED  BY <1>1, <1>3, <1>4, <1>6, <1>7

LEMMA DefaultIs ==
  ASSUME NEW v \in Volumes, VolumesWritten
  PROVE  SetDefaultBootArgs \in Settings(v) /\ NoImage \in ImageNames(v)
<1>1. PICK I : I = ImageNames(v)
  OBVIOUS
<1>2. "eboot.bin" \in I /\ NoImage \in I
  BY <1>1 DEF VolumesWritten
<1>3. <<>> \in UNION {[K -> I] : K \in SUBSET Keys}
  <2>1. <<>> \in [{} -> I]
    OBVIOUS
  <2>2. {} \in SUBSET Keys
    OBVIOUS
  <2> QED  BY <2>1, <2>2
<1> QED  BY <1>1, <1>2, <1>3 DEF SetDefaultBootArgs, Settings

LEMMA OpenFailsIs ==
  ASSUME NEW v, vol = v, NEW name \in DOMAIN v, NEW f, f = v[name],
         f # NoFile => WasWritten(f), DecoderTypeOK,
         fsFile # None => v[fsFile] # NoFile, OpenFails(name)
  PROVE  /\ DecoderTypeOK' /\ vol' = v /\ workHit' = workHit
         /\ fsFile' # None => v[fsFile'] # NoFile
         /\ need' = 0 /\ broke' = FALSE /\ faults' >= faults
         /\ f = NoFile \/ SizeOnDisk(f) = 0 \/ faults' > 0
<1>1. f # NoFile => Len(f.cells) \in Nat
  BY FormIs DEF FileForm
<1>2. /\ need' = 0 /\ broke' = FALSE /\ place' = 0 /\ vol' = v /\ workHit' = workHit
      /\ originalDataBytesLeft' = originalDataBytesLeft /\ originalDataPos' = originalDataPos
  BY DEF OpenFails, NotFound, OpenEmpty, SignatureUnread, NoCall, block
<1>3. /\ faults' \in 0 .. MaxFaults /\ faults' >= faults
      /\ f = NoFile \/ SizeOnDisk(f) = 0 \/ faults' > 0
  <2>1. CASE NotFound(name)
    BY <2>1, FaultsGrow DEF NotFound, DecoderTypeOK
  <2>2. CASE OpenEmpty(name)
    BY <2>2, FaultsGrow DEF OpenEmpty, DecoderTypeOK
  <2>3. CASE SignatureUnread(name)
    BY <2>3, FaultsGrow DEF SignatureUnread, DecoderTypeOK
  <2> QED  BY <2>1, <2>2, <2>3 DEF OpenFails
<1>4. /\ fsFile' \in DOMAIN v \cup {None} /\ fsPos' \in Nat /\ compressedFile' \in BOOLEAN
      /\ originalFileLength' \in Nat /\ (fsFile' # None => v[fsFile'] # NoFile)
  <2>1. CASE NotFound(name)
    BY <2>1 DEF NotFound, DecoderTypeOK
  <2>2. CASE OpenEmpty(name)
    BY <2>2 DEF OpenEmpty, DecoderTypeOK
  <2>3. CASE SignatureUnread(name)
    BY <2>3, <1>1 DEF SignatureUnread, DecoderTypeOK, SizeOnDisk
  <2> QED  BY <2>1, <2>2, <2>3 DEF OpenFails
<1> QED  BY <1>2, <1>3, <1>4 DEF DecoderTypeOK

LEMMA OpenWorksIs ==
  ASSUME NEW v, vol = v, NEW name \in DOMAIN v, NEW f, f = v[name], WasWritten(f),
         DecoderTypeOK, OpenWorks(name)
  PROVE  /\ DecoderTypeOK' /\ ReadInv' /\ SplashInv(f)' /\ f # NoFile /\ SizeOnDisk(f) > 0
         /\ vol' = v /\ fsFile' = name /\ workHit' = workHit /\ faults' = faults
         /\ need' = 0 /\ broke' = FALSE /\ place' = 0 /\ given' = <<>>
<1>1. /\ ReadInv' /\ f # NoFile /\ SizeOnDisk(f) > 0 /\ vol' = v /\ fsFile' = name
      /\ need' = 0 /\ broke' = FALSE /\ place' = 0 /\ given' = <<>>
      /\ SplashInv(f)' /\ fsPos' \in Nat /\ originalFileLength' \in Nat
  BY OpenedReads
<1>2. /\ workHit' = workHit /\ faults' = faults /\ compressedFile' \in BOOLEAN
      /\ originalDataBytesLeft' = 0 /\ originalDataPos' = originalDataPos
  BY DEF OpenWorks, Opened, NoFault, IsPacked
<1>3. 0 \in -1 .. MaxBlock
  BY BlockAssumption
<1> QED  BY <1>1, <1>2, <1>3 DEF DecoderTypeOK

LEMMA QuietStage ==
  ASSUME stage' \notin Busy \cup {"ini read", "loaded", "jumped"}, need' = 0 \/ broke'
  PROVE  StageInv'
BY DEF StageInv, Busy, ImageStages, Asking, Answered

LEMMA NoOrderYet ==
  ASSUME stage' \notin ImageStages \cup {"open", "loaded", "jumped"}
  PROVE  OrderInv'
BY DEF OrderInv

LEMMA OrderKeeps ==
  ASSUME NEW t, UNCHANGED <<chosen, IniParams, vol, workHit>>, DecoderTypeOK,
         faults' >= faults, faults' \in 0 .. MaxFaults
  PROVE  /\ TriedSome(t) /\ untried' = untried => TriedSome(t)'
         /\ Excused(t) => Excused(t)'
<1>1. Order' = Order
  BY DEF Order
<1>2. TriedSome(t) /\ untried' = untried => TriedSome(t)'
  BY <1>1 DEF TriedSome
<1>3. Excused(t) => Excused(t)'
  <2> SUFFICES ASSUME Excused(t), NEW i \in 1 .. t, NEW name, name = Order'[i], Loadable(name)'
               PROVE  faults' > 0
    BY DEF Excused
  <2>1. Loadable(name) /\ name = Order[i]
    BY <1>1 DEF Loadable
  <2>2. faults > 0
    BY <2>1 DEF Excused
  <2> QED  BY <2>2, DecoderAssumption DEF DecoderTypeOK
<1> QED  BY <1>2, <1>3

LEMMA BiosInvInit == ASSUME VolumesWritten, BiosInit PROVE BiosInv
<1>1. PICK v \in Volumes : vol = v
  BY DEF BiosInit, DecoderInit
<1>2. SetDefaultBootArgs \in Settings(v) /\ NoImage \in ImageNames(v)
  BY <1>1, DefaultIs
<1>3. DecoderTypeOK /\ fsFile = None /\ need = 0
  <2>1. 0 \in -1 .. MaxBlock /\ 0 \in 0 .. MaxBlock /\ 0 \in 0 .. MaxFaults
    BY DecoderAssumption, BlockAssumption
  <2> QED  BY <2>1 DEF BiosInit, DecoderInit, DecoderTypeOK
<1>4. NoImage \in DOMAIN v /\ <<>> \in Seq(DOMAIN v) /\ <<>> \in Seq(ImageNames(v))
  BY <1>2 DEF ImageNames
<1>5. BiosTypeOK
  <2>1. DOMAIN IniParams = {"image", "backup", "users", "delay", "video"}
    BY DEF BiosInit, SetDefaultBootArgs
  <2> QED  BY <1>1, <1>3, <1>4, <2>1 DEF BiosInit, BiosTypeOK
<1>6. BootTypes
  BY <1>1, <1>2, <1>3, <1>4, <1>5 DEF BootTypes, BiosInit
<1>7. StageInv
  BY <1>3 DEF BiosInit, StageInv, Answered, Busy, ImageStages
<1>8. OrderInv
  BY DEF BiosInit, OrderInv, ImageStages
<1> QED  BY <1>6, <1>7, <1>8 DEF BiosInv
Stages ==
  {"entry", "init", "ini", "ini read", "splash", "splash plain",
   "splash size", "splash read", "keys", "open", "opened", "image header",
   "record header", "body", "loaded", "jumped", "halted"}

LEMMA TypesAre ==
  ASSUME NEW v \in Volumes, vol' = v, DecoderTypeOK', fsFile' # None => v[fsFile'] # NoFile,
         IniParams' \in Settings(v), chosen' \in ImageNames(v), loading' \in ImageNames(v),
         untried' \in Seq(ImageNames(v)), target' \in Addresses \cup {0}, ImgAddr' \in Nat,
         DOMAIN ram' = Addresses, stage' \in Stages, ready' \in BOOLEAN, delay' \in Nat
  PROVE  BootTypes'
<1>1. ImageNames(v) \subseteq DOMAIN v
  BY DEF ImageNames
<1>2. untried' \in Seq(DOMAIN v)
  <2>1. PICK u : u = untried'
    OBVIOUS
  <2>2. u \in Seq(ImageNames(v)) /\ Len(u) \in Nat
    BY <2>1, LenProperties
  <2>3. \A i \in 1 .. Len(u) : u[i] \in DOMAIN v
    BY <1>1, <2>2, ElementOfSeq
  <2>4. u \in Seq(DOMAIN v)
    BY <2>2, <2>3
  <2> QED  BY <2>1, <2>4
<1>3. DOMAIN IniParams' = {"image", "backup", "users", "delay", "video"}
  BY SettingsAre
<1>4. BiosTypeOK'
  BY <1>1, <1>2, <1>3 DEF BiosTypeOK, Stages
<1> QED  BY <1>4 DEF BootTypes

LEMMA TypesKeep ==
  ASSUME BootTypes, DecoderTypeOK', NEW v, vol = v, vol' = v,
         fsFile' # None => v[fsFile'] # NoFile,
         UNCHANGED <<IniParams, chosen, loading, untried, target, ImgAddr, ram>>,
         stage' \in Stages, ready' \in BOOLEAN, delay' \in Nat
  PROVE  BootTypes'
BY TypesAre DEF BootTypes, BiosTypeOK

(* What holds at every stage.                                              *)
LEMMA InvGives ==
  ASSUME VolumesWritten, BiosInv
  PROVE  /\ DecoderTypeOK /\ BiosTypeOK /\ BootTypes /\ StageInv /\ OrderInv
         /\ stage \in Stages /\ ready \in BOOLEAN /\ delay \in Nat
         /\ \E v \in Volumes :
              /\ vol = v /\ (fsFile # None => v[fsFile] # NoFile)
              /\ IniParams \in Settings(v)
              /\ chosen \in ImageNames(v) /\ loading \in ImageNames(v)
              /\ untried \in Seq(ImageNames(v)) /\ ImageNames(v) \subseteq DOMAIN v
              /\ \A name \in DOMAIN v : v[name] # NoFile => WasWritten(v[name])
              /\ {NoImage, "boot.ini", "splash.bmx", "splash.bmp", "eboot.bin"} \subseteq DOMAIN v
<1>1. /\ DecoderTypeOK /\ BiosTypeOK /\ BootTypes /\ StageInv /\ OrderInv
      /\ stage \in Stages /\ ready \in BOOLEAN /\ delay \in Nat
  BY DEF BiosInv, BootTypes, BiosTypeOK, Stages
<1>2. PICK v \in Volumes :
              /\ vol = v /\ (fsFile # None => v[fsFile] # NoFile)
              /\ IniParams \in Settings(v)
              /\ chosen \in ImageNames(v) /\ loading \in ImageNames(v)
              /\ untried \in Seq(ImageNames(v))
  BY <1>1 DEF BootTypes
<1>3. ImageNames(v) \subseteq DOMAIN v
  BY DEF ImageNames
<1>4. \A name \in DOMAIN v : v[name] # NoFile => WasWritten(v[name])
  BY DEF VolumesWritten
<1>5. {NoImage, "boot.ini", "splash.bmx", "splash.bmp", "eboot.bin"} \subseteq DOMAIN v
  BY BiosAssumption
<1> QED  BY <1>1, <1>2, <1>3, <1>4, <1>5

LEMMA CopyDataSectionsKeeps ==
  ASSUME VolumesWritten, BiosInv, CopyDataSections PROVE BiosInv'
<1>1. DecoderTypeOK /\ BootTypes /\ StageInv /\ stage = "entry" /\ stage' \in {"init", "halted"}
      /\ ready \in BOOLEAN /\ delay \in Nat
  BY InvGives DEF CopyDataSections
<1>2. PICK v : vol = v /\ (fsFile # None => v[fsFile] # NoFile)
  BY InvGives
<1>3. UNCHANGED bootParams /\ UNCHANGED bin /\ UNCHANGED decoderVars
  BY DEF CopyDataSections
<1>4. /\ UNCHANGED <<IniParams, chosen, loading, untried, target, ImgAddr, ram, ready, delay>>
      /\ vol' = v /\ fsFile' = fsFile /\ need' = need /\ broke' = broke /\ DecoderTypeOK'
  BY <1>1, <1>2, <1>3 DEF bootParams, bin, decoderVars, opened, block, call, DecoderTypeOK
<1>5. BootTypes'
  BY <1>1, <1>2, <1>4, TypesKeep DEF Stages
<1>6. StageInv'
  <2>1. need' = 0 \/ broke'
    BY <1>1, <1>4 DEF StageInv, Asking, Answered
  <2> QED  BY <1>1, <2>1, QuietStage DEF Busy, ImageStages
<1>7. OrderInv'
  BY <1>1, NoOrderYet DEF ImageStages
<1> QED  BY <1>5, <1>6, <1>7 DEF BiosInv

LEMMA CeCompressInitKeeps ==
  ASSUME VolumesWritten, BiosInv, CeCompressInit PROVE BiosInv'
<1>1. DecoderTypeOK /\ BootTypes /\ StageInv /\ stage = "init" /\ stage' \in {"ini", "halted"}
      /\ ready' \in BOOLEAN /\ delay \in Nat
  BY InvGives DEF CeCompressInit
<1>2. PICK v : vol = v /\ (fsFile # None => v[fsFile] # NoFile)
  BY InvGives
<1>3. UNCHANGED <<IniParams, delay, chosen, untried>> /\ UNCHANGED bin /\ UNCHANGED decoderVars
  BY DEF CeCompressInit
<1>4. /\ UNCHANGED <<IniParams, chosen, loading, untried, target, ImgAddr, ram, delay>>
      /\ vol' = v /\ fsFile' = fsFile /\ need' = need /\ broke' = broke /\ DecoderTypeOK'
  BY <1>1, <1>2, <1>3 DEF bin, decoderVars, opened, block, call, DecoderTypeOK
<1>5. BootTypes'
  BY <1>1, <1>2, <1>4, TypesKeep DEF Stages
<1>6. StageInv'
  <2>1. need' = 0 \/ broke'
    BY <1>1, <1>4 DEF StageInv, Asking, Answered
  <2> QED  BY <1>1, <2>1, QuietStage DEF Busy, ImageStages
<1>7. OrderInv'
  BY <1>1, NoOrderYet DEF ImageStages
<1> QED  BY <1>5, <1>6, <1>7 DEF BiosInv

LEMMA OpenIniKeeps ==
  ASSUME VolumesWritten, BiosInv, OpenIni PROVE BiosInv'
<1>1. DecoderTypeOK /\ BootTypes /\ ready \in BOOLEAN /\ delay \in Nat
  BY InvGives
<1>2. PICK v \in Volumes :
        /\ vol = v /\ (fsFile # None => v[fsFile] # NoFile) /\ "boot.ini" \in DOMAIN v
        /\ \A name \in DOMAIN v : v[name] # NoFile => WasWritten(v[name])
  BY InvGives
<1>3. PICK f : f = v["boot.ini"] /\ (f # NoFile => WasWritten(f))
  BY <1>2
<1>4. UNCHANGED <<IniParams, chosen, loading, untried, target, ImgAddr, ram, ready, delay>>
  BY DEF OpenIni, bootParams, bin
<1>5. CASE OpenWorks("boot.ini") /\ stage' = "ini read"
  <2>1. WasWritten(f) /\ FileForm(f)
    BY <1>2, <1>3, <1>5, FormIs DEF OpenWorks
  <2>2. /\ DecoderTypeOK' /\ f # NoFile /\ SizeOnDisk(f) > 0
        /\ vol' = v /\ fsFile' = "boot.ini" /\ need' = 0
    BY <1>1, <1>2, <1>3, <1>5, <2>1, OpenWorksIs
  <2>3. BootTypes'
    BY <1>1, <1>2, <1>3, <1>4, <1>5, <2>2, TypesKeep DEF Stages
  <2>4. StageInv'
    <3>1. IniInv(v["boot.ini"])
      BY <1>3, <2>1, <2>2 DEF IniInv, FileForm
    <3> QED  BY <1>5, <2>2, <3>1 DEF StageInv, Busy, ImageStages, Asking, Answered
  <2>5. OrderInv'
    BY <1>5, NoOrderYet DEF ImageStages
  <2> QED  BY <2>3, <2>4, <2>5 DEF BiosInv
<1>6. CASE OpenFails("boot.ini") /\ stage' = "splash"
  <2>1. DecoderTypeOK' /\ vol' = v /\ (fsFile' # None => v[fsFile'] # NoFile) /\ need' = 0
    BY <1>1, <1>2, <1>3, <1>6, OpenFailsIs
  <2>2. BootTypes'
    BY <1>1, <1>2, <1>4, <1>6, <2>1, TypesKeep DEF Stages
  <2>3. StageInv'
    BY <1>6, <2>1, QuietStage DEF Busy, ImageStages
  <2>4. OrderInv'
    BY <1>6, NoOrderYet DEF ImageStages
  <2> QED  BY <2>2, <2>3, <2>4 DEF BiosInv
<1> QED  BY <1>5, <1>6 DEF OpenIni

LEMMA ReadIniKeeps ==
  ASSUME VolumesWritten, BiosInv, ReadIni PROVE BiosInv'
<1>1. DecoderTypeOK /\ BiosTypeOK /\ StageInv /\ stage = "ini read" /\ stage' = "splash"
      /\ ready' \in BOOLEAN /\ delay' \in Nat
  BY InvGives DEF ReadIni
<1>2. PICK v \in Volumes :
        /\ vol = v /\ IniParams \in Settings(v)
        /\ chosen \in ImageNames(v) /\ loading \in ImageNames(v) /\ untried \in Seq(ImageNames(v))
  BY InvGives
<1>3. vol' = v /\ fsFile' = None /\ fsPos' = 0 /\ need' = 0 /\ broke' = FALSE /\ place' = 0
      /\ UNCHANGED <<chosen, loading, untried, target, ImgAddr, ram, originalFileLength,
                     compressedFile, originalDataBytesLeft, originalDataPos>>
  BY <1>2 DEF ReadIni, FSCloseFile, NoCall, bin, block
<1>4. faults' \in 0 .. MaxFaults
  BY <1>1, FaultsGrow DEF ReadIni, FSReads, FSReadFails
<1>5. DecoderTypeOK'
  <2>1. workHit' \in BOOLEAN
    BY <1>1 DEF ReadIni, DecoderTypeOK, TooLong
  <2> QED  BY <1>1, <1>3, <1>4, <2>1 DEF DecoderTypeOK
<1>6. IniParams' \in Settings(v)
  <2>1. v["boot.ini"].settings \in Settings(v) /\ fsFile = "boot.ini"
    BY <1>1, <1>2 DEF StageInv, IniInv, VolumesWritten
  <2>2. NothingSet \in Settings(v)
    BY <1>2, SettingsAre DEF NothingSet
  <2> QED  BY <1>2, <2>1, <2>2 DEF ReadIni, SetUserBootArgs, File
<1>7. BootTypes'
  <2>1. target' \in Addresses \cup {0} /\ ImgAddr' \in Nat /\ DOMAIN ram' = Addresses
    BY <1>1, <1>3 DEF BiosTypeOK
  <2> QED  BY <1>1, <1>2, <1>3, <1>5, <1>6, <2>1, TypesAre DEF Stages
<1>8. StageInv'
  BY <1>1, <1>3, QuietStage DEF Busy, ImageStages
<1>9. OrderInv'
  BY <1>1, NoOrderYet DEF ImageStages
<1> QED  BY <1>7, <1>8, <1>9 DEF BiosInv
(* Steps that go on to the keyboard, or stay there, and leave the decoder  *)
(* answered.                                                               *)
LEMMA ToKeysKeeps ==
  ASSUME VolumesWritten, BiosInv, stage' = "keys", ready' = ready, delay' \in Nat,
         NEW v, vol = v, vol' = v, DecoderTypeOK', fsFile' # None => v[fsFile'] # NoFile,
         UNCHANGED <<IniParams, chosen, loading, untried, target, ImgAddr, ram>>,
         need' = 0 \/ broke'
  PROVE  BiosInv'
<1>1. BootTypes /\ ready \in BOOLEAN
  BY InvGives
<1>2. BootTypes'
  BY <1>1, TypesKeep DEF Stages
<1>3. StageInv'
  BY QuietStage DEF Busy, ImageStages
<1>4. OrderInv'
  BY NoOrderYet DEF ImageStages
<1> QED  BY <1>2, <1>3, <1>4 DEF BiosInv

LEMMA DecoderStays ==
  ASSUME UNCHANGED decoderVars
  PROVE  /\ UNCHANGED <<vol, fsFile, fsPos, originalFileLength, compressedFile, originalData,
                        originalDataBytesLeft, originalDataPos, need, broke, given, place,
                        workHit, faults>>
         /\ DecoderTypeOK => DecoderTypeOK'
BY DEF decoderVars, opened, block, call, DecoderTypeOK

LEMMA NoSplashKeeps == ASSUME VolumesWritten, BiosInv, NoSplash PROVE BiosInv'
<1>1. DecoderTypeOK /\ StageInv /\ stage = "splash"
  BY InvGives DEF NoSplash
<1>2. PICK v : vol = v /\ (fsFile # None => v[fsFile] # NoFile) /\ IniParams \in Settings(v)
  BY InvGives
<1>3. IniParams.delay \in Nat
  BY <1>2, SettingsAre
<1>4. /\ stage' = "keys" /\ delay' = IniParams.delay /\ UNCHANGED decoderVars
      /\ UNCHANGED <<ready, IniParams, chosen, loading, untried, target, ImgAddr, ram>>
  BY DEF NoSplash, ToKeys, bin
<1>5. /\ UNCHANGED <<vol, fsFile, need, broke>> /\ DecoderTypeOK'
  BY <1>1, <1>4, DecoderStays
<1>6. need' = 0 \/ broke'
  BY <1>1, <1>5 DEF StageInv, Asking, Answered
<1> QED  BY <1>2, <1>3, <1>4, <1>5, <1>6, ToKeysKeeps

LEMMA PollAgainKeeps == ASSUME VolumesWritten, BiosInv, PollAgain PROVE BiosInv'
<1>1. DecoderTypeOK /\ StageInv /\ stage = "keys" /\ delay \in Nat
  BY InvGives DEF PollAgain
<1>2. PICK v : vol = v /\ (fsFile # None => v[fsFile] # NoFile)
  BY InvGives
<1>3. /\ stage' = "keys" /\ delay' \in Nat /\ UNCHANGED decoderVars
      /\ UNCHANGED <<ready, IniParams, chosen, loading, untried, target, ImgAddr, ram>>
  BY <1>1 DEF PollAgain, bin
<1>4. /\ UNCHANGED <<vol, fsFile, need, broke>> /\ DecoderTypeOK'
  BY <1>1, <1>3, DecoderStays
<1>5. need' = 0 \/ broke'
  BY <1>1, <1>4 DEF StageInv, Asking, Answered
<1> QED  BY <1>2, <1>3, <1>4, <1>5, ToKeysKeeps

LEMMA OpenSplashKeeps ==
  ASSUME VolumesWritten, BiosInv, NEW name \in {"splash.bmx", "splash.bmp"},
         NEW otherwise \in {"splash plain", "keys"}, OpenSplash(name, otherwise)
  PROVE  BiosInv'
<1>1. DecoderTypeOK /\ BootTypes /\ ready \in BOOLEAN /\ delay \in Nat
  BY InvGives
<1>2. PICK v \in Volumes :
        /\ vol = v /\ (fsFile # None => v[fsFile] # NoFile) /\ name \in DOMAIN v
        /\ \A file \in DOMAIN v : v[file] # NoFile => WasWritten(v[file])
        /\ IniParams \in Settings(v)
  BY InvGives
<1>3. PICK f : f = v[name] /\ (f # NoFile => WasWritten(f))
  BY <1>2
<1>4. UNCHANGED <<ready, IniParams, chosen, loading, untried, target, ImgAddr, ram>>
  BY DEF OpenSplash, bin
<1>5. CASE OpenWorks(name) /\ stage' = "splash size" /\ UNCHANGED delay
  <2>1. WasWritten(f)
    BY <1>2, <1>3, <1>5 DEF OpenWorks
  <2>2. /\ DecoderTypeOK' /\ ReadInv' /\ SplashInv(f)' /\ f # NoFile
        /\ vol' = v /\ fsFile' = name
        /\ need' = 0 /\ broke' = FALSE /\ place' = 0 /\ given' = <<>>
    BY <1>1, <1>2, <1>3, <1>5, <2>1, OpenWorksIs
  <2>3. BootTypes'
    BY <1>1, <1>2, <1>3, <1>4, <1>5, <2>2, TypesKeep DEF Stages
  <2>4. StageInv'
    <3>1. \E w, h : vol' = w /\ w[fsFile'] = h /\ SplashInv(h)'
      BY <1>3, <2>2
    <3> QED  BY <1>5, <2>2, <3>1 DEF StageInv, Busy, ImageStages, Asking, Answered
  <2>5. OrderInv'
    BY <1>5, NoOrderYet DEF ImageStages
  <2> QED  BY <2>3, <2>4, <2>5 DEF BiosInv
<1>6. CASE /\ OpenFails(name) /\ stage' = otherwise
           /\ delay' = IF otherwise = "keys" THEN IniParams.delay ELSE delay
  <2>1. DecoderTypeOK' /\ vol' = v /\ (fsFile' # None => v[fsFile'] # NoFile) /\ need' = 0
    BY <1>1, <1>2, <1>3, <1>6, OpenFailsIs
  <2>2. delay' \in Nat
    <3>1. IniParams.delay \in Nat
      BY <1>2, SettingsAre
    <3> QED  BY <3>1, <1>1, <1>6
  <2>3. BootTypes'
    BY <1>1, <1>2, <1>4, <1>6, <2>1, <2>2, TypesKeep DEF Stages
  <2>4. StageInv'
    BY <1>6, <2>1, QuietStage DEF Busy, ImageStages
  <2>5. OrderInv'
    BY <1>6, NoOrderYet DEF ImageStages
  <2> QED  BY <2>3, <2>4, <2>5 DEF BiosInv
<1> QED  BY <1>5, <1>6 DEF OpenSplash

LEMMA SplashTooLongKeeps == ASSUME VolumesWritten, BiosInv, SplashTooLong PROVE BiosInv'
<1>1. DecoderTypeOK /\ StageInv /\ stage = "splash size"
  BY InvGives DEF SplashTooLong
<1>2. PICK v : vol = v /\ (fsFile # None => v[fsFile] # NoFile) /\ IniParams \in Settings(v)
  BY InvGives
<1>3. IniParams.delay \in Nat
  BY <1>2, SettingsAre
<1>4. /\ stage' = "keys" /\ delay' = IniParams.delay /\ UNCHANGED decoderVars
      /\ UNCHANGED <<ready, IniParams, chosen, loading, untried, target, ImgAddr, ram>>
  BY DEF SplashTooLong, ToKeys, bin
<1>5. /\ UNCHANGED <<vol, fsFile, need, broke>> /\ DecoderTypeOK'
  BY <1>1, <1>4, DecoderStays
<1>6. need' = 0 \/ broke'
  BY <1>1, <1>5 DEF StageInv, Asking, Answered
<1> QED  BY <1>2, <1>3, <1>4, <1>5, <1>6, ToKeysKeeps

LEMMA AskSplashKeeps == ASSUME VolumesWritten, BiosInv, AskSplash PROVE BiosInv'
<1>1. DecoderTypeOK /\ BootTypes /\ StageInv /\ stage = "splash size"
      /\ ready \in BOOLEAN /\ delay \in Nat
  BY InvGives DEF AskSplash
<1>2. PICK v : /\ vol = v /\ (fsFile # None => v[fsFile] # NoFile)
  BY InvGives
<1>3. PICK f : /\ fsFile \in DOMAIN v /\ v[fsFile] = f /\ f # NoFile /\ ReadsIn(f)
               /\ SplashInv(f)
  BY <1>1, <1>2 DEF StageInv, ReadInv, Busy
<1>4. PICK n \in Nat : n = originalFileLength /\ Asks(n)
  BY <1>1 DEF AskSplash, DecoderTypeOK
<1>5. /\ stage' = "splash read" /\ need' = n
      /\ UNCHANGED <<ready, delay, IniParams, chosen, loading, untried, target, ImgAddr, ram>>
      /\ UNCHANGED <<vol, fsFile>> /\ DecoderTypeOK'
  BY <1>1, <1>4 DEF AskSplash, Asks, bin, bootParams, opened, block, DecoderTypeOK
<1>6. ReadsIn(f)'
  <2>1. ~broke /\ place = 0
    BY <1>1 DEF StageInv
  <2>2. f.whole => place + n <= Len(f.data)
    BY <2>1, <1>3, <1>4 DEF SplashInv
  <2> QED  BY <2>1, <2>2, <1>1, <1>3, <1>4, AsksReads
<1>7. BootTypes'
  BY <1>1, <1>2, <1>5, TypesKeep DEF Stages
<1>8. StageInv'
  <2>1. ReadInv'
    BY <1>2, <1>3, <1>5, <1>6 DEF ReadInv
  <2> QED  BY <2>1, <1>5 DEF StageInv, Busy, ImageStages, Asking
<1>9. OrderInv'
  BY <1>5, NoOrderYet DEF ImageStages
<1> QED  BY <1>7, <1>8, <1>9 DEF BiosInv

(* CeCompressCloseFile leaves the decoder at rest.                         *)
LEMMA CloseIs ==
  ASSUME DecoderTypeOK, CeCompressCloseFile
  PROVE  /\ DecoderTypeOK' /\ fsFile' = None /\ need' = 0
         /\ UNCHANGED <<vol, workHit, faults>>
BY DEF CeCompressCloseFile, FSCloseFile, NoCall, block, DecoderTypeOK

LEMMA SplashReadKeeps == ASSUME VolumesWritten, BiosInv, SplashRead PROVE BiosInv'
<1>1. DecoderTypeOK
  BY InvGives
<1>2. PICK v : vol = v /\ IniParams \in Settings(v)
  BY InvGives
<1>3. IniParams.delay \in Nat
  BY <1>2, SettingsAre
<1>4. /\ stage' = "keys" /\ delay' = IniParams.delay /\ CeCompressCloseFile
      /\ UNCHANGED <<ready, IniParams, chosen, loading, untried, target, ImgAddr, ram>>
  BY DEF SplashRead, ToKeys, bin
<1>5. DecoderTypeOK' /\ fsFile' = None /\ need' = 0 /\ vol' = vol
  BY <1>1, <1>4, CloseIs
<1> QED  BY <1>2, <1>3, <1>4, <1>5, ToKeysKeeps

(* The images are to be tried in their order.                              *)
LEMMA ToLoadKeeps ==
  ASSUME VolumesWritten, BiosInv, stage = "keys",
         NEW image, \A v : vol = v => image \in ImageNames(v), ToLoad(image),
         UNCHANGED <<ready, IniParams, delay>>, UNCHANGED bin, UNCHANGED decoderVars
  PROVE  BiosInv'
<1>1. DecoderTypeOK /\ BiosTypeOK /\ StageInv /\ ready \in BOOLEAN /\ delay \in Nat
  BY InvGives
<1>2. PICK v \in Volumes :
              /\ vol = v /\ (fsFile # None => v[fsFile] # NoFile)
              /\ IniParams \in Settings(v) /\ loading \in ImageNames(v)
  BY InvGives
<1>3. /\ chosen' = image /\ stage' = "open"
      /\ untried' = (IF image = NoImage THEN <<>> ELSE <<image>>)
                     \o <<IniParams.image, IniParams.backup>>
      /\ UNCHANGED <<loading, target, ram, ImgAddr>>
      /\ UNCHANGED <<vol, fsFile, need, broke>> /\ DecoderTypeOK'
  BY <1>1, DecoderStays DEF ToLoad, bin
<1>4. PICK I : I = ImageNames(v)
  OBVIOUS
<1>5. image \in I /\ IniParams.image \in I /\ IniParams.backup \in I
  BY <1>2, <1>4, SettingsAre
<1>6. untried' \in Seq(I) /\ Len(untried') \in Nat /\ Len(untried') > 0
  <2>1. CASE image = NoImage
    <3>1. untried' = <<>> \o <<IniParams.image, IniParams.backup>>
      BY <1>3, <2>1
    <3> QED  BY <3>1, <1>5
  <2>2. CASE image # NoImage
    <3>1. untried' = <<image>> \o <<IniParams.image, IniParams.backup>>
      BY <1>3, <2>2
    <3> QED  BY <3>1, <1>5
  <2> QED  BY <2>1, <2>2
<1>7. BootTypes'
  <2>1. target' \in Addresses \cup {0} /\ ImgAddr' \in Nat /\ DOMAIN ram' = Addresses
    BY <1>1, <1>3 DEF BiosTypeOK
  <2> QED  BY <1>1, <1>2, <1>3, <1>4, <1>5, <1>6, <2>1, TypesAre DEF Stages
<1>8. StageInv'
  <2>1. need' = 0 \/ broke'
    BY <1>1, <1>3 DEF StageInv, Asking, Answered
  <2> QED  BY <1>3, <2>1, QuietStage DEF Busy, ImageStages
<1>9. OrderInv'
  <2>1. Order' = untried'
    BY <1>3 DEF Order
  <2>2. 0 \in 0 .. Len(untried') /\ Len(untried') = Len(untried') - 0
        /\ \A i \in 1 .. Len(untried') : 0 + i = i
    BY <1>6
  <2>3. TriedSome(0)'
    BY <2>1, <2>2 DEF TriedSome
  <2>4. Excused(0)'
    BY DEF Excused
  <2>5. 0 \in Nat /\ 0 < Len(Order')
    BY <1>6, <2>1
  <2>6. stage' \notin ImageStages \cup {"loaded", "jumped"}
    BY <1>3 DEF ImageStages
  <2> QED  BY <2>3, <2>4, <2>5, <2>6 DEF OrderInv
<1> QED  BY <1>7, <1>8, <1>9 DEF BiosInv

LEMMA KeyPressedKeeps == ASSUME VolumesWritten, BiosInv, KeyPressed PROVE BiosInv'
<1>1. PICK key \in Keys : ToLoad(UserImage(key))
  BY DEF KeyPressed
<1>2. PICK image : image = UserImage(key)
  OBVIOUS
<1>3. PICK v \in Volumes : vol = v /\ IniParams \in Settings(v)
  BY InvGives
<1>4. image \in ImageNames(v)
  BY <1>2, <1>3, SettingsAre, DefaultIs DEF UserImage
<1> QED  BY <1>1, <1>2, <1>3, <1>4, ToLoadKeeps DEF KeyPressed

LEMMA NoSelectionKeeps == ASSUME VolumesWritten, BiosInv, NoSelection PROVE BiosInv'
<1>1. PICK v \in Volumes : vol = v
  BY InvGives
<1>2. NoImage \in ImageNames(v)
  BY DefaultIs
<1> QED  BY <1>1, <1>2, ToLoadKeeps DEF NoSelection
(* While an image is read.                                                 *)
LEMMA ImageIs ==
  ASSUME VolumesWritten, BiosInv, stage \in ImageStages
  PROVE  \E v \in Volumes :
           /\ vol = v /\ fsFile = loading /\ loading \in DOMAIN v
           /\ \E f : /\ f = v[loading] /\ f # NoFile /\ ReadsIn(f) /\ ImageInv(f)
                     /\ IsImage(f.data) /\ FileForm(f)
<1>1. StageInv
  BY InvGives
<1>2. PICK v \in Volumes : vol = v /\ loading \in ImageNames(v)
  BY InvGives
<1>3. fsFile = loading /\ ReadInv
  BY <1>1 DEF StageInv, Busy
<1>4. PICK f : fsFile \in DOMAIN v /\ v[fsFile] = f /\ f # NoFile /\ ReadsIn(f)
  BY <1>2, <1>3 DEF ReadInv
<1>5. ImageInv(f)
  BY <1>1, <1>2, <1>3, <1>4 DEF StageInv
<1>6. IsImage(f.data)
  BY <1>2, <1>3, <1>4 DEF ImageNames
<1>7. FileForm(f)
  BY <1>4 DEF ReadsIn
<1> QED  BY <1>2, <1>3, <1>4, <1>5, <1>6, <1>7

LEMMA ImageStage ==
  ASSUME NEW v, vol' = v, fsFile' = loading', NEW f, loading' \in DOMAIN v, v[loading'] = f,
         f # NoFile, ReadsIn(f)', ImageInv(f)', stage' \in ImageStages \ {"opened"}
  PROVE  StageInv'
<1>1. ReadInv'
  BY DEF ReadInv
<1>2. \E w, h : vol' = w /\ w[loading'] = h /\ ImageInv(h)'
  OBVIOUS
<1> QED  BY <1>1, <1>2 DEF StageInv, ImageStages, Asking

LEMMA SameImage ==
  ASSUME DecoderTypeOK, OrderInv, stage \in ImageStages \cup {"loaded"},
         stage' \in ImageStages \cup {"loaded", "jumped"},
         UNCHANGED <<chosen, IniParams, untried, loading, vol, workHit>>,
         faults' >= faults, faults' \in 0 .. MaxFaults
  PROVE  OrderInv'
<1>1. PICK t \in Nat \ {0} : TriedSome(t) /\ loading = Order[t] /\ Excused(t - 1)
  BY DEF OrderInv
<1>2. TriedSome(t)' /\ Excused(t - 1)'
  BY <1>1, OrderKeeps
<1>3. loading' = Order'[t]
  BY <1>1 DEF Order
<1>4. stage' # "open"
  BY DEF ImageStages
<1> QED  BY <1>2, <1>3, <1>4 DEF OrderInv

LEMMA OpenImageKeeps == ASSUME VolumesWritten, BiosInv, OpenImage PROVE BiosInv'
<1>1. DecoderTypeOK /\ BiosTypeOK /\ OrderInv /\ stage = "open"
      /\ ready \in BOOLEAN /\ delay \in Nat
  BY InvGives DEF OpenImage
<1>2. PICK v \in Volumes :
              /\ vol = v /\ (fsFile # None => v[fsFile] # NoFile)
              /\ IniParams \in Settings(v) /\ chosen \in ImageNames(v)
              /\ untried \in Seq(ImageNames(v)) /\ ImageNames(v) \subseteq DOMAIN v
              /\ \A name \in DOMAIN v : v[name] # NoFile => WasWritten(v[name])
  BY InvGives
<1>3. PICK t \in Nat : TriedSome(t) /\ t < Len(Order) /\ Excused(t)
  BY <1>1 DEF OrderInv
<1>4. PICK u : u = untried
  OBVIOUS
<1>5. PICK I : I = ImageNames(v)
  OBVIOUS
<1>6. PICK O : O = Order
  OBVIOUS
<1>7. PICK L \in Nat : L = Len(O)
  <2>1. chosen \in I /\ IniParams.image \in I /\ IniParams.backup \in I
    BY <1>2, <1>5, SettingsAre
  <2>2. CASE chosen = NoImage
    <3>1. O = <<>> \o <<IniParams.image, IniParams.backup>>
      BY <1>6, <2>2 DEF Order
    <3> QED  BY <3>1
  <2>3. CASE chosen # NoImage
    <3>1. O = <<chosen>> \o <<IniParams.image, IniParams.backup>>
      BY <1>6, <2>3 DEF Order
    <3> QED  BY <3>1
  <2> QED  BY <2>2, <2>3
<1>8. /\ u \in Seq(I) /\ Len(u) = L - t /\ Len(u) \in Nat \ {0} /\ u # <<>>
      /\ \A i \in 1 .. Len(u) : u[i] = O[t + i]
  <2>1. Len(u) = L - t /\ \A i \in 1 .. Len(u) : u[i] = O[t + i]
    BY <1>3, <1>4, <1>6, <1>7 DEF TriedSome
  <2>2. t < L
    BY <1>3, <1>6, <1>7
  <2>3. Len(u) \in Nat \ {0}
    BY <2>1, <2>2
  <2>4. u \in Seq(I)
    BY <1>2, <1>4, <1>5
  <2>5. u # <<>>
    BY <2>3, <2>4, EmptySeq
  <2> QED  BY <2>1, <2>3, <2>4, <2>5
<1>9. PICK name : name = u[1] /\ name \in I /\ name = O[t + 1]
  <2>1. 1 \in 1 .. Len(u)
    BY <1>8
  <2> QED  BY <2>1, <1>8, ElementOfSeq
<1>10. PICK y : y = Tail(u) /\ y \in Seq(I) /\ Len(y) = L - (t + 1)
                /\ \A i \in 1 .. Len(y) : y[i] = O[t + 1 + i]
  <2>1. PICK y : y = Tail(u)
    OBVIOUS
  <2>2. y \in Seq(I) /\ Len(y) = Len(u) - 1 /\ \A i \in 1 .. Len(y) : y[i] = u[i + 1]
    BY <1>8, <2>1, HeadTailProperties
  <2>3. \A i \in 1 .. Len(y) : i + 1 \in 1 .. Len(u) /\ t + (i + 1) = t + 1 + i
    BY <1>8, <2>2
  <2>4. \A i \in 1 .. Len(y) : y[i] = O[t + 1 + i]
    BY <1>8, <2>2, <2>3
  <2>5. Len(y) = L - (t + 1)
    BY <1>8, <2>2
  <2> QED  BY <2>1, <2>2, <2>4, <2>5
<1>11. /\ loading' = name /\ untried' = y /\ ImgAddr' = 0
       /\ UNCHANGED <<ready, IniParams, delay, chosen, target, ram>>
       /\ \/ OpenWorks(name) /\ stage' = "opened"
          \/ OpenFails(name) /\ stage' = IF Len(u) = 1 THEN "halted" ELSE "open"
  BY <1>4, <1>9, <1>10 DEF OpenImage
<1>12. PICK f : f = v[name] /\ name \in DOMAIN v /\ (f # NoFile => WasWritten(f) /\ IsImage(f.data))
  BY <1>2, <1>5, <1>9 DEF ImageNames
<1>13. ASSUME vol' = v, DecoderTypeOK', fsFile' # None => v[fsFile'] # NoFile,
              stage' \in {"opened", "halted", "open"}
       PROVE  BootTypes'
  <2>1. target' \in Addresses \cup {0} /\ ImgAddr' \in Nat /\ DOMAIN ram' = Addresses
    BY <1>1, <1>11 DEF BiosTypeOK
  <2>2. IniParams' \in Settings(v) /\ chosen' \in ImageNames(v) /\ loading' \in ImageNames(v)
        /\ untried' \in Seq(ImageNames(v)) /\ stage' \in Stages
    BY <1>2, <1>5, <1>9, <1>10, <1>11, <1>13 DEF Stages
  <2> QED  BY <1>1, <1>11, <1>13, <2>1, <2>2, TypesAre
<1>14. TriedSome(t + 1)'
  <2>1. Order' = O
    BY <1>6, <1>11 DEF Order
  <2>2. t + 1 \in 0 .. L
    BY <1>8
  <2>3. /\ t + 1 \in 0 .. Len(O) /\ Len(y) = Len(O) - (t + 1)
        /\ \A i \in 1 .. Len(y) : y[i] = O[(t + 1) + i]
    BY <1>7, <1>10, <2>2
  <2> QED  BY <2>1, <2>3, <1>11 DEF TriedSome
<1>15. CASE OpenWorks(name) /\ stage' = "opened"
  <2>1. WasWritten(f) /\ f # NoFile
    BY <1>2, <1>12, <1>15 DEF OpenWorks
  <2>2. /\ DecoderTypeOK' /\ ReadInv' /\ vol' = v /\ fsFile' = name /\ workHit' = workHit
        /\ faults' = faults
        /\ need' = 0 /\ broke' = FALSE /\ place' = 0 /\ given' = <<>>
    BY <1>1, <1>2, <1>12, <1>15, <2>1, OpenWorksIs
  <2>3. BootTypes'
    BY <1>13, <1>12, <1>15, <2>1, <2>2
  <2>4. StageInv'
    <3>1. ImageInv(f)'
      BY <1>15, <2>1 DEF ImageInv
    <3>2. \E w, h : vol' = w /\ w[loading'] = h /\ ImageInv(h)'
      BY <1>11, <1>12, <2>2, <3>1
    <3> QED  BY <1>11, <1>15, <2>2, <3>2 DEF StageInv, Busy, ImageStages, Asking, Answered
  <2>5. OrderInv'
    <3>1. Excused(t)'
      <4>1. faults' >= faults /\ faults' \in 0 .. MaxFaults
        BY <1>1, <2>2, DecoderAssumption DEF DecoderTypeOK
      <4> QED  BY <4>1, <1>1, <1>2, <1>3, <1>11, <2>2, OrderKeeps
    <3>2. loading' = Order'[t + 1]
      BY <1>6, <1>9, <1>11 DEF Order
    <3>3. t + 1 \in Nat \ {0} /\ t + 1 - 1 = t
      OBVIOUS
    <3>4. Excused(t + 1 - 1)'
      BY <3>1, <3>3
    <3> QED  BY <1>14, <1>15, <3>2, <3>3, <3>4 DEF OrderInv
  <2> QED  BY <2>3, <2>4, <2>5 DEF BiosInv
<1>16. CASE OpenFails(name) /\ stage' = IF Len(u) = 1 THEN "halted" ELSE "open"
  <2>1. /\ DecoderTypeOK' /\ vol' = v /\ workHit' = workHit
        /\ fsFile' # None => v[fsFile'] # NoFile
        /\ need' = 0 /\ broke' = FALSE /\ faults' >= faults
        /\ f = NoFile \/ SizeOnDisk(f) = 0 \/ faults' > 0
    BY <1>1, <1>2, <1>12, <1>16, OpenFailsIs
  <2>2. BootTypes'
    BY <1>13, <1>16, <2>1
  <2>3. StageInv'
    BY <1>16, <2>1, QuietStage DEF Busy, ImageStages
  <2>4. Excused(t)'
    BY <1>1, <1>2, <1>3, <1>11, <2>1, OrderKeeps DEF DecoderTypeOK
  <2>5. Loadable(name)' => faults' > 0
    <3> SUFFICES ASSUME Loadable(name)', SizeOnDisk(f) = 0, f # NoFile PROVE FALSE
      BY <2>1, <1>12 DEF Loadable
    <3>1. f.whole /\ WasWritten(f) /\ IsImage(f.data)
      BY <2>1, <1>12 DEF Loadable
    <3>2. FileForm(f) /\ PlainForm(f)
      BY <3>1, FormIs DEF IsPacked
    <3>3. Len(f.data) = 0 /\ Len(f.data) \in Nat
      BY <3>1, <3>2 DEF PlainForm, FileForm, SizeOnDisk
    <3>4. 2 \in 2 .. Len(f.data)
      BY <3>1 DEF IsImage, Headers
    <3> QED  BY <3>3, <3>4
  <2>6. Excused(t + 1)'
    <3>1. Order' = O
      BY <1>6, <1>11 DEF Order
    <3> SUFFICES ASSUME NEW i \in 1 .. t + 1, NEW nm, nm = Order'[i], Loadable(nm)'
                 PROVE  faults' > 0
      BY DEF Excused
    <3>2. CASE i \in 1 .. t
      BY <2>4, <3>2 DEF Excused
    <3>3. CASE i = t + 1
      <4>1. nm = name
        BY <3>1, <3>3, <1>9
      <4> QED  BY <4>1, <2>5
    <3> QED  BY <3>2, <3>3
  <2>7. stage' = "open" => t + 1 < Len(Order')
    <3>1. Order' = O
      BY <1>6, <1>11 DEF Order
    <3>2. stage' = "open" => Len(u) # 1
      BY <1>16
    <3>3. Len(u) # 1 => t + 1 < L
      BY <1>8
    <3> QED  BY <3>1, <3>2, <3>3, <1>7
  <2>8. OrderInv'
    <3>1. stage' \notin ImageStages \cup {"loaded", "jumped"}
      BY <1>16 DEF ImageStages
    <3>2. t + 1 \in Nat
      OBVIOUS
    <3> QED  BY <1>14, <2>6, <2>7, <3>1, <3>2 DEF OrderInv
  <2> QED  BY <2>2, <2>3, <2>8 DEF BiosInv
<1> QED  BY <1>11, <1>15, <1>16
LEMMA HeadersAre ==
  ASSUME NEW d, IsImage(d), Len(d) \in Nat
  PROVE  /\ 2 \in Headers(d) /\ d[1].kind = "head" /\ Len(d) >= 2
         /\ \A p \in Headers(d) :
              /\ p \in Nat /\ p >= 2 /\ p <= Len(d) /\ d[p].kind \in {"record", "last"}
              /\ d[p].kind = "last" => p = Len(d) /\ d[p].start \in Nat
              /\ d[p].kind = "record" =>
                   /\ d[p].len \in Nat \ {0} /\ d[p].addr \in Addresses
                   /\ p + d[p].len + 1 \in Headers(d)
                   /\ \A r \in p + 1 .. p + d[p].len : d[r].kind # "record"
<1>1. 2 \in Headers(d) /\ d[1].kind = "head"
  BY DEF IsImage
<1>2. \A p \in Headers(d) : p \in Nat /\ p >= 2 /\ p <= Len(d) /\ d[p].kind \in {"record", "last"}
  BY DEF Headers
<1>3. Len(d) >= 2
  BY <1>1, <1>2
<1>4. \A p \in Headers(d) : d[p].kind = "last" => p = Len(d) /\ d[p].start \in Nat
  BY DEF IsImage
<1>5. ASSUME NEW p \in Headers(d), d[p].kind = "record"
      PROVE  /\ d[p].len \in Nat \ {0} /\ d[p].addr \in Addresses
             /\ p + d[p].len + 1 \in Headers(d)
             /\ \A r \in p + 1 .. p + d[p].len : d[r].kind # "record"
  <2>1. /\ d[p].len \in Nat \ {0} /\ d[p].addr \in Addresses
        /\ p + d[p].len + 1 \in Headers(d)
        /\ (p + 1 .. p + d[p].len) \cap Headers(d) = {}
    BY <1>5 DEF IsImage
  <2>2. PICK l \in Nat \ {0} : l = d[p].len
    BY <2>1
  <2>3. p \in Nat /\ p >= 2 /\ p + l + 1 <= Len(d)
    BY <1>2, <2>1, <2>2
  <2>4. ASSUME NEW r \in p + 1 .. p + l PROVE d[r].kind # "record"
    <3>1. r \in 2 .. Len(d)
      BY <2>3
    <3>2. r \notin Headers(d)
      BY <2>1, <2>2
    <3> QED  BY <3>1, <3>2 DEF Headers
  <2> QED  BY <2>1, <2>2, <2>4
<1> QED  BY <1>1, <1>2, <1>3, <1>4, <1>5

LEMMA AskHeaderKeeps == ASSUME VolumesWritten, BiosInv, AskHeader PROVE BiosInv'
<1>1. DecoderTypeOK /\ BootTypes /\ StageInv /\ OrderInv /\ stage = "opened"
      /\ ready \in BOOLEAN /\ delay \in Nat
  BY InvGives DEF AskHeader
<1>2. PICK v \in Volumes :
           /\ vol = v /\ fsFile = loading /\ loading \in DOMAIN v
           /\ \E f : /\ f = v[loading] /\ f # NoFile /\ ReadsIn(f) /\ ImageInv(f)
                     /\ IsImage(f.data) /\ FileForm(f)
  BY <1>1, ImageIs DEF ImageStages
<1>3. PICK f : /\ f = v[loading] /\ f # NoFile /\ ReadsIn(f) /\ ImageInv(f)
               /\ IsImage(f.data) /\ FileForm(f)
  BY <1>2
<1>4. Asks(1) /\ stage' = "image header" /\ UNCHANGED bootParams /\ UNCHANGED bin
  BY DEF AskHeader
<1>5. /\ UNCHANGED <<vol, fsFile, workHit, faults>> /\ need' = 1 /\ place' = place /\ DecoderTypeOK'
      /\ UNCHANGED <<ready, delay, IniParams, chosen, loading, untried, target, ImgAddr, ram>>
  BY <1>1, <1>4 DEF Asks, bin, bootParams, opened, block, DecoderTypeOK
<1>6. place = 0 /\ ~broke
  BY <1>1 DEF StageInv
<1>7. ReadsIn(f)'
  <2>1. Len(f.data) \in Nat /\ Len(f.data) >= 2
    BY <1>3, HeadersAre DEF FileForm
  <2>2. f.whole => place + 1 <= Len(f.data)
    BY <1>6, <2>1
  <2>3. 1 \in Nat
    OBVIOUS
  <2> QED  BY <1>1, <1>3, <1>4, <1>6, <2>2, <2>3, AsksReads
<1>8. BootTypes'
  BY <1>1, <1>2, <1>3, <1>4, <1>5, TypesKeep DEF Stages
<1>9. StageInv'
  <2>0. place' + need' = 1
    BY <1>5, <1>6
  <2>1. ImageInv(f)'
    BY <1>3, <1>4, <2>0 DEF ImageInv
  <2> QED  BY <1>2, <1>3, <1>4, <1>5, <1>7, <2>1, ImageStage DEF ImageStages
<1>10. OrderInv'
  <2>0. faults' = faults /\ faults \in 0 .. MaxFaults
    BY <1>1, <1>5 DEF DecoderTypeOK
  <2>1. faults' >= faults /\ faults' \in 0 .. MaxFaults
    BY <2>0, DecoderAssumption
  <2> QED  BY <1>1, <1>4, <1>5, <2>1, SameImage DEF ImageStages
<1> QED  BY <1>8, <1>9, <1>10 DEF BiosInv

LEMMA AskRecordKeeps == ASSUME VolumesWritten, BiosInv, AskRecord PROVE BiosInv'
<1>1. DecoderTypeOK /\ BootTypes /\ StageInv /\ OrderInv /\ stage = "image header"
      /\ ready \in BOOLEAN /\ delay \in Nat
  BY InvGives DEF AskRecord
<1>2. PICK v \in Volumes :
           /\ vol = v /\ fsFile = loading /\ loading \in DOMAIN v
           /\ \E f : /\ f = v[loading] /\ f # NoFile /\ ReadsIn(f) /\ ImageInv(f)
                     /\ IsImage(f.data) /\ FileForm(f)
  BY <1>1, ImageIs DEF ImageStages
<1>3. PICK f : /\ f = v[loading] /\ f # NoFile /\ ReadsIn(f) /\ ImageInv(f)
               /\ IsImage(f.data) /\ FileForm(f)
  BY <1>2
<1>4. Asks(1) /\ stage' = "record header" /\ UNCHANGED bootParams /\ UNCHANGED bin
      /\ need = 0 /\ ~broke
  BY DEF AskRecord, Answered
<1>5. /\ UNCHANGED <<vol, fsFile, workHit, faults>> /\ need' = 1 /\ place' = place /\ given' = <<>>
      /\ DecoderTypeOK'
      /\ UNCHANGED <<ready, delay, IniParams, chosen, loading, untried, target, ImgAddr, ram>>
  BY <1>1, <1>4 DEF Asks, bin, bootParams, opened, block, DecoderTypeOK
<1>6. place = 1
  <2>1. place + need = 1
    BY <1>1, <1>3 DEF ImageInv
  <2>2. place \in Nat /\ need = 0
    BY <1>1, <1>4 DEF DecoderTypeOK
  <2> QED  BY <2>1, <2>2
<1>7. Len(f.data) \in Nat /\ Len(f.data) >= 2 /\ 2 \in Headers(f.data) /\ f.data[1].kind = "head"
  BY <1>3, HeadersAre DEF FileForm
<1>8. ReadsIn(f)'
  <2>2. f.whole => place + 1 <= Len(f.data)
    BY <1>6, <1>7
  <2>3. 1 \in Nat
    OBVIOUS
  <2> QED  BY <1>1, <1>3, <1>4, <2>2, <2>3, AsksReads
<1>9. BootTypes'
  BY <1>1, <1>2, <1>3, <1>4, <1>5, TypesKeep DEF Stages
<1>10. StageInv'
  <2>1. Placed(f, 2)'
    <3>1. \A r \in 1 .. 2 - 1 : ~Latest(f.data, 2, r)
      BY <1>7 DEF Latest, IsRecord
    <3> QED  BY <3>1 DEF Placed
  <2>2. Len(given') + need' = 1 /\ place' + need' = 2
    BY <1>5, <1>6, EmptySeq
  <2>3. AtHeader(f)'
    BY <1>7, <2>1, <2>2 DEF AtHeader
  <2>4. ImageInv(f)'
    BY <1>3, <1>4, <2>3 DEF ImageInv
  <2> QED  BY <1>2, <1>3, <1>4, <1>5, <1>8, <2>4, ImageStage DEF ImageStages
<1>11. OrderInv'
  <2>0. faults' = faults /\ faults \in 0 .. MaxFaults
    BY <1>1, <1>5 DEF DecoderTypeOK
  <2>1. faults' >= faults /\ faults' \in 0 .. MaxFaults
    BY <2>0, DecoderAssumption
  <2> QED  BY <1>1, <1>4, <1>5, <2>1, SameImage DEF ImageStages
<1> QED  BY <1>9, <1>10, <1>11 DEF BiosInv

(* An image that cannot be read is given up, and the next one is tried.    *)
LEMMA GiveUpKeeps ==
  ASSUME VolumesWritten, BiosInv, stage \in ImageStages, broke, GiveUp,
         UNCHANGED bootParams, UNCHANGED decoderVars, UNCHANGED <<loading, target, ImgAddr>>,
         DOMAIN ram' = Addresses
  PROVE  BiosInv'
<1>1. DecoderTypeOK /\ BiosTypeOK /\ OrderInv /\ ready \in BOOLEAN /\ delay \in Nat
  BY InvGives
<1>2. PICK v \in Volumes :
           /\ vol = v /\ fsFile = loading /\ loading \in DOMAIN v
           /\ \E f : /\ f = v[loading] /\ f # NoFile /\ ReadsIn(f) /\ ImageInv(f)
                     /\ IsImage(f.data) /\ FileForm(f)
  BY ImageIs
<1>3. PICK f : f = v[loading] /\ ReadsIn(f)
  BY <1>2
<1>4. PICK w \in Volumes :
              /\ vol = w /\ (fsFile # None => w[fsFile] # NoFile)
              /\ IniParams \in Settings(w)
              /\ chosen \in ImageNames(w) /\ loading \in ImageNames(w)
              /\ untried \in Seq(ImageNames(w))
  BY InvGives
<1>5. /\ UNCHANGED <<vol, fsFile, workHit, faults, need, broke>> /\ DecoderTypeOK'
      /\ UNCHANGED <<ready, delay, IniParams, chosen, loading, untried, target, ImgAddr>>
      /\ stage' = IF untried = <<>> THEN "halted" ELSE "open"
  BY <1>1, DecoderStays DEF bootParams, GiveUp
<1>6. BootTypes'
  <2>1. stage' \in Stages /\ target' \in Addresses \cup {0} /\ ImgAddr' \in Nat
        /\ ready' \in BOOLEAN /\ delay' \in Nat
    BY <1>1, <1>5 DEF BiosTypeOK, Stages
  <2>2. /\ vol' = w /\ (fsFile' # None => w[fsFile'] # NoFile)
        /\ IniParams' \in Settings(w)
        /\ chosen' \in ImageNames(w) /\ loading' \in ImageNames(w)
        /\ untried' \in Seq(ImageNames(w))
    BY <1>4, <1>5
  <2> QED  BY <1>4, <1>5, <2>1, <2>2, TypesAre
<1>7. StageInv'
  BY <1>5, QuietStage DEF Busy, ImageStages
<1>8. OrderInv'
  <2>1. PICK t \in Nat \ {0} : TriedSome(t) /\ loading = Order[t] /\ Excused(t - 1)
    BY <1>1 DEF OrderInv
  <2>2. faults' = faults /\ faults' >= faults /\ faults' \in 0 .. MaxFaults
    BY <1>1, <1>5, DecoderAssumption DEF DecoderTypeOK
  <2>3. TriedSome(t)'
    BY <1>1, <1>5, <2>1, <2>2, OrderKeeps
  <2>4. Excused(t)
    <3> SUFFICES ASSUME NEW i \in 1 .. t, NEW nm, nm = Order[i], Loadable(nm)
                 PROVE  faults > 0
      BY DEF Excused
    <3>1. CASE i = t
      <4>1. f.whole /\ ~(workHit /\ IsPacked(f))
        BY <1>2, <1>3, <2>1, <3>1 DEF Loadable
      <4> QED  BY <4>1, <1>3 DEF ReadsIn
    <3>2. CASE i # t
      <4>1. i \in 1 .. t - 1
        BY <3>2
      <4> QED  BY <4>1, <2>1 DEF Excused
    <3> QED  BY <3>1, <3>2
  <2>5. Excused(t)'
    BY <1>1, <1>5, <2>2, <2>4, OrderKeeps
  <2>6. stage' = "open" => t < Len(Order')
    <3> SUFFICES ASSUME untried # <<>> PROVE t < Len(Order)
      BY <1>5 DEF Order
    <3>1. PICK u : u = untried
      OBVIOUS
    <3>2. Len(u) \in Nat \ {0}
      BY <1>4, <3>1, EmptySeq, LenProperties
    <3>3. t \in 0 .. Len(Order) /\ Len(u) = Len(Order) - t
      BY <2>1, <3>1 DEF TriedSome
    <3> QED  BY <3>2, <3>3
  <2>7. stage' \notin ImageStages \cup {"loaded", "jumped"}
    BY <1>5 DEF ImageStages
  <2> QED  BY <2>1, <2>3, <2>5, <2>6, <2>7 DEF OrderInv
<1> QED  BY <1>6, <1>7, <1>8 DEF BiosInv

LEMMA HeaderUnreadKeeps == ASSUME VolumesWritten, BiosInv, HeaderUnread PROVE BiosInv'
<1>1. BiosTypeOK
  BY InvGives
<1>2. DOMAIN ram' = Addresses /\ UNCHANGED <<loading, target, ImgAddr>>
  BY <1>1 DEF HeaderUnread, bin, BiosTypeOK
<1> QED  BY <1>2, GiveUpKeeps DEF HeaderUnread, ImageStages

LEMMA BodyFailsKeeps == ASSUME VolumesWritten, BiosInv, BodyFails PROVE BiosInv'
<1>1. BiosTypeOK
  BY InvGives
<1>2. DOMAIN ram' = Addresses /\ UNCHANGED <<loading, target, ImgAddr>>
  BY <1>1 DEF BodyFails, BiosTypeOK
<1> QED  BY <1>2, GiveUpKeeps DEF BodyFails, ImageStages
(* A header of the image, or the zeros behind the end of a cut off one.    *)
LEMMA ItemIs ==
  ASSUME DecoderTypeOK, NEW f, vol[fsFile] = f, ReadsIn(f), IsImage(f.data), FileForm(f),
         AtHeader(f), need = 0
  PROVE  \E p \in Headers(f.data) :
           /\ place = p /\ Placed(f, p)
           /\ \/ Item = f.data[p] /\ (f.whole \/ p # Len(f.data))
              \/ ~f.whole /\ Item = LastHeader(0)
<1>1. PICK p \in Headers(f.data) :
        Len(given) + need = 1 /\ place + need = p /\ Placed(f, p)
  BY DEF AtHeader
<1>2. PICK w : given = w /\ \E o \in Nat : place = o + Len(w) /\ CellsTrue(f, o, w)
  BY DEF ReadsIn, HasGiven
<1>3. PICK o \in Nat : place = o + Len(w) /\ CellsTrue(f, o, w)
  BY <1>2
<1>4. p \in Nat /\ p >= 2
  BY HeadersAre DEF FileForm
<1>5. Len(w) \in Nat /\ place \in Nat
  BY <1>3, LenProperties DEF CellsTrue, DecoderTypeOK
<1>6. Len(w) = 1
  BY <1>1, <1>2, <1>5
<1>7. place = p /\ o = p - 1 /\ o # 0
  BY <1>1, <1>3, <1>4, <1>5, <1>6
<1>8. TrueCell(f, o, w[1])
  <2>1. 1 \in 1 .. Len(w) /\ o + 1 - 1 = o
    BY <1>6
  <2>2. TrueCell(f, o + 1 - 1, w[1])
    BY <1>3, <2>1 DEF CellsTrue
  <2> QED  BY <2>1, <2>2
<1>9. CASE w[1] = Byte(o) /\ (f.whole \/ o + 1 # Len(f.data))
  <2>1. given[1] # Zero
    <3>1. DOMAIN Byte(o) = {"offset"} /\ DOMAIN Zero = {"zero"}
      BY DEF Byte, Zero
    <3> QED  BY <1>2, <1>9, <3>1
  <2>2. given[1].offset = o
    BY <1>2, <1>9 DEF Byte
  <2>3. Item = f.data[o + 1]
    BY <2>1, <2>2 DEF Item, File
  <2>4. o + 1 = p
    BY <1>4, <1>7
  <2> QED  BY <1>1, <1>7, <1>9, <2>3, <2>4
<1>10. CASE ~f.whole /\ w[1] = Zero
  <2>1. Item = LastHeader(0)
    BY <1>2, <1>10 DEF Item
  <2> QED  BY <1>1, <1>7, <1>10, <2>1
<1> QED  BY <1>7, <1>8, <1>9, <1>10 DEF TrueCell

LEMMA LastRecordKeeps == ASSUME VolumesWritten, BiosInv, LastRecord PROVE BiosInv'
<1>1. DecoderTypeOK /\ BiosTypeOK /\ OrderInv /\ stage = "record header"
      /\ ready \in BOOLEAN /\ delay \in Nat
  BY InvGives DEF LastRecord
<1>2. PICK v \in Volumes :
           /\ vol = v /\ fsFile = loading /\ loading \in DOMAIN v
           /\ \E f : /\ f = v[loading] /\ f # NoFile /\ ReadsIn(f) /\ ImageInv(f)
                     /\ IsImage(f.data) /\ FileForm(f)
  BY <1>1, ImageIs DEF ImageStages
<1>3. PICK f : /\ f = v[loading] /\ f # NoFile /\ ReadsIn(f) /\ ImageInv(f)
               /\ IsImage(f.data) /\ FileForm(f)
  BY <1>2
<1>4. /\ need = 0 /\ Item.kind = "last" /\ ImgAddr' = Item.start /\ CeCompressCloseFile
      /\ stage' = "loaded" /\ UNCHANGED <<loading, target, ram>>
      /\ UNCHANGED <<ready, delay, IniParams, chosen, untried>>
  BY DEF LastRecord, Answered, bootParams
<1>5. AtHeader(f)
  BY <1>1, <1>3 DEF ImageInv
<1>6. PICK p \in Headers(f.data) :
           /\ place = p /\ Placed(f, p)
           /\ \/ Item = f.data[p] /\ (f.whole \/ p # Len(f.data))
              \/ ~f.whole /\ Item = LastHeader(0)
  BY <1>1, <1>2, <1>3, <1>4, <1>5, ItemIs
<1>7. ImgAddr' \in Nat /\ (ImgAddr' # 0 => Whole(f)')
  <2>1. CASE Item = f.data[p] /\ (f.whole \/ p # Len(f.data))
    <3>1. p = Len(f.data) /\ f.data[p].start \in Nat
      BY <1>3, <1>4, <2>1, HeadersAre DEF FileForm
    <3>2. f.whole /\ ImgAddr' = f.data[Len(f.data)].start
      BY <1>4, <2>1, <3>1
    <3>3. Placed(f, Len(f.data))'
      BY <1>4, <1>6, <3>1 DEF Placed
    <3> QED  BY <3>1, <3>2, <3>3 DEF Whole
  <2>2. CASE ~f.whole /\ Item = LastHeader(0)
    BY <1>4, <2>2 DEF LastHeader
  <2> QED  BY <1>6, <2>1, <2>2
<1>8. DecoderTypeOK' /\ fsFile' = None /\ need' = 0 /\ UNCHANGED <<vol, workHit, faults>>
  BY <1>1, <1>4, CloseIs
<1>9. BootTypes'
  <2>1. PICK w \in Volumes :
              /\ vol = w
              /\ IniParams \in Settings(w)
              /\ chosen \in ImageNames(w) /\ loading \in ImageNames(w)
              /\ untried \in Seq(ImageNames(w))
    BY InvGives
  <2>2. target' \in Addresses \cup {0} /\ DOMAIN ram' = Addresses /\ stage' \in Stages
    BY <1>1, <1>4 DEF BiosTypeOK, Stages
  <2>3. /\ vol' = w /\ fsFile' = None /\ IniParams' \in Settings(w)
        /\ chosen' \in ImageNames(w) /\ loading' \in ImageNames(w)
        /\ untried' \in Seq(ImageNames(w)) /\ ready' \in BOOLEAN /\ delay' \in Nat
    BY <1>1, <1>4, <1>8, <2>1
  <2> QED  BY <1>7, <1>8, <2>2, <2>3, TypesAre
<1>10. StageInv'
  <2>1. ImageInv(f)'
    BY <1>3, <1>4, <1>7 DEF ImageInv
  <2>2. \E w, h : vol' = w /\ w[loading'] = h /\ ImageInv(h)'
    BY <1>2, <1>3, <1>4, <1>8, <2>1
  <2> QED  BY <1>4, <1>8, <2>2 DEF StageInv, Busy, ImageStages, Asking, Answered
<1>11. OrderInv'
  <2>0. faults' = faults /\ faults \in 0 .. MaxFaults
    BY <1>1, <1>8 DEF DecoderTypeOK
  <2>1. faults' >= faults /\ faults' \in 0 .. MaxFaults
    BY <2>0, DecoderAssumption
  <2> QED  BY <1>1, <1>4, <1>8, <2>1, SameImage DEF ImageStages
<1> QED  BY <1>9, <1>10, <1>11 DEF BiosInv

LEMMA JumpToImageKeeps == ASSUME VolumesWritten, BiosInv, JumpToImage PROVE BiosInv'
<1>1. DecoderTypeOK /\ BootTypes /\ StageInv /\ OrderInv /\ stage = "loaded"
      /\ ready \in BOOLEAN /\ delay \in Nat
  BY InvGives DEF JumpToImage
<1>2. PICK v : vol = v /\ (fsFile # None => v[fsFile] # NoFile)
  BY InvGives
<1>3. PICK f : v[loading] = f /\ ImageInv(f)
  BY <1>1, <1>2 DEF StageInv
<1>4. /\ stage' = IF ImgAddr # 0 THEN "jumped" ELSE "halted"
      /\ UNCHANGED <<ready, delay, IniParams, chosen, loading, untried, target, ImgAddr, ram>>
      /\ UNCHANGED <<vol, fsFile, workHit, faults, need, broke>> /\ DecoderTypeOK'
  BY <1>1, DecoderStays DEF JumpToImage, HasAddress, bootParams, bin
<1>5. need' = 0 \/ broke'
  BY <1>1, <1>4 DEF StageInv, Asking, Answered
<1>6. BootTypes'
  BY <1>1, <1>2, <1>4, TypesKeep DEF Stages
<1>7. CASE ImgAddr # 0
  <2>1. stage' = "jumped"
    BY <1>4, <1>7
  <2>2. Whole(f)
    BY <1>1, <1>3, <1>7 DEF ImageInv
  <2>3. ImageInv(f)'
    <3>1. Whole(f)'
      BY <1>4, <2>2 DEF Whole, Placed
    <3> QED  BY <1>3, <2>1, <3>1 DEF ImageInv
  <2>4. StageInv'
    <3>1. \E w, h : vol' = w /\ w[loading'] = h /\ ImageInv(h)'
      BY <1>2, <1>3, <1>4, <2>3
    <3> QED  BY <1>5, <2>1, <3>1 DEF StageInv, Busy, ImageStages, Asking, Answered
  <2>5. OrderInv'
    <3>0. faults' = faults /\ faults \in 0 .. MaxFaults
      BY <1>1, <1>4 DEF DecoderTypeOK
    <3>1. faults' >= faults /\ faults' \in 0 .. MaxFaults
      BY <3>0, DecoderAssumption
    <3> QED  BY <1>1, <1>4, <2>1, <3>1, SameImage
  <2> QED  BY <1>6, <2>4, <2>5 DEF BiosInv
<1>8. CASE ~(ImgAddr # 0)
  <2>1. stage' = "halted"
    BY <1>4, <1>8
  <2>2. StageInv'
    BY <1>5, <2>1, QuietStage DEF Busy, ImageStages
  <2>3. OrderInv'
    BY <2>1, NoOrderYet DEF ImageStages
  <2> QED  BY <1>6, <2>2, <2>3 DEF BiosInv
<1> QED  BY <1>7, <1>8

LEMMA AskBodyKeeps == ASSUME VolumesWritten, BiosInv, AskBody PROVE BiosInv'
<1>1. DecoderTypeOK /\ BiosTypeOK /\ OrderInv /\ stage = "record header"
      /\ ready \in BOOLEAN /\ delay \in Nat
  BY InvGives DEF AskBody
<1>2. PICK v \in Volumes :
           /\ vol = v /\ fsFile = loading /\ loading \in DOMAIN v
           /\ \E f : /\ f = v[loading] /\ f # NoFile /\ ReadsIn(f) /\ ImageInv(f)
                     /\ IsImage(f.data) /\ FileForm(f)
  BY <1>1, ImageIs DEF ImageStages
<1>3. PICK f : /\ f = v[loading] /\ f # NoFile /\ ReadsIn(f) /\ ImageInv(f)
               /\ IsImage(f.data) /\ FileForm(f)
  BY <1>2
<1>4. /\ need = 0 /\ ~broke /\ Item.kind = "record" /\ target' = Item.addr /\ Asks(Item.len)
      /\ stage' = "body" /\ UNCHANGED <<loading, ImgAddr, ram>>
      /\ UNCHANGED <<ready, delay, IniParams, chosen, untried>>
  BY DEF AskBody, Answered, bootParams
<1>5. AtHeader(f)
  BY <1>1, <1>3 DEF ImageInv
<1>6. PICK p \in Headers(f.data) : place = p /\ Placed(f, p) /\ Item = f.data[p]
  <2>1. PICK p \in Headers(f.data) :
           /\ place = p /\ Placed(f, p)
           /\ \/ Item = f.data[p] /\ (f.whole \/ p # Len(f.data))
              \/ ~f.whole /\ Item = LastHeader(0)
    BY <1>1, <1>2, <1>3, <1>4, <1>5, ItemIs
  <2>2. Item # LastHeader(0)
    BY <1>4 DEF LastHeader
  <2> QED  BY <2>1, <2>2
<1>7. PICK n \in Nat \ {0} :
        /\ n = Item.len /\ n = f.data[p].len /\ IsRecord(f.data, p)
        /\ target' = f.data[p].addr /\ target' \in Addresses
        /\ p \in Nat /\ p + n + 1 <= Len(f.data) /\ Len(f.data) \in Nat
  <2>1. Len(f.data) \in Nat /\ f.data[p].kind = "record"
    BY <1>3, <1>4, <1>6 DEF FileForm
  <2>2. /\ f.data[p].len \in Nat \ {0} /\ f.data[p].addr \in Addresses
        /\ p + f.data[p].len + 1 \in Headers(f.data)
    BY <1>3, <2>1, HeadersAre
  <2>3. p \in Nat /\ p + f.data[p].len + 1 <= Len(f.data)
    BY <1>3, <2>1, <2>2, HeadersAre
  <2> QED  BY <1>4, <1>6, <2>1, <2>2, <2>3 DEF IsRecord
<1>8. /\ UNCHANGED <<vol, fsFile, workHit, faults>> /\ need' = n /\ place' = p /\ given' = <<>>
      /\ DecoderTypeOK' /\ Asks(n)
  <2>1. Asks(n)
    BY <1>4, <1>7
  <2> QED  BY <1>1, <1>6, <2>1 DEF Asks, opened, block, DecoderTypeOK
<1>9. ReadsIn(f)'
  <2>1. f.whole => place + n <= Len(f.data)
    BY <1>6, <1>7
  <2>2. n \in Nat
    BY <1>7
  <2> QED  BY <1>1, <1>3, <1>4, <1>8, <2>1, <2>2, AsksReads
<1>10. BootTypes'
  <2>1. PICK w \in Volumes :
              /\ vol = w /\ (fsFile # None => w[fsFile] # NoFile)
              /\ IniParams \in Settings(w)
              /\ chosen \in ImageNames(w) /\ loading \in ImageNames(w)
              /\ untried \in Seq(ImageNames(w))
    BY InvGives
  <2>2. target' \in Addresses \cup {0} /\ DOMAIN ram' = Addresses /\ stage' \in Stages
        /\ ImgAddr' \in Nat
    BY <1>1, <1>4, <1>7 DEF BiosTypeOK, Stages
  <2>3. /\ vol' = w /\ (fsFile' # None => w[fsFile'] # NoFile) /\ IniParams' \in Settings(w)
        /\ chosen' \in ImageNames(w) /\ loading' \in ImageNames(w)
        /\ untried' \in Seq(ImageNames(w)) /\ ready' \in BOOLEAN /\ delay' \in Nat
    BY <1>1, <1>4, <1>8, <2>1
  <2> QED  BY <1>8, <2>2, <2>3, TypesAre
<1>11. StageInv'
  <2>1. place' + need' = p + f.data[p].len /\ Len(given') + need' = f.data[p].len
    BY <1>7, <1>8, EmptySeq
  <2>2. Placed(f, p)'
    BY <1>4, <1>6 DEF Placed
  <2>3. InBody(f)'
    BY <1>7, <2>1, <2>2 DEF InBody
  <2>4. ImageInv(f)'
    BY <1>3, <1>4, <2>3 DEF ImageInv
  <2> QED  BY <1>2, <1>3, <1>4, <1>8, <1>9, <2>4, ImageStage DEF ImageStages
<1>12. OrderInv'
  <2>0. faults' = faults /\ faults \in 0 .. MaxFaults
    BY <1>1, <1>8 DEF DecoderTypeOK
  <2>1. faults' >= faults /\ faults' \in 0 .. MaxFaults
    BY <2>0, DecoderAssumption
  <2> QED  BY <1>1, <1>4, <1>8, <2>1, SameImage DEF ImageStages
<1> QED  BY <1>10, <1>11, <1>12 DEF BiosInv
(* A whole body that was delivered is that of the record it was asked for. *)
LEMMA DeliveredIs ==
  ASSUME NEW f, vol[fsFile] = f, f.whole, Len(f.data) \in Nat, NEW p \in Nat \ {0}, p < Len(f.data),
         NEW w, given = w, CellsTrue(f, p, w),
         IsRecord(f.data, p), f.data[p].len = Len(w), Len(w) > 0
  PROVE  Delivered = [image |-> loading, record |-> p]
<1>1. PICK n \in Nat \ {0} : n = Len(w)
  BY LenProperties DEF CellsTrue
<1>2. PICK N \in Nat : N = Len(f.data)
  OBVIOUS
<1>3. \A i \in 1 .. n : w[i] = Byte(p + i - 1)
  BY <1>1 DEF CellsTrue, TrueCell
<1>4. PICK B : B = BodyRecords
  OBVIOUS
<1>5. p \in B
  <2>1. p \in 1 .. N /\ f.data[p].kind = "record" /\ f.data[p].len = n
    BY <1>1, <1>2 DEF IsRecord
  <2> QED  BY <2>1, <1>1, <1>2, <1>3, <1>4 DEF BodyRecords, File
<1>6. ASSUME NEW r \in B PROVE r = p
  <2>1. r \in 1 .. N /\ \A i \in 1 .. n : w[i] = Byte(r + i - 1)
    BY <1>1, <1>2, <1>4 DEF BodyRecords, File
  <2>2. 1 \in 1 .. n /\ p + 1 - 1 = p /\ r + 1 - 1 = r
    BY <2>1
  <2>3. Byte(r) = Byte(p)
    BY <1>3, <2>1, <2>2
  <2> QED  BY <2>3 DEF Byte
<1>7. B # {} /\ (CHOOSE r \in B : TRUE) = p
  BY <1>5, <1>6
<1> QED  BY <1>4, <1>7 DEF Delivered

LEMMA RecordBodyKeeps == ASSUME VolumesWritten, BiosInv, RecordBody PROVE BiosInv'
<1>1. DecoderTypeOK /\ BiosTypeOK /\ OrderInv /\ stage = "body"
      /\ ready \in BOOLEAN /\ delay \in Nat
  BY InvGives DEF RecordBody
<1>2. PICK v \in Volumes :
           /\ vol = v /\ fsFile = loading /\ loading \in DOMAIN v
           /\ \E f : /\ f = v[loading] /\ f # NoFile /\ ReadsIn(f) /\ ImageInv(f)
                     /\ IsImage(f.data) /\ FileForm(f)
  BY <1>1, ImageIs DEF ImageStages
<1>3. PICK f : /\ f = v[loading] /\ f # NoFile /\ ReadsIn(f) /\ ImageInv(f)
               /\ IsImage(f.data) /\ FileForm(f)
  BY <1>2
<1>4. /\ need = 0 /\ ~broke /\ ram' = [ram EXCEPT ![target] = Delivered] /\ Asks(1)
      /\ stage' = "record header" /\ UNCHANGED <<loading, ImgAddr, target>>
      /\ UNCHANGED <<ready, delay, IniParams, chosen, untried>>
  BY DEF RecordBody, Answered, bootParams
<1>5. PICK p \in Headers(f.data) :
    /\ IsRecord(f.data, p) /\ target = f.data[p].addr
    /\ place + need = p + f.data[p].len /\ Len(given) + need = f.data[p].len
    /\ Placed(f, p)
  BY <1>1, <1>3 DEF ImageInv, InBody
<1>6. PICK N \in Nat : N = Len(f.data)
  BY <1>3 DEF FileForm
<1>7. PICK n \in Nat \ {0} :
        /\ n = f.data[p].len /\ f.data[p].addr \in Addresses /\ p \in Nat /\ p >= 2
        /\ p + n + 1 \in Headers(f.data)
        /\ \A r \in p + 1 .. p + n : ~IsRecord(f.data, r)
  <2>1. /\ p \in Nat /\ p >= 2
        /\ f.data[p].len \in Nat \ {0} /\ f.data[p].addr \in Addresses
        /\ p + f.data[p].len + 1 \in Headers(f.data)
        /\ \A r \in p + 1 .. p + f.data[p].len : f.data[r].kind # "record"
    BY <1>3, <1>5, <1>6, HeadersAre DEF IsRecord
  <2> QED  BY <2>1 DEF IsRecord
<1>8. p + n + 1 <= N /\ p + n + 1 \in Nat
  BY <1>3, <1>6, <1>7, HeadersAre
<1>9. PICK w : given = w /\ \E o \in Nat : place = o + Len(w) /\ CellsTrue(f, o, w)
  BY <1>3 DEF ReadsIn, HasGiven
<1>10. PICK o \in Nat : place = o + Len(w) /\ CellsTrue(f, o, w)
  BY <1>9
<1>11. Len(w) = n /\ place = p + n /\ o = p
  <2>1. Len(w) \in Nat /\ place \in Nat
    BY <1>1, <1>10, LenProperties DEF CellsTrue, DecoderTypeOK
  <2>2. Len(w) + 0 = n /\ place + 0 = p + n
    BY <1>4, <1>5, <1>7, <1>9
  <2> QED  BY <2>1, <2>2, <1>7, <1>10, SMTT(30)
<1>12. f.whole => Delivered = [image |-> loading, record |-> p]
  <2> SUFFICES ASSUME f.whole PROVE Delivered = [image |-> loading, record |-> p]
    OBVIOUS
  <2>1. p \in Nat \ {0} /\ p < Len(f.data) /\ Len(f.data) \in Nat /\ Len(w) > 0
        /\ f.data[p].len = Len(w) /\ CellsTrue(f, p, w)
    BY <1>6, <1>7, <1>8, <1>10, <1>11
  <2> QED  BY <2>1, <1>2, <1>3, <1>5, <1>9, DeliveredIs
<1>0. PICK q \in Nat : q = p + n + 1
  BY <1>8
<1>13. Placed(f, q)'
  <2>0. q - 1 = p + n
    BY <1>0, <1>7
  <2>00. loading' = loading
    BY <1>4
  <2> SUFFICES ASSUME f.whole, NEW r \in 1 .. q - 1, Latest(f.data, q, r)
               PROVE  ram'[f.data[r].addr] = [image |-> loading, record |-> r]
    BY <2>00 DEF Placed
  <2>1. IsRecord(f.data, r) /\ \A s \in r + 1 .. q - 1 :
          ~(IsRecord(f.data, s) /\ f.data[s].addr = f.data[r].addr)
    BY DEF Latest
  <2>2. CASE r < p
    <3>1. p \in r + 1 .. q - 1 /\ r \in 1 .. p - 1
      BY <1>7, <2>0, <2>2
    <3>2. f.data[p].addr # f.data[r].addr
      BY <1>5, <2>1, <3>1
    <3>3. Latest(f.data, p, r)
      <4>1. \A s \in r + 1 .. p - 1 : s \in r + 1 .. q - 1
        BY <1>7, <2>0
      <4> QED  BY <2>1, <4>1 DEF Latest
    <3>4. ram[f.data[r].addr] = [image |-> loading, record |-> r]
      BY <3>1, <3>3, <1>5 DEF Placed
    <3>5. ram'[f.data[r].addr] = ram[f.data[r].addr]
      <4>1. f.data[r].addr # target
        BY <1>5, <3>2
      <4>2. f.data[r].addr \in DOMAIN ram
        <5>1. r \in Headers(f.data)
          <6>1. r \in 2 .. N
            <7>1. r # 1
              BY <2>1, <1>3, <1>6, HeadersAre DEF IsRecord
            <7> QED  BY <7>1, <1>7, <1>8, <2>0
          <6> QED  BY <6>1, <2>1, <1>6 DEF Headers, IsRecord
        <5>2. f.data[r].addr \in Addresses
          BY <5>1, <2>1, <1>3, <1>6, HeadersAre DEF IsRecord
        <5> QED  BY <5>2, <1>1 DEF BiosTypeOK
      <4> QED  BY <4>1, <4>2, <1>4
    <3> QED  BY <3>4, <3>5
  <2>3. CASE r = p
    <3>1. target \in DOMAIN ram
      BY <1>1, <1>5, <1>7 DEF BiosTypeOK
    <3> QED  BY <2>3, <3>1, <1>4, <1>5, <1>12
  <2>4. CASE r > p
    <3>1. r \in p + 1 .. p + n
      BY <2>0, <2>4, <1>7
    <3> QED  BY <3>1, <2>1, <1>7
  <2>5. r \in Int /\ p \in Int
    BY <1>7, <2>0
  <2> QED  BY <2>2, <2>3, <2>4, <2>5
<1>14. /\ UNCHANGED <<vol, fsFile, workHit, faults>> /\ need' = 1 /\ place' = p + n /\ given' = <<>>
       /\ DecoderTypeOK'
  BY <1>1, <1>4, <1>11 DEF Asks, opened, block, DecoderTypeOK
<1>15. ReadsIn(f)'
  <2>1. f.whole => place + 1 <= Len(f.data)
    BY <1>6, <1>8, <1>11
  <2>2. 1 \in Nat
    OBVIOUS
  <2> QED  BY <1>1, <1>3, <1>4, <2>1, <2>2, AsksReads
<1>16. BootTypes'
  <2>1. PICK x \in Volumes :
              /\ vol = x /\ (fsFile # None => x[fsFile] # NoFile)
              /\ IniParams \in Settings(x)
              /\ chosen \in ImageNames(x) /\ loading \in ImageNames(x)
              /\ untried \in Seq(ImageNames(x))
    BY InvGives
  <2>2. target' \in Addresses \cup {0} /\ DOMAIN ram' = Addresses /\ stage' \in Stages
        /\ ImgAddr' \in Nat
    BY <1>1, <1>4 DEF BiosTypeOK, Stages
  <2>3. /\ vol' = x /\ (fsFile' # None => x[fsFile'] # NoFile) /\ IniParams' \in Settings(x)
        /\ chosen' \in ImageNames(x) /\ loading' \in ImageNames(x)
        /\ untried' \in Seq(ImageNames(x)) /\ ready' \in BOOLEAN /\ delay' \in Nat
    BY <1>1, <1>4, <1>14, <2>1
  <2> QED  BY <1>14, <2>2, <2>3, TypesAre
<1>17. StageInv'
  <2>1. Len(given') + need' = 1 /\ place' + need' = q
    BY <1>0, <1>14, EmptySeq
  <2>2. AtHeader(f)'
    BY <1>0, <1>7, <1>13, <2>1 DEF AtHeader
  <2>3. ImageInv(f)'
    BY <1>3, <1>4, <2>2 DEF ImageInv
  <2> QED  BY <1>2, <1>3, <1>4, <1>14, <1>15, <2>3, ImageStage DEF ImageStages
<1>18. OrderInv'
  <2>0. faults' = faults /\ faults \in 0 .. MaxFaults
    BY <1>1, <1>14 DEF DecoderTypeOK
  <2>1. faults' >= faults /\ faults' \in 0 .. MaxFaults
    BY <2>0, DecoderAssumption
  <2> QED  BY <1>1, <1>4, <1>14, <2>1, SameImage DEF ImageStages
<1> QED  BY <1>16, <1>17, <1>18 DEF BiosInv

LEMMA ReadKeeps == ASSUME VolumesWritten, BiosInv, Read PROVE BiosInv'
<1>1. DecoderTypeOK /\ BootTypes /\ StageInv /\ OrderInv /\ ready \in BOOLEAN /\ delay \in Nat
      /\ stage \in Stages
  BY InvGives
<1>2. DecoderStep /\ stage' = stage
      /\ UNCHANGED <<ready, delay, IniParams, chosen, loading, untried, target, ImgAddr, ram>>
  BY DEF Read, bootParams, bin
<1>3. stage \in Asking
  <2>1. ~Answered
    BY <1>2 DEF DecoderStep, ReadPlain, ReadPlainFails, TakeFromBlock, NextBlock, BlockUnread,
                BlockUndecoded, NeedsBlock
  <2> QED  BY <2>1, <1>1 DEF StageInv
<1>4. PICK v : vol = v /\ (fsFile # None => v[fsFile] # NoFile)
  BY InvGives
<1>5. PICK f : fsFile \in DOMAIN v /\ v[fsFile] = f /\ f # NoFile /\ ReadsIn(f)
  BY <1>1, <1>3, <1>4 DEF StageInv, ReadInv, Busy, ImageStages, Asking
<1>6. ReadsIn(f)' /\ Moved(f) /\ DecoderTypeOK'
  BY <1>1, <1>2, <1>4, <1>5, StepKeeps
<1>7. /\ place' + need' = place + need /\ Len(given') + need' = Len(given) + need
  BY <1>1, <1>5, <1>6, GivenGrows DEF ReadsIn
<1>8. vol' = v /\ fsFile' = fsFile /\ workHit' = workHit
      /\ faults' >= faults /\ faults' \in 0 .. MaxFaults
  BY <1>4, <1>6 DEF Moved
<1>9. BootTypes'
  BY <1>1, <1>2, <1>4, <1>6, <1>8, TypesKeep
<1>10. CASE stage = "splash read"
  <2>1. ReadInv'
    BY <1>5, <1>6, <1>8 DEF ReadInv
  <2>2. StageInv'
    BY <1>2, <1>10, <2>1 DEF StageInv, Busy, ImageStages, Asking
  <2>3. OrderInv'
    BY <1>2, <1>10, NoOrderYet DEF ImageStages
  <2> QED  BY <1>9, <2>2, <2>3 DEF BiosInv
<1>11. CASE stage # "splash read"
  <2>1. stage \in ImageStages \ {"opened"}
    BY <1>3, <1>11 DEF Asking, ImageStages
  <2>2. fsFile = loading /\ ImageInv(f)
    BY <1>1, <1>4, <1>5, <2>1 DEF StageInv
  <2>3. ImageInv(f)'
    <3>1. stage' = "image header" => place' + need' = 1
      BY <1>2, <1>7, <2>2 DEF ImageInv
    <3>2. AtHeader(f) => AtHeader(f)'
      BY <1>2, <1>7 DEF AtHeader, Placed
    <3>3. InBody(f) => InBody(f)'
      BY <1>2, <1>7 DEF InBody, Placed
    <3> QED  BY <1>2, <2>1, <2>2, <3>1, <3>2, <3>3 DEF ImageInv, ImageStages
  <2>4. StageInv'
    BY <1>2, <1>5, <1>6, <1>8, <2>1, <2>2, <2>3, ImageStage
  <2>5. OrderInv'
    BY <1>1, <1>2, <1>4, <1>8, <2>1, SameImage
  <2> QED  BY <1>9, <2>4, <2>5 DEF BiosInv
<1> QED  BY <1>10, <1>11
LEMMA BiosInvNext ==
  ASSUME VolumesWritten, BiosInv, [BiosNext]_biosVars PROVE BiosInv'
<1>1. CASE OpenSplash("splash.bmx", "splash plain") \/ OpenSplash("splash.bmp", "keys")
  <2>1. /\ "splash.bmx" \in {"splash.bmx", "splash.bmp"} /\ "splash plain" \in {"splash plain", "keys"}
        /\ "splash.bmp" \in {"splash.bmx", "splash.bmp"} /\ "keys" \in {"splash plain", "keys"}
    OBVIOUS
  <2> QED  BY <1>1, <2>1, OpenSplashKeeps
<1>2. CASE UNCHANGED biosVars
  <2>1. /\ UNCHANGED <<stage, ready, IniParams, delay, chosen, untried, loading, target, ram, ImgAddr>>
        /\ UNCHANGED <<vol, fsFile, fsPos, originalFileLength, compressedFile, originalData,
                       originalDataBytesLeft, originalDataPos, need, broke, given, place,
                       workHit, faults>>
    BY <1>2, DecoderStays DEF biosVars, bootParams, bin
  <2>2. BootTypes'
    BY <2>1 DEF BiosInv, BootTypes, BiosTypeOK, DecoderTypeOK
  <2>3. StageInv'
    <3>1. \A f : HasGiven(f) => HasGiven(f)'
      BY <2>1 DEF HasGiven
    <3>2. \A f : InPlain(f) => InPlain(f)'
      BY <2>1 DEF InPlain
    <3>3. \A f : InPacked(f) => InPacked(f)'
      BY <2>1 DEF InPacked, BehindAll, BehindBlock
    <3>4. \A f : ReadsIn(f) => ReadsIn(f)'
      BY <2>1, <3>1, <3>2, <3>3 DEF ReadsIn
    <3>5. ReadInv => ReadInv'
      BY <2>1, <3>4 DEF ReadInv
    <3>6. \A f : ImageInv(f) => ImageInv(f)'
      <4> SUFFICES ASSUME NEW f, ImageInv(f) PROVE ImageInv(f)'
        OBVIOUS
      <4>1. \A p : Placed(f, p) => Placed(f, p)'
        BY <2>1 DEF Placed
      <4>2. AtHeader(f) => AtHeader(f)'
        BY <2>1, <4>1 DEF AtHeader
      <4>3. InBody(f) => InBody(f)'
        BY <2>1, <4>1 DEF InBody
      <4>4. Whole(f) => Whole(f)'
        BY <2>1, <4>1 DEF Whole
      <4> QED  BY <2>1, <4>2, <4>3, <4>4 DEF ImageInv
    <3>7. \A f : SplashInv(f) => SplashInv(f)'
      BY <2>1 DEF SplashInv
    <3> QED  BY <2>1, <3>5, <3>6, <3>7 DEF BiosInv, StageInv, Answered, IniInv
  <2>4. OrderInv'
    <3>1. Order' = Order
      BY <2>1 DEF Order
    <3>2. \A t : TriedSome(t) => TriedSome(t)'
      BY <2>1, <3>1 DEF TriedSome
    <3>3. \A t : Excused(t) => Excused(t)'
      BY <2>1, <3>1 DEF Excused, Loadable
    <3> QED  BY <2>1, <3>1, <3>2, <3>3 DEF BiosInv, OrderInv
  <2> QED  BY <2>2, <2>3, <2>4 DEF BiosInv
<1> QED
  BY <1>1, <1>2, CopyDataSectionsKeeps, CeCompressInitKeeps, OpenIniKeeps, ReadIniKeeps,
     NoSplashKeeps, SplashTooLongKeeps, AskSplashKeeps, SplashReadKeeps, KeyPressedKeeps,
     NoSelectionKeeps, PollAgainKeeps, OpenImageKeeps, AskHeaderKeeps, AskRecordKeeps,
     HeaderUnreadKeeps, LastRecordKeeps, AskBodyKeeps, RecordBodyKeeps, BodyFailsKeeps,
     JumpToImageKeeps, ReadKeeps
  DEF BiosNext, BiosStep

(* The last of some records.                                               *)
LEMMA LastOne ==
  ASSUME NEW n \in Nat, NEW S \in SUBSET (1 .. n), S # {}
  PROVE  \E r \in S : IsLastOf(S, r)
<1>1. PICK T : T = {n - r : r \in S}
  OBVIOUS
<1>2. T \in SUBSET Nat /\ T # {}
  <2>1. \A r \in S : n - r \in Nat
    OBVIOUS
  <2> QED  BY <1>1, <2>1
<1>3. PICK x \in T : \A y \in T : x <= y
  BY <1>2, LeastElement
<1>4. PICK r \in S : x = n - r
  BY <1>1, <1>3
<1>5. \A q \in S : q <= r
  <2> SUFFICES ASSUME NEW q \in S PROVE q <= r
    OBVIOUS
  <2>1. n - q \in T
    BY <1>1
  <2>2. n - r <= n - q /\ q \in Int /\ r \in Int
    BY <1>3, <1>4, <2>1
  <2> QED  BY <2>2
<1> QED  BY <1>5 DEF IsLastOf

LEMMA TriedIs ==
  ASSUME NEW t \in Nat \ {0}, t <= Len(Order), Len(Order) \in Nat, loading = Order[t], DOMAIN Order = 1 .. Len(Order)
  PROVE  \A i \in DOMAIN Tried : i \in 1 .. t - 1 /\ Tried[i] = Order[i]
<1>1. PICK O : O = Order
  OBVIOUS
<1>2. PICK L \in Nat : L = Len(O)
  BY <1>1
<1>3. PICK T \in SUBSET Nat : T = {k \in 1 .. L : O[k] = loading}
  <2>1. {k \in 1 .. L : O[k] = loading} \in SUBSET Nat
    OBVIOUS
  <2> QED  BY <2>1
<1>4. t \in T
  BY <1>1, <1>2, <1>3
<1>5. PICK m \in T : \A k \in T : m <= k
  BY <1>4, LeastElement
<1>6. m \in DOMAIN O /\ O[m] = loading /\ \A j \in 1 .. m - 1 : O[j] # loading
  <2>1. m \in 1 .. L /\ O[m] = loading
    BY <1>3
  <2>2. ASSUME NEW j \in 1 .. m - 1 PROVE O[j] # loading
    <3>1. j \in 1 .. L /\ ~(m <= j)
      BY <2>1
    <3>2. j \notin T
      BY <3>1, <1>5
    <3> QED  BY <3>1, <3>2, <1>3
  <2> QED  BY <2>1, <2>2, <1>1, <1>2
<1>7. PICK first : first = CHOOSE k \in DOMAIN O :
                             O[k] = loading /\ \A j \in 1 .. k - 1 : O[j] # loading
  OBVIOUS
<1>8. first \in DOMAIN O /\ O[first] = loading /\ \A j \in 1 .. first - 1 : O[j] # loading
  BY <1>6, <1>7
<1>9. first \in 1 .. L /\ first <= t
  <2>1. first \in 1 .. L
    BY <1>1, <1>2, <1>8
  <2>2. ~(t \in 1 .. first - 1)
    BY <1>1, <1>8
  <2> QED  BY <2>1, <2>2
<1>10. Tried = SubSeq(O, 1, first - 1)
  BY <1>1, <1>7 DEF Tried
<1>11. PICK h \in Int : h = first - 1 /\ h >= 0 /\ h <= t - 1
  BY <1>9
<1>12. DOMAIN SubSeq(O, 1, h) = 1 .. h /\ \A i \in 1 .. h : SubSeq(O, 1, h)[i] = O[i]
  <2>1. PICK S : S = {O[i] : i \in 1 .. L}
    OBVIOUS
  <2>2. \A i \in 1 .. h : O[i] \in S
    BY <1>9, <1>11, <2>1
  <2>3. /\ SubSeq(O, 1, h) \in Seq(S)
        /\ Len(SubSeq(O, 1, h)) = IF 1 <= h THEN h - 1 + 1 ELSE 0
        /\ \A i \in 1 .. h - 1 + 1 : SubSeq(O, 1, h)[i] = O[1 + i - 1]
    <3>1. 1 \in Int /\ h \in Int
      OBVIOUS
    <3> QED  BY <2>2, <3>1, SubSeqProperties
  <2>4. Len(SubSeq(O, 1, h)) = h /\ DOMAIN SubSeq(O, 1, h) = 1 .. h
    BY <1>11, <2>3
  <2>5. h - 1 + 1 = h /\ \A i \in 1 .. h : 1 + i - 1 = i
    OBVIOUS
  <2> QED  BY <2>3, <2>4, <2>5
<1> QED  BY <1>1, <1>10, <1>11, <1>12

LEMMA BiosInvGives == ASSUME VolumesWritten, BiosInv PROVE BootsRight
<1>1. BiosTypeOK /\ StageInv /\ OrderInv
  BY InvGives
<1>2. ASSUME stage = "jumped"
      PROVE  LET f == vol[loading]
             IN  /\ f.whole /\ ImgAddr = f.data[Len(f.data)].start
                 /\ \A a \in Addresses : RecordsAt(f, a) # {} =>
                      /\ ram[a].image = loading
                      /\ IsLastOf(RecordsAt(f, a), ram[a].record)
                 /\ \A i \in DOMAIN Tried : Loadable(Tried[i]) => faults > 0
  <2>1. PICK v \in Volumes :
          /\ vol = v /\ loading \in ImageNames(v) /\ chosen \in ImageNames(v)
          /\ IniParams \in Settings(v)
          /\ \A name \in DOMAIN v : v[name] # NoFile => WasWritten(v[name])
          /\ loading \in DOMAIN v
    <3>1. PICK v \in Volumes :
              /\ vol = v /\ IniParams \in Settings(v)
              /\ chosen \in ImageNames(v) /\ loading \in ImageNames(v)
              /\ ImageNames(v) \subseteq DOMAIN v
              /\ \A name \in DOMAIN v : v[name] # NoFile => WasWritten(v[name])
      BY InvGives
    <3>2. loading \in DOMAIN v
      BY <3>1
    <3> QED  BY <3>1, <3>2
  <2>2. PICK f : v[loading] = f /\ f # NoFile /\ Whole(f)
    BY <1>1, <1>2, <2>1 DEF StageInv, ImageInv
  <2>3. IsImage(f.data)
    BY <2>1, <2>2 DEF ImageNames
  <2>4. PICK N \in Nat : N = Len(f.data)
    BY <2>1, <2>2 DEF WasWritten
  <2>5. ASSUME NEW a \in Addresses, RecordsAt(f, a) # {}
        PROVE  ram[a].image = loading /\ IsLastOf(RecordsAt(f, a), ram[a].record)
    <3>1. PICK R : R = RecordsAt(f, a)
      OBVIOUS
    <3>2. R = {r \in 1 .. N : f.data[r].kind = "record" /\ f.data[r].addr = a}
      BY <2>4, <3>1 DEF RecordsAt
    <3>3. R \in SUBSET (1 .. N) /\ R # {}
      BY <2>5, <3>1, <3>2
    <3>4. PICK r \in R : IsLastOf(R, r)
      BY <3>3, LastOne
    <3>5. r \in 1 .. N /\ f.data[r].kind = "record" /\ f.data[r].addr = a
      BY <3>2
    <3>6. r # N
      <4> SUFFICES ASSUME r = N PROVE FALSE
        OBVIOUS
      <4>1. N >= 2 /\ N \in Headers(f.data)
        BY <2>3, <2>4, <3>5, HeadersAre DEF Headers
      <4>2. f.data[N].len \in Nat \ {0} /\ N + f.data[N].len + 1 \in Headers(f.data)
        BY <2>3, <2>4, <3>5, <4>1, HeadersAre
      <4>3. N + f.data[N].len + 1 <= N
        BY <2>3, <2>4, <4>2, HeadersAre
      <4> QED  BY <4>2, <4>3
    <3>7. Latest(f.data, N, r)
      <4>1. ASSUME NEW s \in r + 1 .. N - 1, IsRecord(f.data, s), f.data[s].addr = f.data[r].addr
            PROVE  FALSE
        <5>1. s \in R
          BY <4>1, <3>2, <3>5 DEF IsRecord
        <5>2. s <= r
          BY <5>1, <3>4 DEF IsLastOf
        <5> QED  BY <5>2, <3>5
      <4> QED  BY <4>1, <3>5 DEF Latest, IsRecord
    <3>8. r \in 1 .. N - 1
      BY <3>5, <3>6
    <3>9. ram[a] = [image |-> loading, record |-> r]
      BY <2>2, <2>4, <3>5, <3>7, <3>8 DEF Whole, Placed
    <3> QED  BY <3>1, <3>4, <3>9
  <2>6. ASSUME NEW i \in DOMAIN Tried, Loadable(Tried[i]) PROVE faults > 0
    <3>1. PICK t \in Nat \ {0} : TriedSome(t) /\ loading = Order[t] /\ Excused(t - 1)
      BY <1>1, <1>2 DEF OrderInv
    <3>2. Len(Order) \in Nat /\ DOMAIN Order = 1 .. Len(Order)
      <4>1. CASE chosen = NoImage
        <5>1. Order = <<>> \o <<IniParams.image, IniParams.backup>>
          BY <4>1 DEF Order
        <5> QED  BY <5>1
      <4>2. CASE chosen # NoImage
        <5>1. Order = <<chosen>> \o <<IniParams.image, IniParams.backup>>
          BY <4>2 DEF Order
        <5> QED  BY <5>1
      <4> QED  BY <4>1, <4>2
    <3>3. t <= Len(Order)
      BY <3>1, <3>2 DEF TriedSome
    <3>4. i \in 1 .. t - 1 /\ Tried[i] = Order[i]
      BY <2>6, <3>1, <3>2, <3>3, TriedIs
    <3>5. Loadable(Order[i])
      BY <2>6, <3>4
    <3>6. PICK nm : nm = Order[i]
      OBVIOUS
    <3>7. Loadable(nm)
      BY <3>5, <3>6
    <3> QED  BY <3>1, <3>4, <3>6, <3>7 DEF Excused
  <2> QED  BY <2>1, <2>2, <2>5, <2>6 DEF Whole
<1> QED  BY <1>1, <1>2 DEF BootsRight

(* THEOREM: whatever the disk holds of files as they were written, or the  *)
(* beginnings of them, the BIOS loader jumps only to an image that is      *)
(* whole in memory, and skips one that could be loaded only for a read     *)
(* that failed.                                                            *)
THEOREM BootsRightHolds == ASSUME VolumesWritten PROVE BiosSpec => []BootsRight
<1>1. BiosInit => BiosInv
  BY BiosInvInit
<1>2. BiosInv /\ [BiosNext]_biosVars => BiosInv'
  BY BiosInvNext
<1>3. BiosInv => BootsRight
  BY BiosInvGives
<1> QED  BY <1>1, <1>2, <1>3, PTL DEF BiosSpec
-----------------------------------------------------------------------------
(* What is read, as a stream.                                              *)

SizeSeen == IF Sound THEN Len(File.data) ELSE 0
PlaceSeen == IF Sound THEN place ELSE 0
GivenSeen == IF Sound THEN Handed ELSE <<>>

LEMMA HandedNone ==
  /\ given = <<>> => Handed = <<>>
  /\ given' = <<>> => Handed' = <<>>
<1>1. ASSUME NEW w, w = <<>> PROVE [i \in 1 .. Len(w) |-> w[i].offset] = <<>>
  <2>1. Len(w) = 0
    BY <1>1, EmptySeq
  <2>2. PICK s : s = [i \in 1 .. Len(w) |-> w[i].offset]
    OBVIOUS
  <2>3. s = [i \in 1 .. 0 |-> w[i].offset]
    BY <2>1, <2>2
  <2>4. 0 \in Nat /\ \A i \in 1 .. 0 : w[i].offset \in {}
    OBVIOUS
  <2>5. s \in Seq({}) /\ Len(s) = 0
    BY <2>3, <2>4, IsASeq
  <2>6. s = <<>>
    BY <2>5, EmptySeq
  <2> QED  BY <2>2, <2>6
<1> QED  BY <1>1 DEF Handed

LEMMA CallStarts ==
  ASSUME VolumesWritten, BiosInv', given' = <<>>, place' = 0
  PROVE  Stream!Start
<1>1. SizeSeen' \in Nat
  <2>1. PICK v \in Volumes : vol' = v /\ (fsFile' # None => v[fsFile'] # NoFile)
    BY DEF BiosInv, BootTypes
  <2>2. fsFile' \in DOMAIN v \cup {None}
    BY <2>1 DEF BiosInv, BootTypes, BiosTypeOK, DecoderTypeOK
  <2>3. \A name \in DOMAIN v : v[name] # NoFile => WasWritten(v[name])
    BY DEF VolumesWritten
  <2>4. ASSUME Sound' PROVE Len(File.data)' \in Nat
    <3>1. fsFile' \in DOMAIN v /\ v[fsFile'] # NoFile
      BY <2>1, <2>2, <2>4 DEF Sound
    <3> QED  BY <2>1, <2>3, <3>1 DEF WasWritten, File
  <2> QED  BY <2>4 DEF SizeSeen
<1>2. Handed' = <<>>
  BY HandedNone
<1> QED  BY <1>1, <1>2 DEF Stream!Start, SizeSeen

LEMMA AskGoesOn ==
  ASSUME NEW n, Asks(n)
  PROVE  Stream!Ask /\ SizeSeen' = SizeSeen
<1>1. given' = <<>> /\ UNCHANGED <<vol, fsFile, place>>
  BY DEF Asks, opened
<1>2. Handed' = <<>> /\ Sound' = Sound /\ File' = File
  BY <1>1, HandedNone DEF Sound, File
<1> QED  BY <1>1, <1>2 DEF Stream!Ask, SizeSeen

LEMMA StillSeen ==
  ASSUME UNCHANGED <<vol, fsFile, place, given>>
  PROVE  UNCHANGED Stream!vars
<1>1. Handed' = Handed /\ Sound' = Sound /\ File' = File
  BY DEF Handed, Sound, File
<1> QED  BY <1>1 DEF Stream!vars

LEMMA HandedGrows ==
  ASSUME NEW f, f.whole, NEW o \in Nat, NEW w, CellsTrue(f, o, w), NEW u \in Seq(AnyCell),
         given = u, given' = u \o w, NEW n \in Nat, n = Len(w)
  PROVE  Handed' = Handed \o Stream!From(o, n)
<1>1. w = Bytes(o, n)
  BY WholeIsTrue
<1>2. w \in Seq(AnyCell)
  BY DEF CellsTrue
<1>3. PICK a \in Nat : a = Len(u)
  BY LenProperties
<1>4. PICK x : x = u \o w
  OBVIOUS
<1>5. x \in Seq(AnyCell) /\ Joined(x, u, w)
  BY <1>2, <1>4, ConcatIs
<1>6. /\ Len(x) = a + n /\ \A i \in 1 .. a : x[i] = u[i]
      /\ \A i \in 1 .. n : x[a + i] = w[i]
  BY <1>3, <1>5 DEF Joined
<1>7. PICK S : S = {u[i].offset : i \in 1 .. a} \cup Nat
  OBVIOUS
<1>8. PICK h : h = [i \in 1 .. a |-> u[i].offset]
  OBVIOUS
<1>9. h \in Seq(S) /\ Len(h) = a /\ Handed = h
  <2>1. \A i \in 1 .. a : u[i].offset \in S
    BY <1>7
  <2>2. h \in Seq(S) /\ Len(h) = a
    BY <1>8, <2>1, IsASeq
  <2> QED  BY <1>3, <1>8, <2>2 DEF Handed
<1>10. PICK t : t = Stream!From(o, n)
  OBVIOUS
<1>11. t \in Seq(S) /\ Len(t) = n /\ \A i \in 1 .. n : t[i] = o + i - 1
  <2>1. t = [i \in 1 .. n |-> o + i - 1]
    BY <1>10 DEF Stream!From
  <2>2. \A i \in 1 .. n : o + i - 1 \in S
    BY <1>7
  <2>3. t \in Seq(S) /\ Len(t) = n
    BY <2>1, <2>2, IsASeq
  <2> QED  BY <2>1, <2>3
<1>12. PICK y : y = h \o t
  OBVIOUS
<1>13. y \in Seq(S) /\ Joined(y, h, t)
  BY <1>9, <1>11, <1>12, ConcatIs
<1>14. /\ Len(y) = a + n /\ \A i \in 1 .. a : y[i] = h[i]
       /\ \A i \in 1 .. n : y[a + i] = t[i]
  BY <1>9, <1>11, <1>13 DEF Joined
<1>15. PICK z : z = [i \in 1 .. a + n |-> x[i].offset]
  OBVIOUS
<1>16. ASSUME NEW i \in 1 .. a + n PROVE x[i].offset = y[i]
  <2>1. CASE i <= a
    <3>1. i \in 1 .. a
      BY <2>1
    <3> QED  BY <3>1, <1>6, <1>8, <1>14
  <2>2. CASE ~(i <= a)
    <3>1. PICK j \in 1 .. n : i = a + j
      <4>1. i - a \in 1 .. n /\ i = a + (i - a)
        BY <2>2
      <4> QED  BY <4>1
    <3>2. x[i] = w[j] /\ y[i] = o + j - 1
      BY <3>1, <1>6, <1>11, <1>14
    <3>3. w[j] = Byte(o + j - 1)
      BY <3>1, <1>1, BytesAre
    <3> QED  BY <3>2, <3>3 DEF Byte
  <2> QED  BY <2>1, <2>2
<1>17. z \in Seq(S) /\ Len(z) = a + n /\ \A i \in 1 .. a + n : z[i] = y[i]
  <2>1. \A i \in 1 .. Len(y) : y[i] \in S
    BY <1>13, ElementOfSeq
  <2>2. \A i \in 1 .. a + n : x[i].offset \in S
    BY <2>1, <1>14, <1>16
  <2>3. a + n \in Nat
    OBVIOUS
  <2>4. z \in Seq(S) /\ Len(z) = a + n
    BY <1>15, <2>2, <2>3, IsASeq
  <2> QED  BY <1>15, <1>16, <2>4
<1>18. z = y
  BY <1>13, <1>14, <1>17, SeqEqual
<1>19. Handed' = z
  BY <1>4, <1>6, <1>15 DEF Handed
<1> QED  BY <1>9, <1>10, <1>12, <1>18, <1>19

LEMMA ReadStreams ==
  ASSUME NEW f, vol[fsFile] = f, ReadsIn(f), DecoderTypeOK, DecoderStep
  PROVE  (Stream!Give /\ SizeSeen' = SizeSeen) \/ UNCHANGED Stream!vars
<1>1. Moved(f)
  BY StepKeeps
<1>2. CASE given' = given /\ place' = place /\ need' = need
  BY <1>1, <1>2, StillSeen DEF Moved
<1>3. CASE \E w : /\ given' = given \o w /\ place' = place + Len(w) /\ need' = need - Len(w)
                  /\ Len(w) \in 1 .. need /\ CellsTrue(f, place, w)
  <2>1. PICK w : /\ given' = given \o w /\ place' = place + Len(w)
                 /\ Len(w) \in 1 .. need /\ CellsTrue(f, place, w)
    BY <1>3
  <2>2. Sound' = Sound /\ File' = File /\ File = f
    BY <1>1 DEF Moved, Sound, File
  <2>3. CASE ~Sound
    BY <2>2, <2>3 DEF Stream!vars
  <2>4. CASE Sound
    <3>1. f.whole
      BY <2>2, <2>4 DEF Sound
    <3>2. PICK n \in Nat, o \in Nat, k \in Nat : n = Len(w) /\ o = place /\ k = need
      BY <2>1 DEF DecoderTypeOK
    <3>3. n \in 1 .. Len(f.data) - o
      <4>1. o + k <= Len(f.data) /\ Len(f.data) \in Nat /\ n \in 1 .. k
        BY <2>1, <3>1, <3>2 DEF ReadsIn, FileForm
      <4> QED  BY <4>1
    <3>4. PICK u \in Seq(AnyCell) : given = u
      BY DEF ReadsIn, HasGiven, CellsTrue
    <3>5. Handed' = Handed \o Stream!From(o, n)
      BY <2>1, <3>1, <3>2, <3>4, HandedGrows
    <3>6. \E i \in 1 .. SizeSeen - PlaceSeen :
            /\ GivenSeen' = GivenSeen \o Stream!From(PlaceSeen, i)
            /\ PlaceSeen' = PlaceSeen + i
      BY <2>1, <2>2, <2>4, <3>2, <3>3, <3>5 DEF SizeSeen, PlaceSeen, GivenSeen
    <3>7. SizeSeen' = SizeSeen
      BY <2>2 DEF SizeSeen
    <3> QED  BY <3>6, <3>7 DEF Stream!Give, Stream!From, SizeSeen, PlaceSeen, GivenSeen
  <2> QED  BY <2>3, <2>4
<1> QED  BY <1>1, <1>2, <1>3 DEF Moved
LEMMA StepStreams ==
  ASSUME VolumesWritten, BiosInv, BiosInv', [BiosNext]_biosVars
  PROVE  [Stream!Next]_(Stream!vars)
<1>1. DecoderTypeOK /\ StageInv
  BY InvGives
<1>2. CASE OpenIni \/ ReadIni \/ OpenSplash("splash.bmx", "splash plain")
           \/ OpenSplash("splash.bmp", "keys") \/ SplashRead \/ OpenImage \/ LastRecord
  <2>1. given' = <<>> /\ place' = 0
    <3>1. ASSUME NEW name, OpenWorks(name) \/ OpenFails(name) PROVE given' = <<>> /\ place' = 0
      BY <3>1 DEF OpenWorks, OpenFails, NotFound, OpenEmpty, SignatureUnread, NoCall
    <3>2. CeCompressCloseFile => given' = <<>> /\ place' = 0
      BY DEF CeCompressCloseFile, NoCall
    <3> QED
      BY <1>2, <3>1, <3>2
      DEF OpenIni, ReadIni, OpenSplash, SplashRead, OpenImage, LastRecord, NoCall
  <2> QED  BY <2>1, CallStarts DEF Stream!Next
<1>3. CASE AskSplash \/ AskHeader \/ AskRecord \/ AskBody \/ RecordBody
  <2>1. \E n : Asks(n)
    BY <1>3 DEF AskSplash, AskHeader, AskRecord, AskBody, RecordBody
  <2>2. Stream!Ask /\ SizeSeen' = SizeSeen
    BY <2>1, AskGoesOn
  <2> QED  BY <2>2 DEF Stream!Next, SizeSeen
<1>4. CASE Read
  <2>1. DecoderStep
    BY <1>4 DEF Read
  <2>2. stage \in Asking
    <3>1. ~Answered
      BY <2>1 DEF DecoderStep, ReadPlain, ReadPlainFails, TakeFromBlock, NextBlock, BlockUnread,
                  BlockUndecoded, NeedsBlock
    <3> QED  BY <3>1, <1>1 DEF StageInv
  <2>3. PICK v, f : vol = v /\ v[fsFile] = f /\ ReadsIn(f)
    BY <1>1, <2>2 DEF StageInv, ReadInv, Busy, ImageStages, Asking
  <2>4. (Stream!Give /\ SizeSeen' = SizeSeen) \/ UNCHANGED Stream!vars
    BY <1>1, <2>1, <2>3, ReadStreams
  <2> QED  BY <2>4 DEF Stream!Next, SizeSeen
<1>5. CASE UNCHANGED decoderVars
  <2>1. UNCHANGED <<vol, fsFile, place, given>>
    BY <1>5, DecoderStays
  <2>2. UNCHANGED Stream!vars
    BY <2>1, StillSeen
  <2> QED  BY <2>2
<1>6. CASE UNCHANGED biosVars
  <2>1. UNCHANGED decoderVars
    BY <1>6 DEF biosVars
  <2> QED  BY <2>1, <1>5
<1>7. CASE \/ CopyDataSections \/ CeCompressInit \/ NoSplash \/ SplashTooLong \/ KeyPressed
           \/ NoSelection \/ PollAgain \/ HeaderUnread \/ BodyFails \/ JumpToImage
  <2>1. UNCHANGED decoderVars
    BY <1>7 DEF CopyDataSections, CeCompressInit, NoSplash, SplashTooLong, KeyPressed,
                NoSelection, PollAgain, HeaderUnread, BodyFails, JumpToImage
  <2> QED  BY <2>1, <1>5
<1> QED  BY <1>2, <1>3, <1>4, <1>6, <1>7 DEF BiosNext, BiosStep

(* THEOREM: what the decoder hands out of a whole file, plain or packed in *)
(* blocks of any size, is the file's content byte by byte: the decoder     *)
(* implements the stream.                                                  *)
THEOREM ReadsThrough == ASSUME VolumesWritten PROVE BiosSpec => DecoderSpec
<1>1. BiosInit => Stream!Init
  BY DEF BiosInit, DecoderInit, Stream!Init, Sound
<1>2. BiosInit => BiosInv
  BY BiosInvInit
<1>3. BiosInv /\ [BiosNext]_biosVars => BiosInv'
  BY BiosInvNext
<1>4. BiosInv /\ BiosInv' /\ [BiosNext]_biosVars => [Stream!Next]_(Stream!vars)
  BY StepStreams
<1> QED  BY <1>1, <1>2, <1>3, <1>4, PTL DEF BiosSpec, DecoderSpec, Stream!Spec
=============================================================================
