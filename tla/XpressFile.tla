----------------------------- MODULE XpressFile -----------------------------
(***************************************************************************)
(* The files bincompress writes and the BIOS loader reads (bc.h): the      *)
(* signature, the length of the original, then block after block, each     *)
(* with a head that tells its length on disk and has two flags.  The       *)
(* compressor itself (cecompress) is external: it makes one to MaxBlock    *)
(* cells of a block, from all of which the block can be had again.         *)
(*                                                                         *)
(* A cell stands for a byte of the original, for a number the tool writes, *)
(* or for a byte of a compressed block.  Bytes of the original are named   *)
(* by their offset.                                                        *)
(***************************************************************************)
EXTENDS Integers, Sequences

CONSTANT MaxBlock     \* CECOMPRESS_MAX_BLOCK

ASSUME BlockAssumption == MaxBlock \in Nat \ {0}

Lesser(a, b) == IF a <= b THEN a ELSE b

Byte(k) == [offset |-> k]
Bytes(k, n) == [i \in 1 .. n |-> Byte(k + i - 1)]
Signature == [signature |-> "XPRS"]
Length(n) == [length |-> n]

(* Part i of the m cells the compressor makes of block b.                  *)
Encoded(b, m) == [i \in 1 .. m |-> [block |-> b, part |-> i, of |-> m]]
IsEncoded(c) == DOMAIN c = {"block", "part", "of"}

Failed == <<>>

(* CeCompressDecode: the block, when all of it is there.                   *)
Decoded(cells) ==
  LET c == cells[1]
  IN  IF cells # <<>> /\ IsEncoded(c) /\ cells = Encoded(c.block, c.of)
      THEN c.block ELSE Failed

(* A block as the file holds it, of which the compressor made m cells.  It *)
(* is stored as it is when that is no gain.                                *)
Stored(b, m) == m >= Len(b)

BlockHead(b, m, last) ==
  [size |-> IF Stored(b, m) THEN Len(b) ELSE m, stored |-> Stored(b, m),
   partial |-> last]

BlockCells(b, m, last) ==
  <<BlockHead(b, m, last)>> \o (IF last THEN <<Length(Len(b))>> ELSE <<>>)
    \o (IF Stored(b, m) THEN b ELSE Encoded(b, m))

(* The whole file for an original of n bytes; made[k] is what the          *)
(* compressor made of block k.                                             *)
NumBlocks(n) == (n + MaxBlock - 1) \div MaxBlock
BlockOf(n, k) == Bytes((k - 1) * MaxBlock, Lesser(MaxBlock, n - (k - 1) * MaxBlock))
FileHead(n) == <<Signature, Length(n)>>

Packed(n, made) ==
  LET upTo[k \in 0 .. NumBlocks(n)] ==
        IF k = 0 THEN FileHead(n)
        ELSE upTo[k - 1] \o BlockCells(BlockOf(n, k), made[k], k = NumBlocks(n))
  IN  upTo[NumBlocks(n)]
=============================================================================
