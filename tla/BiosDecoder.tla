---------------------------- MODULE BiosDecoder ----------------------------
(***************************************************************************)
(* The file access of the BIOS loader (biosloader/loader/Fixed/Main/       *)
(* decoder.c; the floppy loader has the same text): plain files and files  *)
(* packed by bincompress, through one interface, over the FAT reader.  The *)
(* FAT reader is what FatReader promises: a read delivers the next bytes   *)
(* of the one open file, within its clusters, or fails.                    *)
(***************************************************************************)
EXTENDS XpressFile

CONSTANTS
  Volumes,       \* by file name: [data, cells, slack, ...], or NoFile.  data is
                 \*   the content unpacked, cells what is on the disk
  NoFile,
  MaxFaults      \* bound: reads of the disk that fail

ASSUME DecoderAssumption == MaxFaults \in Nat

VARIABLES
  vol,
  fsFile, fsPos,                \* g_FileInfo: the file, bytes read from it
  originalFileLength, compressedFile,
  originalData,                 \* the block unpacked last
  originalDataBytesLeft, originalDataPos,
  need,                         \* Length: bytes still to be delivered
  broke,                        \* the call returned FALSE
  given,                        \* the bytes it delivered
  place,                        \* history: bytes delivered since the file was opened
  workHit,                      \* the decoder's work area was written over
  faults                        \* reads that failed

opened == <<fsFile, originalFileLength, compressedFile>>
block == <<originalData, originalDataBytesLeft, originalDataPos>>
call == <<need, broke, given, place>>
decoderVars == <<vol, opened, fsPos, block, call, workHit, faults>>

None == "none"
Zero == [zero |-> TRUE]     \* a cell behind a file's end, in its last cluster
File == vol[fsFile]
SizeOnDisk(f) == Len(f.cells)

DecoderInit ==
  /\ vol \in Volumes
  /\ fsFile = None /\ fsPos = 0
  /\ originalFileLength = 0 /\ compressedFile = FALSE
  /\ originalData = <<>> /\ originalDataBytesLeft = 0 /\ originalDataPos = 0
  /\ need = 0 /\ broke = FALSE /\ given = <<>> /\ place = 0
  /\ workHit = FALSE /\ faults = 0

-----------------------------------------------------------------------------
(* The FAT reader.                                                         *)
Fault == faults < MaxFaults /\ faults' = faults + 1
NoFault == faults' = faults

InClusters(n) == n <= SizeOnDisk(File) + File.slack
Cell(i) == IF i <= SizeOnDisk(File) THEN File.cells[i] ELSE Zero
CellsAt(k, n) == [i \in 1 .. n |-> Cell(k + i)]

(* FSReadFile of n bytes; none of a request for nothing.                   *)
FSReads(n) == n > 0 /\ InClusters(fsPos + n) /\ NoFault
FSReadFails(n) == Fault \/ (~(n > 0 /\ InClusters(fsPos + n)) /\ NoFault)

-----------------------------------------------------------------------------
(* CeCompressOpenFile(name): length is what it returns.                    *)

NoCall == need' = 0 /\ broke' = FALSE /\ given' = <<>> /\ place' = 0

(* Not there, or a directory sector cannot be read.  The file opened       *)
(* before, if any, is still the FAT reader's.                              *)
NotFound(name) ==
  /\ IF vol[name] = NoFile THEN NoFault ELSE Fault
  /\ originalFileLength' = 0
  /\ UNCHANGED <<vol, fsFile, fsPos, compressedFile, block, workHit>> /\ NoCall

IsPacked(f) == SizeOnDisk(f) >= 2 /\ f.cells[1] = Signature

(* The signature and the length are read, and in a plain file given back.  *)
Opened(name) ==
  /\ fsFile' = name
  /\ compressedFile' = IsPacked(vol[name])
  /\ originalFileLength' =
       IF IsPacked(vol[name]) THEN vol[name].cells[2].length ELSE SizeOnDisk(vol[name])
  /\ fsPos' = IF IsPacked(vol[name]) THEN 2 ELSE 0
  /\ originalDataBytesLeft' = 0 /\ UNCHANGED <<originalData, originalDataPos>>

OpenWorks(name) ==
  /\ vol[name] # NoFile /\ SizeOnDisk(vol[name]) > 0
  /\ Opened(name) /\ NoFault
  /\ UNCHANGED <<vol, workHit>> /\ NoCall

(* An empty file is opened, and taken for none.                            *)
OpenEmpty(name) ==
  /\ vol[name] # NoFile /\ SizeOnDisk(vol[name]) = 0
  /\ fsFile' = name /\ fsPos' = 0 /\ originalFileLength' = 0 /\ NoFault
  /\ UNCHANGED <<vol, compressedFile, block, workHit>> /\ NoCall

(* The signature cannot be read: the file stays open.                      *)
SignatureUnread(name) ==
  /\ vol[name] # NoFile /\ SizeOnDisk(vol[name]) >= 2
  /\ fsFile' = name /\ fsPos' = 0 /\ compressedFile' = FALSE
  /\ originalFileLength' = SizeOnDisk(vol[name]) /\ Fault
  /\ UNCHANGED <<vol, block, workHit>> /\ NoCall

(* An open that returns 0: there is no file, or no byte of it, or a read   *)
(* has failed.                                                             *)
OpenFails(name) == NotFound(name) \/ OpenEmpty(name) \/ SignatureUnread(name)

(* FSCloseFile, and CeCompressCloseFile around it.                         *)
FSCloseFile == fsFile' = None /\ fsPos' = 0

CeCompressCloseFile ==
  /\ originalFileLength' = 0 /\ FSCloseFile /\ NoCall
  /\ UNCHANGED <<vol, compressedFile, block, workHit, faults>>

-----------------------------------------------------------------------------
(* CeCompressReadFile: Asks, then the steps below until it is Answered.    *)
Asks(n) ==
  /\ need' = n /\ broke' = FALSE /\ given' = <<>>
  /\ UNCHANGED <<vol, opened, fsPos, block, place, workHit, faults>>

Answered == need = 0 \/ broke

Deliver(bytes) ==
  /\ given' = given \o bytes /\ place' = place + Len(bytes)
  /\ need' = need - Len(bytes)

Breaks ==
  /\ broke' = TRUE
  /\ UNCHANGED <<vol, opened, fsPos, need, given, place, workHit>>

ReadPlain ==
  /\ ~Answered /\ ~compressedFile /\ FSReads(need)
  /\ Deliver(CellsAt(fsPos, need)) /\ fsPos' = fsPos + need
  /\ UNCHANGED <<vol, opened, block, broke, workHit>>

ReadPlainFails ==
  /\ ~Answered /\ ~compressedFile /\ FSReadFails(need)
  /\ Breaks /\ UNCHANGED block

(* From the block unpacked last.                                           *)
PosStays(n) == originalDataPos           \* bug: the same bytes again
PosAfter(n) == originalDataPos + n

TakeFromBlock ==
  LET n == Lesser(need, originalDataBytesLeft)
  IN  /\ ~Answered /\ compressedFile /\ originalDataBytesLeft > 0
      /\ Deliver(SubSeq(originalData, originalDataPos + 1, originalDataPos + n))
      /\ originalDataPos' = PosAfter(n)
      /\ originalDataBytesLeft' = originalDataBytesLeft - n
      /\ UNCHANGED <<vol, opened, fsPos, originalData, broke, workHit, faults>>

(* The next block: its head, its length if it is the last one, its data.   *)
(* What lies behind the file's end is taken for a head as well.            *)
NextHead ==
  LET c == Cell(fsPos + 1)
  IN  IF c = Zero THEN [size |-> 0, stored |-> FALSE, partial |-> FALSE] ELSE c
HeadCells == IF NextHead.partial THEN 2 ELSE 1
LengthCell == Cell(fsPos + 2)
DecompressedLength ==
  IF ~NextHead.partial THEN MaxBlock
  ELSE IF LengthCell = Zero THEN 0 ELSE LengthCell.length

NeedsBlock == ~Answered /\ compressedFile /\ originalDataBytesLeft = 0
BlockCellsRead == CellsAt(fsPos + HeadCells, NextHead.size)

BlockUnpacked ==
  IF NextHead.stored THEN SubSeq(BlockCellsRead, 1, DecompressedLength)
  ELSE Decoded(BlockCellsRead)

(* Of a compressed block that is not all there the decoder makes nothing;  *)
(* nor of any, perhaps, once its work area was written over.               *)
NextBlock ==
  /\ NeedsBlock
  /\ NextHead.size > 0 /\ FSReads(HeadCells + NextHead.size)
  /\ NextHead.stored \/ BlockUnpacked # Failed
  /\ originalData' = BlockUnpacked
  /\ originalDataBytesLeft' = DecompressedLength /\ originalDataPos' = 0
  /\ fsPos' = fsPos + HeadCells + NextHead.size
  /\ UNCHANGED <<vol, opened, call, workHit>>

BlockUnread ==
  /\ NeedsBlock
  /\ \/ Fault
     \/ ~InClusters(fsPos + HeadCells + NextHead.size) /\ NoFault
     \/ NextHead.size = 0 /\ NoFault
  /\ Breaks /\ UNCHANGED block

(* CeCompressDecode returns -1, which becomes the count of bytes left;     *)
(* every caller gives the file up.                                         *)
BlockUndecoded ==
  /\ NeedsBlock /\ NextHead.size > 0 /\ FSReads(HeadCells + NextHead.size)
  /\ ~NextHead.stored /\ (BlockUnpacked = Failed \/ workHit)
  /\ originalDataBytesLeft' = -1
  /\ Breaks /\ UNCHANGED <<originalData, originalDataPos>>

DecoderStep ==
  \/ ReadPlain \/ ReadPlainFails \/ TakeFromBlock
  \/ NextBlock \/ BlockUnread \/ BlockUndecoded

-----------------------------------------------------------------------------
DecoderTypeOK ==
  /\ fsFile \in DOMAIN vol \cup {None} /\ fsPos \in Nat
  /\ originalFileLength \in Nat /\ compressedFile \in BOOLEAN
  /\ originalDataBytesLeft \in -1 .. MaxBlock /\ originalDataPos \in 0 .. MaxBlock
  /\ need \in Nat /\ broke \in BOOLEAN /\ place \in Nat
  /\ workHit \in BOOLEAN /\ faults \in 0 .. MaxFaults

(* A file that is on the disk as it was written.                           *)
Sound == fsFile # None /\ File.whole
Handed == [i \in 1 .. Len(given) |-> given[i].offset]

(* Whatever the file is packed with and however the caller's requests lie  *)
(* across its blocks, reading a file that is whole hands out its content   *)
(* byte by byte, none twice and none left out, and nothing of the file     *)
(* read before.                                                            *)
Stream ==
  INSTANCE ByteStream WITH
    size <- IF Sound THEN Len(File.data) ELSE 0,
    place <- IF Sound THEN place ELSE 0,
    given <- IF Sound THEN Handed ELSE <<>>
DecoderSpec == Stream!Spec
=============================================================================
