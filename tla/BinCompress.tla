---------------------------- MODULE BinCompress ----------------------------
(***************************************************************************)
(* bincompress (bincompress.c, bcxpress.c, bcio.c): /C packs a file for    *)
(* the BIOS loader, /D unpacks it.  Any call of the C library or of        *)
(* cecompress may fail; a write that fails leaves some of what it was      *)
(* given.  fclose writes what is still buffered and nobody looks at its    *)
(* result.                                                                 *)
(***************************************************************************)
EXTENDS XpressFile

CONSTANT FileSizes    \* lengths of the file to be packed

ASSUME SizeAssumption == FileSizes \subseteq Nat

VARIABLES
  tool,         \* "idle", "/C" or "/D" in its loop, "packed", "unpacked"
  inSize,       \* length of the original file
  outFile,      \* the packed file
  processed,    \* processedLength
  made,         \* history: what the compressor made of each block
  unpacked,     \* the file /D writes
  expected,     \* expectedOutFileLength
  status,       \* what the last call of the tool returned
  packStatus,   \* what /C returned, or NeverPacked
  lost          \* history: "/C" or "/D" when its fclose did not write all

toolVars == <<tool, inSize, outFile, processed, made, unpacked, expected,
              status, packStatus, lost>>

NeverPacked == -1
Original == Bytes(0, inSize)

ToolInit ==
  /\ tool = "idle" /\ inSize \in FileSizes /\ outFile = <<>>
  /\ processed = 0 /\ made = <<>> /\ unpacked = <<>> /\ expected = 0
  /\ status = 0 /\ packStatus = NeverPacked /\ lost = {}

(* fwrite of cells at the end of file: all, or some and the tool gives up. *)
Written(file, cells) == file \o cells
CutShort(file, cells) == {file \o SubSeq(cells, 1, k) : k \in 0 .. Len(cells) - 1}

(* fclose, whose result is not looked at.                                  *)
AtClose(file) == {file} \cup CutShort(<<>>, file)

-----------------------------------------------------------------------------
(* CeCompressEncodeFile                                                    *)

Packs(result) == packStatus' = result /\ status' = result
EndPacking(result) == tool' = "packed" /\ Packs(result)

(* The encoder (20), the input (1) or the output file (2) is not to be     *)
(* had; then nothing is written.                                           *)
CannotPack ==
  /\ tool = "idle" /\ \E result \in {20, 1, 2} : EndPacking(result)
  /\ UNCHANGED <<inSize, outFile, processed, made, unpacked, expected, lost>>

EncodeHead ==
  /\ tool = "idle"
  /\ \/ tool' = "/C" /\ outFile' = FileHead(inSize)
        /\ UNCHANGED <<status, packStatus>>
     \/ EndPacking(4) /\ outFile' \in CutShort(<<>>, FileHead(inSize))
  /\ UNCHANGED <<inSize, processed, made, unpacked, expected, lost>>

ReadLength == Lesser(MaxBlock, inSize - processed)

(* fread (3) or the compressor (7) fails.                                  *)
EncodeFails ==
  /\ tool = "/C" /\ processed < inSize
  /\ \E result \in {3, 7} : EndPacking(result)
  /\ UNCHANGED <<inSize, outFile, processed, made, unpacked, expected, lost>>

IsLast == processed + ReadLength = inSize

EncodeBlock ==
  /\ tool = "/C" /\ processed < inSize
  /\ \E m \in 1 .. MaxBlock :
       LET cells == BlockCells(Bytes(processed, ReadLength), m, IsLast)
       IN  /\ made' = Append(made, m)
           /\ \/ /\ outFile' = Written(outFile, cells)
                 /\ UNCHANGED <<tool, status, packStatus>>
              \/ outFile' \in CutShort(outFile, cells) /\ EndPacking(4)
  /\ processed' = processed + ReadLength
  /\ UNCHANGED <<inSize, unpacked, expected, lost>>

EncodeEnd ==
  /\ tool = "/C" /\ processed >= inSize
  /\ outFile' \in AtClose(outFile)
  /\ lost' = IF outFile' = outFile THEN lost ELSE lost \cup {"/C"}
  /\ EndPacking(0)
  /\ UNCHANGED <<inSize, processed, made, unpacked, expected>>

(* The user never packed the file.                                         *)
TakePlain ==
  /\ tool = "idle" /\ tool' = "packed" /\ outFile' = Original
  /\ UNCHANGED <<inSize, processed, made, unpacked, expected, status, packStatus, lost>>

-----------------------------------------------------------------------------
(* CeCompressDecodeFile                                                    *)

EndUnpacking(result) == tool' = "unpacked" /\ status' = result
Unread(n) == processed + n > Len(outFile)
InFile(i) == outFile[processed + i]

CannotUnpack ==
  /\ tool = "packed" /\ \E result \in {20, 1} : EndUnpacking(result)
  /\ UNCHANGED <<inSize, outFile, processed, made, unpacked, expected, packStatus, lost>>

(* Signature and length, then the output file.                             *)
DecodeHead ==
  /\ tool = "packed"
  /\ \/ EndUnpacking(3) /\ processed' = 0 /\ UNCHANGED expected
     \/ /\ Len(outFile) >= 1 /\ outFile[1] # Signature /\ EndUnpacking(9)
        /\ processed' = 0 /\ UNCHANGED expected
     \/ /\ Len(outFile) >= 2 /\ outFile[1] = Signature
        /\ expected' = outFile[2].length /\ processed' = 2
        /\ \/ tool' = "/D" /\ UNCHANGED status
           \/ EndUnpacking(2)
  /\ UNCHANGED <<inSize, outFile, made, unpacked, packStatus, lost>>

More == tool = "/D" /\ processed < Len(outFile)

(* What a block takes of the file, and its length unpacked.                *)
ThisHead == InFile(1)
Taken == 1 + (IF ThisHead.partial THEN 1 ELSE 0) + ThisHead.size
WriteLength == IF ThisHead.partial THEN InFile(2).length ELSE MaxBlock
BlockData == SubSeq(outFile, processed + 1 + Taken - ThisHead.size, processed + Taken)
Restored == IF ThisHead.stored THEN SubSeq(BlockData, 1, WriteLength) ELSE Decoded(BlockData)

(* The head, the length or the data is not all there, or a read fails.     *)
DecodeReadFails ==
  /\ More /\ EndUnpacking(3)
  /\ UNCHANGED <<inSize, outFile, processed, made, unpacked, expected, packStatus, lost>>

HasBlock ==
  /\ More /\ (ThisHead.partial => ~Unread(2))
  /\ ~Unread(Taken)

DecodeBlock ==
  /\ HasBlock
  /\ IF Restored = Failed
     THEN EndUnpacking(4) /\ UNCHANGED unpacked
     ELSE \/ unpacked' = Written(unpacked, Restored) /\ UNCHANGED <<tool, status>>
          \/ unpacked' \in CutShort(unpacked, Restored) /\ EndUnpacking(5)
  /\ processed' = processed + Taken
  /\ UNCHANGED <<inSize, outFile, made, expected, packStatus, lost>>

(* Bug: the lengths are not compared.                                      *)
DecodeEndUnchecked ==
  /\ tool = "/D" /\ processed >= Len(outFile)
  /\ EndUnpacking(0)
  /\ unpacked' \in AtClose(unpacked)
  /\ lost' = IF unpacked' = unpacked THEN lost ELSE lost \cup {"/D"}
  /\ UNCHANGED <<inSize, outFile, processed, made, expected, packStatus>>

DecodeEnd ==
  /\ tool = "/D" /\ processed >= Len(outFile)
  /\ EndUnpacking(IF Len(unpacked) = expected THEN 0 ELSE 6)
  /\ unpacked' \in AtClose(unpacked)
  /\ lost' = IF unpacked' = unpacked THEN lost ELSE lost \cup {"/D"}
  /\ UNCHANGED <<inSize, outFile, processed, made, expected, packStatus>>

(* The tool is run again, on another file.                                 *)
RunAgain ==
  /\ tool = "unpacked"
  /\ tool' = "idle" /\ inSize' \in FileSizes /\ outFile' = <<>>
  /\ processed' = 0 /\ made' = <<>> /\ unpacked' = <<>> /\ expected' = 0
  /\ status' = 0 /\ packStatus' = NeverPacked /\ lost' = {}

ToolNext ==
  \/ CannotPack \/ EncodeHead \/ EncodeFails \/ EncodeBlock \/ EncodeEnd \/ TakePlain
  \/ CannotUnpack \/ DecodeHead \/ DecodeReadFails \/ DecodeBlock \/ DecodeEnd
  \/ RunAgain

ToolSpec == ToolInit /\ [][ToolNext]_toolVars

-----------------------------------------------------------------------------
ToolTypeOK ==
  /\ tool \in {"idle", "/C", "/D", "packed", "unpacked"}
  /\ inSize \in FileSizes /\ processed \in Nat /\ expected \in Nat
  /\ made \in Seq(1 .. MaxBlock)
  /\ status \in {0, 1, 2, 3, 4, 5, 6, 7, 9, 20}
  /\ packStatus \in {NeverPacked, 0, 1, 2, 3, 4, 7, 20}
  /\ lost \subseteq {"/C", "/D"}

PackedWhole == tool # "idle" /\ packStatus = 0 /\ "/C" \notin lost

(* What /D calls a success is the original, also when /C broke off in the  *)
(* middle, or lost the end of its file in fclose without a word, or was    *)
(* never run; the file of a /C that succeeded has the form the loader      *)
(* reads, and /D never refuses it.  (An end that /D's own fclose loses is  *)
(* reported by nobody.)                                                    *)
RoundTrip ==
  /\ ToolTypeOK
  /\ tool = "unpacked" /\ status = 0 /\ "/D" \notin lost => unpacked = Original
  /\ PackedWhole => outFile = Packed(inSize, made)
  /\ PackedWhole /\ tool = "unpacked" => status \notin {4, 6, 9}
=============================================================================
