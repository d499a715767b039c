------------------------------ MODULE UefiFile ------------------------------
(***************************************************************************)
(* The file access of the UEFI loader (bootfilesystem.c): one file, opened *)
(* through EFI_FILE_PROTOCOL and read through a buffer of 2 MB.  Any call  *)
(* of the firmware may fail.  A byte is named by its offset in the file.   *)
(***************************************************************************)
EXTENDS Integers, Sequences

CONSTANTS
  Files,       \* files that NK.BIN may be, each with its length .cut, or NoFile
  NoFile,
  gFileBufferLength,
  MaxFaults,   \* bound: calls of the firmware that fail
  Junk

ASSUME FileAssumption ==
  /\ gFileBufferLength \in Nat \ {0} /\ MaxFaults \in Nat
  /\ \A f \in Files \ {NoFile} : f.cut \in Nat
  /\ Junk \notin Int

VARIABLES
  image,       \* the file
  hFile,       \* "null" or "open"
  efiPos,      \* the position EFI_FILE_PROTOCOL keeps
  bufAt,       \* the byte gpFileBuffer[0] holds, or Junk
  gCurFileBufferIndex, gCurFileBufferLength, gCurFilePosition,
  need,        \* Length in BootFileSystemRead: bytes still to be copied
  broke,       \* its loop was left by a failing read
  given,       \* the bytes copied since it was called
  faults       \* how many calls of the firmware have failed

buffer == <<gCurFileBufferIndex, gCurFileBufferLength, gCurFilePosition>>
fileVars == <<image, hFile, efiPos, bufAt, buffer, need, broke, given, faults>>

Size == IF image = NoFile THEN 0 ELSE image.cut
Least(a, b) == IF a <= b THEN a ELSE b

FileInit ==
  /\ image \in Files
  /\ hFile = "null" /\ efiPos = 0 /\ bufAt = Junk
  /\ gCurFileBufferIndex = 0 /\ gCurFileBufferLength = 0 /\ gCurFilePosition = 0
  /\ need = 0 /\ broke = FALSE /\ given = <<>> /\ faults = 0

Fault == faults < MaxFaults /\ faults' = faults + 1

FreshBuffer ==
  /\ gCurFileBufferIndex' = 0 /\ gCurFileBufferLength' = 0
  /\ gCurFilePosition' = 0
  /\ given' = <<>> /\ need' = 0 /\ broke' = FALSE

(* GetFileSize: the length it returns, and where it leaves the file.  Each *)
(* of its three calls may fail; the last one's failure is not reported.    *)
GetFileSize(length) ==
  \/ length = Size /\ efiPos' = 0 /\ UNCHANGED faults
  \/ length = 0 /\ efiPos' \in {0, Size} /\ Fault
  \/ length = Size /\ efiPos' = Size /\ Fault

BootFileSystemOpen(length) ==
  /\ image # NoFile
  /\ hFile' = "open" /\ GetFileSize(length) /\ FreshBuffer
  /\ UNCHANGED <<image, bufAt>>

(* Not there, or Open fails: the handle stays NULL.                        *)
BootFileSystemOpenFails ==
  /\ IF image = NoFile THEN UNCHANGED faults ELSE Fault
  /\ UNCHANGED <<image, hFile, efiPos, bufAt, buffer, need, broke, given>>

(* Close is called on the handle, which may be NULL: the caller sees to it.*)
BootFileSystemClose ==
  /\ hFile' = "null" /\ FreshBuffer
  /\ UNCHANGED <<image, efiPos, bufAt, faults>>

(* BootFileSystemRewind, called with offset 0 right after the file was     *)
(* opened: only a place outside the buffer moves the file itself.          *)
InBuffer(offset) ==
  offset \in gCurFilePosition - gCurFileBufferLength .. gCurFilePosition

Rewound(offset) ==
  /\ gCurFileBufferIndex' =
       IF InBuffer(offset)
       THEN offset - (gCurFilePosition - gCurFileBufferLength) ELSE 0
  /\ IF InBuffer(offset)
     THEN UNCHANGED <<efiPos, gCurFileBufferLength, gCurFilePosition>>
     ELSE efiPos' = offset /\ gCurFileBufferLength' = 0 /\ gCurFilePosition' = offset

BootFileSystemRewind(offset) ==
  /\ Rewound(offset)
  /\ need' = 0 /\ broke' = FALSE /\ given' = <<>>
  /\ UNCHANGED <<image, hFile, bufAt, faults>>

-----------------------------------------------------------------------------
(* BootFileSystemRead                                                      *)
Asks(n) ==
  /\ need' = n /\ broke' = FALSE /\ given' = <<>>
  /\ UNCHANGED <<image, hFile, efiPos, bufAt, buffer, faults>>

Answered == need = 0 \/ broke
InMemory == gCurFileBufferLength - gCurFileBufferIndex
CopyLength == Least(InMemory, need)

Copied(n) ==
  [i \in 1 .. n |-> IF bufAt = Junk THEN Junk ELSE bufAt + gCurFileBufferIndex + i - 1]

(* Bug: the index is moved only when the rest of the buffer is used up.    *)
IndexStays(n) == IF n = InMemory THEN gCurFileBufferIndex + n ELSE gCurFileBufferIndex
IndexAfter(n) == gCurFileBufferIndex + n

CopyFromBuffer ==
  /\ ~Answered /\ InMemory > 0
  /\ given' = given \o Copied(CopyLength)
  /\ gCurFileBufferIndex' = IndexAfter(CopyLength)
  /\ need' = need - CopyLength
  /\ UNCHANGED <<image, hFile, efiPos, bufAt, gCurFileBufferLength,
                 gCurFilePosition, broke, faults>>

(* At the end of the file Read succeeds with no bytes.                     *)
ReadBytes == Least(gFileBufferLength, Size - efiPos)

OldIndex == gCurFileBufferIndex   \* bug: the index is not put back
FirstByte == 0

FillBuffer ==
  /\ ~Answered /\ InMemory <= 0
  /\ gCurFileBufferIndex' = FirstByte
  /\ bufAt' = efiPos /\ efiPos' = efiPos + ReadBytes
  /\ gCurFileBufferLength' = ReadBytes
  /\ gCurFilePosition' = gCurFilePosition + ReadBytes
  /\ UNCHANGED <<image, hFile, need, broke, given, faults>>

FillFails ==
  /\ ~Answered /\ InMemory <= 0 /\ Fault
  /\ gCurFileBufferIndex' = 0 /\ gCurFileBufferLength' = 0
  /\ broke' = TRUE /\ bufAt' = Junk
  /\ UNCHANGED <<image, hFile, efiPos, gCurFilePosition, need, given>>

-----------------------------------------------------------------------------
FileTypes ==
  /\ image \in Files /\ hFile \in {"null", "open"}
  /\ efiPos \in 0 .. Size /\ bufAt \in {Junk} \cup (0 .. Size)
  /\ gCurFileBufferLength \in 0 .. gFileBufferLength
  /\ gCurFileBufferIndex \in 0 .. gCurFileBufferLength
  /\ gCurFilePosition \in 0 .. Size
  /\ need \in Nat /\ faults \in 0 .. MaxFaults
  /\ given \in Seq({Junk} \cup (0 .. Size))

(* The buffer implements a plain stream: the place in the file is where    *)
(* the loader believes its buffer ends, less what it has not copied yet.   *)
Stream ==
  INSTANCE ByteStream WITH size <- Size, place <- gCurFilePosition - InMemory
StreamSpec == Stream!Spec
=============================================================================
