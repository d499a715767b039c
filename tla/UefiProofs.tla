----------------------------- MODULE UefiProofs -----------------------------
(***************************************************************************)
(* Theorems about the UEFI loader, for every file, memory map, page size   *)
(* and size of the read buffer, and for every order of failing calls.      *)
(***************************************************************************)
EXTENDS UefiBoot, SequenceTheorems, WellFoundedInduction, TLAPS

(* The file's own position is where the buffer ends, or at the end of the  *)
(* file, where it was left by a call that failed; the buffer holds what    *)
(* comes before the position; what the present call handed out is what     *)
(* comes before the place it has reached.                                  *)
Place == gCurFilePosition - InMemory
BufferInv ==
  /\ hFile = "open" => efiPos \in {gCurFilePosition, Size}
  /\ gCurFileBufferLength > 0 => bufAt = gCurFilePosition - gCurFileBufferLength
GivenInv ==
  Len(given) <= Place /\ given = Stream!From(Place - Len(given), Len(given))
FileInv == FileTypes /\ BufferInv /\ GivenInv


(* What is read is an open file; the record being read is one of its own.  *)
FlowInv ==
  /\ stage \in Reading \cup {"seek", "ask"} => hFile = "open" /\ image # NoFile
  /\ IF image = NoFile THEN next = 1 ELSE next \in 1 .. Records + 1
  /\ stage = "data" => next <= Records

StreamInv == FileInv /\ FlowInv
-----------------------------------------------------------------------------
LEMMA SizeNat == ASSUME image \in Files PROVE Size \in Nat
BY FileAssumption DEF Size

LEMMA FromType ==
  ASSUME NEW k \in Nat, NEW n \in Nat, NEW S, \A i \in 1 .. n : k + i - 1 \in S
  PROVE  Stream!From(k, n) \in Seq(S) /\ Len(Stream!From(k, n)) = n
<1>1. DOMAIN Stream!From(k, n) = 1 .. n
  BY DEF Stream!From
<1>2. Stream!From(k, n) \in [1 .. n -> S]
  BY DEF Stream!From
<1> QED
  BY <1>1, <1>2

LEMMA FromConcat ==
  ASSUME NEW k \in Nat, NEW m \in Nat, NEW n \in Nat
  PROVE  Stream!From(k, m) \o Stream!From(k + m, n) = Stream!From(k, m + n)
<1> DEFINE a == Stream!From(k, m)
           b == Stream!From(k + m, n)
           c == Stream!From(k, m + n)
<1>1. a \in Seq(Nat) /\ Len(a) = m /\ b \in Seq(Nat) /\ Len(b) = n
  BY FromType
<1>2. c \in Seq(Nat) /\ Len(c) = m + n
  BY FromType
<1>3. \A i \in 1 .. m : a[i] = k + i - 1
  BY DEF Stream!From
<1>4. \A i \in 1 .. n : b[i] = k + m + i - 1
  BY DEF Stream!From
<1>5. \A i \in 1 .. m + n : c[i] = k + i - 1
  BY DEF Stream!From
<1> HIDE DEF a, b, c
<1>6. /\ a \o b \in Seq(Nat) /\ Len(a \o b) = m + n
      /\ \A i \in 1 .. m + n : (a \o b)[i] = IF i <= m THEN a[i] ELSE b[i - m]
  BY <1>1, ConcatProperties
<1>7. ASSUME NEW i \in 1 .. m + n PROVE (a \o b)[i] = c[i]
  <2>0. i <= m \/ i > m
    OBVIOUS
  <2>1. CASE i <= m
    BY <1>3, <1>5, <1>6, <2>1
  <2>2. CASE i > m
    <3>1. i - m \in 1 .. n
      BY <2>2
    <3>2. b[i - m] = k + m + (i - m) - 1
      BY <1>4, <3>1
    <3> QED
      BY <1>5, <1>6, <2>2, <3>2
  <2> QED
    BY <2>0, <2>1, <2>2, Zenon
<1> QED
  BY <1>2, <1>6, <1>7, SeqEqual DEF a, b, c

LEMMA EmptyFrom == ASSUME NEW k \in Int PROVE Stream!From(k, 0) = <<>>
BY DEF Stream!From

-----------------------------------------------------------------------------
(* Each operation on the file keeps the invariant and is a step, or none,  *)
(* of the plain stream.                                                    *)
LEMMA FreshKeeps ==
  ASSUME FileInv, image' = image, FreshBuffer, hFile' \in {"null", "open"},
         efiPos' \in 0 .. Size, hFile' = "open" => efiPos' \in {0, Size},
         bufAt' = bufAt \/ bufAt' = Junk, faults' \in 0 .. MaxFaults
  PROVE  FileInv' /\ Stream!Start
<1>1. Size \in Nat /\ Size' = Size
  BY SizeNat DEF FileInv, FileTypes, Size
<1>2. FileTypes'
  BY <1>1, FileAssumption DEF FileInv, FileTypes, FreshBuffer
<1>3. BufferInv' /\ Place' = 0
  BY <1>1 DEF BufferInv, FreshBuffer, Place, InMemory
<1>4. GivenInv'
  <2>1. given' = <<>> /\ Len(given') = 0
    BY DEF FreshBuffer
  <2> QED
    BY <1>3, <2>1, EmptyFrom DEF GivenInv
<1> QED
  BY <1>1, <1>2, <1>3, <1>4 DEF FileInv, Stream!Start, FreshBuffer, Place

LEMMA OpenKeeps ==
  ASSUME FileInv, NEW length, BootFileSystemOpen(length)
  PROVE  FileInv' /\ Stream!Start
<1>1. Size \in Nat
  BY SizeNat DEF FileInv, FileTypes
<1>2. efiPos' \in {0, Size} /\ faults' \in 0 .. MaxFaults
  BY FileAssumption DEF BootFileSystemOpen, GetFileSize, Fault, FileInv, FileTypes
<1> QED
  BY <1>1, <1>2, FreshKeeps DEF BootFileSystemOpen

LEMMA CloseKeeps ==
  ASSUME FileInv, BootFileSystemClose
  PROVE  FileInv' /\ Stream!Start
BY FreshKeeps DEF BootFileSystemClose, FileInv, FileTypes

LEMMA RewindKeeps ==
  ASSUME FileInv, BootFileSystemRewind(0)
  PROVE  FileInv' /\ Stream!Start
<1>1. Size \in Nat /\ Size' = Size
  BY SizeNat DEF FileInv, FileTypes, Size, BootFileSystemRewind
<1>2. /\ gCurFilePosition \in Nat /\ gCurFileBufferLength \in Nat
      /\ efiPos \in Nat /\ gFileBufferLength \in Nat
  BY <1>1, FileAssumption DEF FileInv, FileTypes
<1>3. ASSUME InBuffer(0) PROVE FileTypes' /\ BufferInv' /\ Place' = 0
  <2>1. gCurFileBufferIndex' = gCurFileBufferLength - gCurFilePosition
    BY <1>2, <1>3 DEF BootFileSystemRewind, Rewound
  <2>2. FileTypes'
    BY <1>1, <1>2, <1>3, <2>1, FileAssumption
    DEF BootFileSystemRewind, Rewound, InBuffer, FileInv, FileTypes
  <2>3. BufferInv' /\ Place' = 0
    BY <1>1, <1>2, <1>3, <2>1
    DEF BootFileSystemRewind, Rewound, FileInv, BufferInv, Place, InMemory
  <2> QED
    BY <2>2, <2>3
<1>4. ASSUME ~InBuffer(0) PROVE FileTypes' /\ BufferInv' /\ Place' = 0
  <2>1. FileTypes'
    BY <1>1, <1>2, <1>4, FileAssumption DEF BootFileSystemRewind, Rewound, FileInv, FileTypes
  <2>2. BufferInv' /\ Place' = 0
    BY <1>1, <1>2, <1>4
    DEF BootFileSystemRewind, Rewound, FileInv, BufferInv, Place, InMemory
  <2> QED
    BY <2>1, <2>2
<1>5. FileTypes' /\ BufferInv' /\ Place' = 0
  BY <1>3, <1>4
<1>6. given' = <<>> /\ Len(given') = 0
  BY DEF BootFileSystemRewind
<1> QED
  BY <1>1, <1>5, <1>6, EmptyFrom
  DEF FileInv, GivenInv, Stream!Start, Place

LEMMA AsksKeeps ==
  ASSUME FileInv, NEW n \in Nat, Asks(n)
  PROVE  FileInv' /\ Stream!Ask /\ Size' = Size
<1>1. Size \in Nat /\ Size' = Size /\ Place' = Place
  BY SizeNat DEF FileInv, FileTypes, Size, Asks, buffer, Place, InMemory
<1>2. FileTypes' /\ BufferInv'
  BY <1>1, FileAssumption DEF FileInv, FileTypes, BufferInv, Asks, buffer
<1>3. Place \in Nat
  BY <1>1, FileAssumption DEF FileInv, FileTypes, GivenInv, Place, InMemory
<1>4. given' = <<>> /\ Len(given') = 0
  BY DEF Asks
<1> QED
  BY <1>1, <1>2, <1>3, <1>4, EmptyFrom DEF FileInv, GivenInv, Stream!Ask, Place

LEMMA Pieces ==
  ASSUME FileInv
  PROVE  /\ Size \in Nat /\ gFileBufferLength \in Nat /\ gCurFilePosition \in 0 .. Size
         /\ gCurFileBufferLength \in Nat /\ gCurFileBufferIndex \in 0 .. gCurFileBufferLength
         /\ Place \in 0 .. Size /\ InMemory \in Nat /\ efiPos \in 0 .. Size
         /\ need \in Nat /\ Len(given) \in Nat /\ Place - Len(given) \in Nat
         /\ gCurFilePosition = Place + InMemory
<1>1. /\ Size \in Nat /\ gFileBufferLength \in Nat
      /\ need \in Nat /\ Len(given) \in Nat
  BY SizeNat, FileAssumption DEF FileInv, FileTypes
<1>2. gCurFilePosition \in 0 .. Size /\ gCurFileBufferLength \in Nat
  BY <1>1 DEF FileInv, FileTypes
<1>3. gCurFileBufferIndex \in 0 .. gCurFileBufferLength
  BY DEF FileInv, FileTypes
<1>4. Place \in 0 .. Size /\ InMemory \in Nat /\ gCurFilePosition = Place + InMemory
  BY <1>1, <1>2, <1>3 DEF FileInv, GivenInv, Place, InMemory
<1> QED
  BY <1>1, <1>2, <1>3, <1>4 DEF FileInv, FileTypes, GivenInv

(* What is copied is what follows in the file.                             *)
LEMMA CopiedIsNext ==
  ASSUME FileInv, InMemory > 0, NEW n \in Nat
  PROVE  Copied(n) = Stream!From(Place, n)
<1>0. /\ Size \in Nat /\ gFileBufferLength \in Nat /\ gCurFilePosition \in 0 .. Size
      /\ gCurFileBufferLength \in Nat /\ gCurFileBufferIndex \in 0 .. gCurFileBufferLength
      /\ Place \in 0 .. Size /\ InMemory \in Nat /\ efiPos \in 0 .. Size
      /\ need \in Nat /\ Len(given) \in Nat /\ Place - Len(given) \in Nat
      /\ gCurFilePosition = Place + InMemory
  BY Pieces
<1>1. gCurFileBufferLength > 0
  BY <1>0 DEF InMemory
<1>2. bufAt = gCurFilePosition - gCurFileBufferLength /\ bufAt \in Int /\ bufAt # Junk
  BY <1>1, <1>0, FileAssumption DEF FileInv, BufferInv
<1>3. bufAt + gCurFileBufferIndex = Place
  BY <1>2, <1>0 DEF Place, InMemory
<1>4. \A i \in 1 .. n : bufAt + gCurFileBufferIndex + i - 1 = Place + i - 1
  BY <1>3
<1> QED
  BY <1>2, <1>4 DEF Copied, Stream!From

LEMMA CopyKeeps ==
  ASSUME FileInv, CopyFromBuffer
  PROVE  FileInv' /\ Stream!Give /\ Size' = Size
<1>0. /\ Size \in Nat /\ gFileBufferLength \in Nat /\ gCurFilePosition \in 0 .. Size
      /\ gCurFileBufferLength \in Nat /\ gCurFileBufferIndex \in 0 .. gCurFileBufferLength
      /\ Place \in 0 .. Size /\ InMemory \in Nat /\ efiPos \in 0 .. Size
      /\ need \in Nat /\ Len(given) \in Nat /\ Place - Len(given) \in Nat
      /\ gCurFilePosition = Place + InMemory
  BY Pieces
<1> DEFINE n == CopyLength
<1>1. n \in 1 .. InMemory /\ n <= need
  BY <1>0 DEF CopyFromBuffer, CopyLength, Least, Answered
<1>2. n \in 1 .. Size - Place
  BY <1>1, <1>0
<1>3. /\ Size' = Size /\ gCurFileBufferIndex' = gCurFileBufferIndex + n
      /\ gCurFilePosition' = gCurFilePosition /\ gCurFileBufferLength' = gCurFileBufferLength
      /\ need' = need - n /\ given' = given \o Copied(n)
      /\ efiPos' = efiPos /\ bufAt' = bufAt /\ hFile' = hFile /\ image' = image
      /\ faults' = faults
  BY DEF CopyFromBuffer, IndexAfter, Size
<1> HIDE DEF n
<1>20. n \in Nat /\ InMemory > 0
  BY <1>0, <1>1
<1>4. given' = given \o Stream!From(Place, n)
  <2>1. Copied(n) = Stream!From(Place, n)
    BY <1>20, CopiedIsNext
  <2> QED
    BY <1>3, <2>1
<1>21. PICK k \in Nat, m \in Nat : k = Place - Len(given) /\ m = Len(given) /\ k + m = Place
  BY <1>0
<1>5. Place' = Place + n
  BY <1>1, <1>3, <1>0 DEF Place, InMemory
<1>6. given' = Stream!From(Place - Len(given), Len(given) + n)
  <2>1. given = Stream!From(k, m)
    BY <1>21 DEF FileInv, GivenInv
  <2>2. Stream!From(k, m) \o Stream!From(k + m, n) = Stream!From(k, m + n)
    BY <1>20, FromConcat
  <2> QED
    BY <1>21, <1>4, <2>1, <2>2
<1>7. given' \in Seq({Junk} \cup (0 .. Size)) /\ Len(given') = Len(given) + n
  <2>1. /\ k \in Nat /\ m + n \in Nat
        /\ \A i \in 1 .. m + n : k + i - 1 \in {Junk} \cup (0 .. Size)
    BY <1>0, <1>2, <1>21, <1>20
  <2>2. /\ Stream!From(k, m + n) \in Seq({Junk} \cup (0 .. Size))
        /\ Len(Stream!From(k, m + n)) = m + n
    BY <2>1, FromType
  <2> QED
    BY <1>21, <1>6, <2>2
<1>8. GivenInv'
  <2>1. Place' - Len(given') = Place - Len(given)
    BY <1>1, <1>5, <1>7, <1>0
  <2> QED
    BY <1>1, <1>5, <1>6, <1>7, <2>1, <1>0 DEF GivenInv
<1>9. FileTypes'
  <2>1. gCurFileBufferIndex' \in 0 .. gCurFileBufferLength' /\ need' \in Nat
    BY <1>1, <1>3, <1>0 DEF InMemory
  <2> QED
    BY <1>3, <1>7, <2>1 DEF FileInv, FileTypes
<1> QED
  BY <1>2, <1>3, <1>4, <1>5, <1>8, <1>9 DEF FileInv, BufferInv, Stream!Give, Place

LEMMA FillKeeps ==
  ASSUME FileInv, hFile = "open", FillBuffer \/ FillFails
  PROVE  FileInv' /\ UNCHANGED <<Size, Place, given>>
<1>0. /\ Size \in Nat /\ gFileBufferLength \in Nat /\ gCurFilePosition \in 0 .. Size
      /\ gCurFileBufferLength \in Nat /\ gCurFileBufferIndex \in 0 .. gCurFileBufferLength
      /\ Place \in 0 .. Size /\ InMemory \in Nat /\ efiPos \in 0 .. Size
      /\ need \in Nat /\ Len(given) \in Nat /\ Place - Len(given) \in Nat
      /\ gCurFilePosition = Place + InMemory
  BY Pieces
<1>1. Size' = Size /\ given' = given /\ InMemory = 0
  BY <1>0 DEF FillBuffer, FillFails, Size
<1>2. CASE FillBuffer
  <2>1. /\ ReadBytes \in Nat /\ ReadBytes <= gFileBufferLength
        /\ ReadBytes <= Size - efiPos /\ (efiPos = Size => ReadBytes = 0)
    BY <1>0 DEF ReadBytes, Least
  <2>2. efiPos = gCurFilePosition \/ (efiPos = Size /\ ReadBytes = 0)
    BY <2>1 DEF FileInv, BufferInv
  <2>3. /\ gCurFileBufferIndex' = 0 /\ gCurFileBufferLength' = ReadBytes
        /\ gCurFilePosition' = gCurFilePosition + ReadBytes
        /\ bufAt' = efiPos /\ efiPos' = efiPos + ReadBytes /\ hFile' = hFile
        /\ image' = image /\ need' = need /\ faults' = faults
    BY <1>2 DEF FillBuffer, FirstByte
  <2>4. Place' = Place
    BY <1>1, <2>1, <2>3, <1>0 DEF Place, InMemory
  <2>5. GivenInv'
    BY <1>1, <2>4 DEF FileInv, GivenInv
  <2>6. BufferInv'
    BY <1>1, <2>1, <2>2, <2>3, <1>0 DEF BufferInv
  <2>7. FileTypes'
    BY <1>1, <2>1, <2>2, <2>3, <1>0 DEF FileInv, FileTypes
  <2> QED
    BY <1>1, <2>4, <2>5, <2>6, <2>7 DEF FileInv
<1>3. CASE FillFails
  <2>1. /\ gCurFileBufferIndex' = 0 /\ gCurFileBufferLength' = 0
        /\ gCurFilePosition' = gCurFilePosition
        /\ bufAt' = Junk /\ efiPos' = efiPos /\ hFile' = hFile
        /\ image' = image /\ need' = need /\ faults' \in 0 .. MaxFaults
    BY <1>3, FileAssumption DEF FillFails, Fault, FileInv, FileTypes
  <2>2. Place' = Place
    BY <1>1, <2>1, <1>0 DEF Place, InMemory
  <2>3. GivenInv'
    BY <1>1, <2>2 DEF FileInv, GivenInv
  <2>4. BufferInv'
    BY <1>1, <2>1, <1>0 DEF FileInv, BufferInv
  <2>5. FileTypes'
    BY <1>1, <2>1, <1>0 DEF FileInv, FileTypes
  <2> QED
    BY <1>1, <2>2, <2>3, <2>4, <2>5 DEF FileInv
<1> QED
  BY <1>2, <1>3

(* Calls that do not touch the file.                                       *)
LEMMA StillKeeps ==
  ASSUME FileInv, NoFileCall, UNCHANGED faults \/ Fault
  PROVE  FileInv' /\ UNCHANGED Stream!vars
<1>1. faults' \in 0 .. MaxFaults
  BY FileAssumption DEF Fault, FileInv, FileTypes
<1>2. Size' = Size /\ Place' = Place /\ given' = given
  BY DEF NoFileCall, buffer, Size, Place, InMemory
<1>3. FileInv'
  BY <1>1, <1>2 DEF NoFileCall, buffer, FileInv, FileTypes, BufferInv, GivenInv
<1> QED
  BY <1>2, <1>3 DEF Stream!vars, Place

LEMMA RecordsType ==
  ASSUME image \in Files, image # NoFile
  PROVE  /\ Records \in Nat
         /\ \A i \in 1 .. Records :
              image.records[i].address \in Nat /\ image.records[i].length \in Nat
BY ImageAssumption, UefiAssumption DEF Records

-----------------------------------------------------------------------------
LEMMA NotReadingKeeps ==
  ASSUME FlowInv, image' = image, next' = next, stage' \notin Reading \cup {"seek", "ask"}
  PROVE  FlowInv'
BY DEF FlowInv, Reading, Records

LEMMA ReadingKeeps ==
  ASSUME FlowInv, image' = image, next' = next, hFile' = hFile,
         stage \in Reading \cup {"seek", "ask"}, stage' # "data"
  PROVE  FlowInv'
BY DEF FlowInv, Reading, Records

(* Steps of the loader between files.                                      *)
Elsewhere ==
  \/ BootArgsInit \/ OEMBootInit \/ FindAcpiTable
  \/ BootLoaderConfig \/ BootLoaderPreLoad \/ BootLoaderLoadUldr \/ BootFileSystemInit
  \/ BadSign \/ BadHeader \/ NoRoom \/ BadRecord \/ ReadLastRecord \/ BadData
  \/ OEMBootRun \/ RelocateGDT \/ GetMemoryMap \/ ExitBootServices

LEMMA ElsewhereStill ==
  ASSUME Elsewhere
  PROVE  /\ NoFileCall /\ (UNCHANGED faults \/ Fault)
         /\ next' = next /\ stage' \notin Reading \cup {"seek", "ask"}
<1> USE DEF Goes, Refused, load, ram, Reading
<1>1. CASE BootArgsInit
  BY <1>1 DEF BootArgsInit, NotAllocated
<1>2. CASE OEMBootInit
  BY <1>2 DEF OEMBootInit
<1>3. CASE FindAcpiTable
  BY <1>3 DEF FindAcpiTable
<1>4. CASE BootLoaderConfig
  BY <1>4 DEF BootLoaderConfig, ReadConfigFromGlobalVar, DefaultConfig
<1>5. CASE BootLoaderPreLoad \/ BootLoaderLoadUldr \/ BootFileSystemInit
  BY <1>5 DEF BootLoaderPreLoad, BootLoaderLoadUldr, BootFileSystemInit
<1>6. CASE BadSign \/ BadHeader \/ BadRecord \/ ReadLastRecord \/ BadData
  BY <1>6 DEF BadSign, BadHeader, BadRecord, ReadLastRecord, BadData, fileVars, NoFileCall
<1>7. CASE NoRoom
  BY <1>7 DEF NoRoom, NotAllocated
<1>8. CASE OEMBootRun \/ RelocateGDT
  BY <1>8 DEF OEMBootRun, RelocateGDT, fileVars, NoFileCall
<1>9. CASE GetMemoryMap \/ ExitBootServices
  BY <1>9 DEF GetMemoryMap, ExitBootServices
<1> QED
  BY <1>1, <1>2, <1>3, <1>4, <1>5, <1>6, <1>7, <1>8, <1>9 DEF Elsewhere

LEMMA InitStreamInv == Init => StreamInv /\ Stream!Init
<1> SUFFICES ASSUME Init PROVE StreamInv /\ Stream!Init
  OBVIOUS
<1>1. Size \in Nat
  BY SizeNat DEF Init, FileInit
<1>2. Place = 0 /\ given = <<>> /\ Len(given) = 0
  BY DEF Init, FileInit, Place, InMemory
<1>3. FileTypes
  BY <1>1, FileAssumption DEF Init, FileInit, FileTypes
<1>4. BufferInv /\ GivenInv
  BY <1>1, <1>2, EmptyFrom DEF Init, FileInit, BufferInv, GivenInv
<1>5. FlowInv
  BY RecordsType DEF Init, FileInit, FlowInv, Reading
<1> QED
  BY <1>1, <1>2, <1>3, <1>4, <1>5 DEF StreamInv, FileInv, Stream!Init, Place

LEMMA StepStreamInv ==
  StreamInv /\ [Next]_vars => StreamInv' /\ [Stream!Next]_Stream!vars
<1> SUFFICES ASSUME StreamInv, [Next]_vars PROVE StreamInv' /\ [Stream!Next]_Stream!vars
  OBVIOUS
<1> USE DEF StreamInv, Goes, load, ram
<1>1. image \in Files
  BY DEF FileInv, FileTypes
<1>2. CASE Elsewhere
  <2>1. FileInv' /\ UNCHANGED Stream!vars
    BY <1>2, ElsewhereStill, StillKeeps
  <2>2. FlowInv'
    BY <1>2, ElsewhereStill, NotReadingKeeps DEF NoFileCall
  <2> QED
    BY <2>1, <2>2
<1>3. CASE OpenImage
  <2>1. CASE BootFileSystemOpenFails /\ stage' = "close"
    <3>1. NoFileCall /\ (UNCHANGED faults \/ Fault)
      BY <2>1 DEF BootFileSystemOpenFails, NoFileCall
    <3>2. FileInv' /\ UNCHANGED Stream!vars
      BY <3>1, StillKeeps
    <3>3. FlowInv'
      BY <1>3, <2>1, <3>1, NotReadingKeeps DEF OpenImage, NoFileCall, Reading
    <3> QED
      BY <3>2, <3>3
  <2>2. ASSUME NEW length \in {0, Size}, BootFileSystemOpen(length),
               stage' \in {"close", "seek"}
        PROVE  FileInv' /\ FlowInv' /\ Stream!Start
    <3>1. FileInv' /\ Stream!Start
      BY <2>2, OpenKeeps
    <3>2. FlowInv'
      BY <1>3, <2>2 DEF OpenImage, BootFileSystemOpen, FlowInv, Reading, Records
    <3> QED
      BY <3>1, <3>2
  <2> QED
    BY <1>3, <2>1, <2>2 DEF OpenImage, Stream!Next
<1>4. CASE CleanUp
  <2>1. FileInv' /\ Stream!Start
    BY <1>4, CloseKeeps DEF CleanUp
  <2>2. FlowInv'
    BY <1>4, NotReadingKeeps DEF CleanUp, BootFileSystemClose, Reading
  <2> QED
    BY <2>1, <2>2 DEF Stream!Next
<1>5. CASE Seek
  <2>1. FileInv' /\ Stream!Start
    BY <1>5, RewindKeeps DEF Seek
  <2>2. FlowInv'
    BY <1>5, ReadingKeeps DEF Seek, BootFileSystemRewind
  <2> QED
    BY <2>1, <2>2 DEF Stream!Next
<1>6. ASSUME NEW n \in Nat, Asks(n), FlowInv'
      PROVE  StreamInv' /\ [Stream!Next]_Stream!vars
  BY <1>6, AsksKeeps DEF Stream!Next
<1>7. CASE AskSign \/ ReadSign \/ ReadHeader
  <2>1. \E n \in Nat : Asks(n)
    BY <1>7, UefiAssumption DEF AskSign, ReadSign, ReadHeader
  <2>2. FlowInv'
    BY <1>7, ReadingKeeps DEF AskSign, ReadSign, ReadHeader, Asks, Reading
  <2> QED
    BY <1>6, <2>1, <2>2
<1>8. CASE ReadRecord
  <2>1. image # NoFile /\ next \in 1 .. Records /\ hFile = "open"
    BY <1>1, <1>8, RecordsType DEF ReadRecord, LastRecord, FlowInv, Reading
  <2>2. Record.length \in Nat
    BY <1>1, <2>1, RecordsType DEF Record
  <2>3. FlowInv'
    BY <1>8, <2>1 DEF ReadRecord, FlowInv, Asks, Records
  <2> QED
    BY <1>6, <1>8, <2>2, <2>3 DEF ReadRecord
<1>9. CASE ReadData
  <2>1. image # NoFile /\ next \in 1 .. Records /\ hFile = "open"
    BY <1>1, <1>9, RecordsType DEF ReadData, FlowInv, Reading
  <2>2. FlowInv'
    BY <1>1, <1>9, <2>1, RecordsType DEF ReadData, FlowInv, Asks, Records
  <2> QED
    BY <1>6, <1>9, <2>2, UefiAssumption DEF ReadData
<1>10. CASE CopyBytes
  <2>1. FileInv' /\ Stream!Give /\ Size' = Size
    BY <1>10, CopyKeeps DEF CopyBytes
  <2>2. FlowInv'
    BY <1>10 DEF CopyBytes, CopyFromBuffer, FlowInv, Records
  <2> QED
    BY <2>1, <2>2 DEF Stream!Next
<1>11. CASE Fill
  <2>1. hFile = "open"
    BY <1>11 DEF Fill, FlowInv
  <2>2. FileInv' /\ UNCHANGED <<Size, Place, given>>
    BY <1>11, <2>1, FillKeeps DEF Fill
  <2>3. FlowInv'
    BY <1>11 DEF Fill, FillBuffer, FillFails, FlowInv, Records
  <2> QED
    BY <2>2, <2>3 DEF Stream!vars, Place
<1>12. CASE PowerCycle \/ StartedAgain
  <2>1. \E keep \in BOOLEAN : Restarts(keep)
    BY <1>12 DEF PowerCycle, StartedAgain
  <2>2. Size \in Nat
    BY SizeNat DEF FileInv, FileTypes
  <2>3. FileInv' /\ Stream!Start
    BY <2>1, <2>2, FreshKeeps DEF Restarts, FileInv, FileTypes
  <2>4. FlowInv'
    BY <1>1, <2>1, RecordsType DEF Restarts, FlowInv, Reading, Records
  <2> QED
    BY <2>3, <2>4 DEF Stream!Next
<1>13. CASE UNCHANGED vars
  <2>1. NoFileCall /\ UNCHANGED faults /\ UNCHANGED <<stage, next>>
    BY <1>13 DEF vars, fileVars, bootVars, NoFileCall
  <2>2. FileInv' /\ UNCHANGED Stream!vars
    BY <2>1, StillKeeps
  <2>3. FlowInv'
    BY <2>1 DEF FlowInv, NoFileCall, Records
  <2> QED
    BY <2>2, <2>3
<1> QED
  BY <1>2, <1>3, <1>4, <1>5, <1>7, <1>8, <1>9, <1>10, <1>11, <1>12, <1>13
  DEF Next, LoaderStep, Elsewhere

(* THEOREM: the buffered read of the loader hands out what a plain stream  *)
(* would, in pieces of any size: each byte once, in order, of this file.   *)
THEOREM ReadsAsStream == Spec => StreamSpec
<1>1. Init => StreamInv /\ Stream!Init
  BY InitStreamInv
<1>2. StreamInv /\ [Next]_vars => StreamInv' /\ [Stream!Next]_Stream!vars
  BY StepStreamInv
<1> QED
  BY <1>1, <1>2, PTL DEF Spec, StreamSpec, Stream!Spec

-----------------------------------------------------------------------------
(* Division, and what it says of pages.                                    *)
LEMMA DivMod ==
  ASSUME NEW a \in Nat, NEW n \in Nat \ {0}
  PROVE  /\ a \div n \in Nat /\ a % n \in 0 .. n - 1
         /\ a = n * (a \div n) + (a % n)
<1>1. PICK q \in Int : q = a \div n
  OBVIOUS
<1>2. PICK r \in 0 .. n - 1 : r = a % n
  OBVIOUS
<1>3. n * q <= a /\ a < n * q + n
  BY <1>1
<1>4. q \in Nat
  BY <1>3
<1>5. a = n * q + r
  BY <1>1, <1>2, <1>3
<1> QED
  BY <1>1, <1>2, <1>4, <1>5, Zenon

LEMMA PageOfIs ==
  ASSUME NEW a \in Nat
  PROVE  /\ PageOf(a) \in Nat
         /\ \E r \in 0 .. PageSize - 1 : a = PageSize * PageOf(a) + r
<1>1. PageSize \in Nat \ {0}
  BY UefiAssumption
<1>2. PICK q \in Nat, r \in 0 .. PageSize - 1 :
        q = a \div PageSize /\ a = PageSize * q + r
  BY <1>1, DivMod
<1> QED
  BY <1>1, <1>2 DEF PageOf

LEMMA DivMonotone ==
  ASSUME NEW n \in Nat \ {0}, NEW a \in Nat, NEW b \in Nat, a <= b
  PROVE  a \div n <= b \div n
<1>1. PICK q \in Nat, r \in 0 .. n - 1 : q = a \div n /\ a = n * q + r
  BY DivMod
<1>2. PICK p \in Nat, t \in 0 .. n - 1 : p = b \div n /\ b = n * p + t
  BY DivMod
<1>3. q <= p
  BY <1>1, <1>2
<1> QED
  BY <1>1, <1>2, <1>3

LEMMA ModSmall ==
  ASSUME NEW n \in Nat \ {0}, NEW a \in Nat, a < n
  PROVE  a % n = a
<1>1. PICK q \in Nat, r \in 0 .. n - 1 : r = a % n /\ a = n * q + r
  BY DivMod
<1>2. q = 0
  BY <1>1
<1> QED
  BY <1>1, <1>2

LEMMA TopIsSum ==
  ASSUME NEW a \in 0 .. Word - 1, NEW l \in 0 .. Word - 1, Top(a, l) >= a
  PROVE  a + l < Word /\ Top(a, l) = a + l
<1>1. Word \in Nat \ {0}
  BY UefiAssumption
<1>2. PICK q \in Nat, r \in 0 .. Word - 1 : r = Top(a, l) /\ a + l = Word * q + r
  BY <1>1, DivMod DEF Top
<1>3. q < 2
  BY <1>1, <1>2
<1>4. q # 1
  BY <1>1, <1>2
<1> QED
  BY <1>1, <1>2, <1>3, <1>4

LEMMA RoundDownIs ==
  ASSUME NEW n \in Nat \ {0}, NEW a \in Nat
  PROVE  /\ RoundDown(a, n) = n * (a \div n) /\ RoundDown(a, n) \in Nat
         /\ RoundDown(a, n) <= a /\ a < RoundDown(a, n) + n
<1>1. PICK q \in Nat, r \in 0 .. n - 1 : q = a \div n /\ r = a % n /\ a = n * q + r
  BY DivMod
<1> QED
  BY <1>1 DEF RoundDown

(* A multiple below a number is at most the number rounded down.           *)
LEMMA RoundDownAbove ==
  ASSUME NEW n \in Nat \ {0}, NEW a \in Nat, NEW k \in Nat, n * k <= a
  PROVE  n * k <= RoundDown(a, n)
<1>1. PICK q \in Nat, r \in 0 .. n - 1 : q = a \div n /\ a = n * q + r
  BY DivMod
<1>2. k <= q
  BY <1>1
<1>3. n * k <= n * q
  BY <1>2
<1> QED
  BY <1>1, <1>3, RoundDownIs

(* The buffer begins in the page of the start, not behind it.              *)
LEMMA BufferAtIs ==
  ASSUME NEW start \in Nat
  PROVE  /\ BufferAt(start) \in Nat /\ RoundDown(start, PageSize) \in Nat
         /\ RoundDown(start, PageSize) <= BufferAt(start) /\ BufferAt(start) <= start
<1>1. PageSize \in Nat \ {0}
  BY UefiAssumption
<1>2. PICK b \in Nat : b = RoundDown(start, PageSize) /\ b <= start
  BY <1>1, RoundDownIs
<1> QED
  BY <1>2 DEF BufferAt

(* The pages asked for hold a length, if it and the place in the page add  *)
(* up in 32 bits.                                                          *)
LEMMA EnoughPages ==
  ASSUME NEW n \in Nat
  PROVE  SizeToPages(n) \in Nat /\ n <= PageSize * SizeToPages(n)
<1>1. PageSize \in Nat \ {0}
  BY UefiAssumption
<1>2. PICK k \in Nat, m \in 0 .. PageSize - 1 :
        k = n \div PageSize /\ m = n % PageSize /\ n = PageSize * k + m
  BY <1>1, DivMod
<1>3. CASE m = 0
  BY <1>1, <1>2, <1>3 DEF SizeToPages
<1>4. CASE m # 0
  <2>1. SizeToPages(n) = k + 1
    BY <1>2, <1>4 DEF SizeToPages
  <2>2. PageSize * (k + 1) = PageSize * k + PageSize
    BY <1>1, <1>2
  <2> QED
    BY <1>1, <1>2, <2>1, <2>2
<1> QED
  BY <1>3, <1>4

LEMMA LessFactor ==
  ASSUME NEW n \in Nat \ {0}, NEW x \in Nat, NEW y \in Nat, n * x < n * y
  PROVE  x < y
<1>1. ASSUME y <= x PROVE FALSE
  <2>1. PICK d \in Nat : x = y + d
    BY <1>1
  <2>2. PICK a \in Nat, b \in Nat : a = n * y /\ b = n * d
    OBVIOUS
  <2>3. n * x = a + b
    BY <2>1, <2>2
  <2> QED
    BY <2>2, <2>3
<1> QED
  BY <1>1

LEMMA PlaceInPage ==
  ASSUME NEW a \in Nat
  PROVE  \E q \in Nat, r \in 0 .. PageSize - 1 :
           q = a \div PageSize /\ r = a % PageSize /\ a = PageSize * q + r
<1>1. PICK z \in Nat \ {0} : z = PageSize
  BY UefiAssumption
<1>2. PICK q \in Nat, r \in 0 .. z - 1 : q = a \div z /\ r = a % z /\ a = z * q + r
  BY DivMod
<1> QED
  BY <1>1, <1>2

LEMMA InPages ==
  ASSUME NEW start \in Nat, NEW length \in Nat, NEW a \in Nat,
         (start % PageSize) + length < Word,
         RoundDown(start, PageSize) <= a, a < start + length
  PROVE  PageOf(a) \in PagesFor(start, length)
<1>1. PageSize \in Nat \ {0} /\ Word \in Nat \ {0}
  BY UefiAssumption
<1>2. PICK q \in Nat, r \in 0 .. PageSize - 1 :
        q = start \div PageSize /\ r = start % PageSize /\ start = PageSize * q + r
  BY PlaceInPage
<1>3. PICK p \in Nat, t \in 0 .. PageSize - 1 : p = PageOf(a) /\ a = PageSize * p + t
  BY PageOfIs
<1>4. PICK l \in Nat : l = r + length
  BY <1>1, <1>2
<1>5. l % Word = l
  BY <1>1, <1>2, <1>4, ModSmall
<1>6. PICK n \in Nat : n = SizeToPages(l) /\ l <= PageSize * n
  BY <1>4, EnoughPages
<1>7. PagesFor(start, length) = q .. q + n - 1
  BY <1>2, <1>4, <1>5, <1>6 DEF PagesFor, PageOf
<1>8. PICK z \in Nat \ {0} : z = PageSize
  BY <1>1
<1>9. PICK c \in Nat : c = z * q
  BY ONLY <1>8, q \in Nat
<1>10. PICK d \in Nat : d = z * p
  BY ONLY <1>8, p \in Nat
<1>11. PICK e \in Nat : e = z * n
  BY ONLY <1>8, n \in Nat
<1>12. /\ start = c + r /\ a = d + t /\ l <= e /\ l = r + length
       /\ r \in 0 .. z - 1 /\ t \in 0 .. z - 1
  BY <1>2, <1>3, <1>4, <1>6, <1>8, <1>9, <1>10, <1>11
<1>13. c <= a
  <2>1. RoundDown(start, PageSize) = start - r
    BY <1>2 DEF RoundDown
  <2>2. start - r <= a
    BY <2>1
  <2> QED
    BY ONLY <1>12, <2>2, c \in Nat, <1>8, a \in Nat
<1>14. c < d + z /\ d < c + e
  BY ONLY <1>12, <1>13, a < start + length, length \in Nat, a \in Nat, start \in Nat,
          c \in Nat, d \in Nat, e \in Nat, z \in Nat
<1>15. q < p + 1
  <2>1. z * (p + 1) = d + z
    BY ONLY <1>8, <1>10, p \in Nat
  <2>2. z * q < z * (p + 1) /\ p + 1 \in Nat
    BY ONLY <1>9, <1>14, <2>1, p \in Nat
  <2> QED
    BY ONLY <1>8, <2>2, q \in Nat, LessFactor
<1>16. p < q + n
  <2>1. z * (q + n) = c + e
    BY ONLY <1>8, <1>9, <1>11, q \in Nat, n \in Nat
  <2>2. z * p < z * (q + n) /\ q + n \in Nat
    BY ONLY <1>10, <1>14, <2>1, q \in Nat, n \in Nat
  <2> QED
    BY ONLY <1>8, <2>2, p \in Nat, LessFactor
<1>17. p \in q .. q + n - 1
  BY ONLY <1>15, <1>16, p \in Nat, q \in Nat, n \in Nat
<1> QED
  BY <1>3, <1>7, <1>17

(* Pages that are all in RAM hold nothing beyond its end.                  *)
LEMMA PagesInRam ==
  ASSUME NEW start \in Nat, NEW length \in Nat \ {0}, (start % PageSize) + length < Word,
         PagesFor(start, length) \subseteq 0 .. Pages - 1
  PROVE  start + length <= Pages * PageSize
<1> DEFINE a == start + length - 1
<1>1. PageSize \in Nat \ {0} /\ Pages \in Nat
  BY UefiAssumption
<1>2. a \in Nat /\ a < start + length /\ start <= a
  OBVIOUS
<1>3. PageOf(a) \in 0 .. Pages - 1
  <2>1. RoundDown(start, PageSize) <= a
    BY <1>1, <1>2, RoundDownIs
  <2> HIDE DEF a
  <2>2. PageOf(a) \in PagesFor(start, length)
    BY <1>2, <2>1, InPages
  <2> QED
    BY <2>2
<1>4. PICK p \in Nat, r \in 0 .. PageSize - 1 : p = PageOf(a) /\ a = PageSize * p + r
  BY <1>2, PageOfIs
<1>5. PageSize * p + PageSize <= Pages * PageSize
  BY <1>1, <1>3, <1>4
<1> QED
  BY <1>1, <1>4, <1>5

-----------------------------------------------------------------------------
(* The pages of the image are the loader's from the header on, also in a   *)
(* loader that was started again: it gets no further.                      *)
Allocated ==
  {"record", "data", "close.run", "run", "gdt", "map", "exit", "kernel", "returned"}
ImagePages == PagesFor(image.start, AllocatedLength)
HasPages ==
  /\ image # NoFile /\ Top(image.start, image.size) >= image.start
  /\ ImagePages \subseteq owned
PagesInv ==
  /\ owned \subseteq 0 .. Pages - 1 /\ owned \cap taken = {}
  /\ stage \in Allocated => HasPages
  /\ ~plain => HasPages /\ stage \notin Allocated
  /\ stage = "data" => InRange /\ need + Len(given) = Record.length

(* The boot arguments and their page; what is written has a page.          *)
ArgsInv ==
  /\ DOMAIN args = {"valid", "launch"} /\ pAvailMem \in Nat
  /\ args.valid => ArgsPages \subseteq owned
  /\ plain /\ stage = "init" => ~args.valid
  /\ plain /\ args.valid => pAvailMem = BufferAt(ArgsAt)
WrittenInv ==
  /\ stage = "init" => written = {}
  /\ MemoryRespected

(* Records that are read are in place, and fit the image.                  *)
Early == {"init", "protocols", "acpi", "config", "preload", "uldr", "os", "open", "seek",
          "ask", "sign", "header"}
Loaded == Allocated \ {"returned"}
Complete == {"close.run", "run", "gdt", "map", "exit", "kernel"}
Fits(i) ==
  LET r == image.records[i]
  IN image.start <= r.address /\ r.address + r.length <= image.start + image.size
WholeInv ==
  /\ DOMAIN mem = 0 .. Pages * PageSize - 1
  /\ stage \in Early => next = 1
  /\ stage \in Loaded =>
       /\ \A i \in 1 .. next - 1 : InPlace(i) /\ Fits(i) /\ image.records[i].right
       /\ \A a \in ClearAbove : mem[a] = Zero
  /\ stage \in Complete =>
       /\ next = Records + 1 /\ WholeSize <= image.cut
       /\ loader.run = Physical(image.launch)

(* What the jump depends on.                                               *)
JumpInv ==
  /\ stage \in {"gdt", "map", "exit", "kernel"} =>
       address = IF Physical(image.launch) = 0 THEN args.launch ELSE Physical(image.launch)
  /\ stage = "kernel" => ~services
Stages ==
  Early \cup Allocated \cup {"close", "spin", "lost"}
SettingsInv ==
  /\ stage \in Stages /\ starts \in 1 .. MaxStarts
  /\ DOMAIN loader = {"device", "update", "run"}
  /\ loader.device \in {"none", "store", "edbg"} /\ loader.run \in Nat
  /\ var \in Variables \cup {NoVariable, DefaultVariable}
BooleanInv == {broke, services, loader.update} \subseteq BOOLEAN

RespectInv == StreamInv /\ PagesInv /\ ArgsInv /\ WrittenInv
BootInv == RespectInv /\ WholeInv /\ JumpInv /\ SettingsInv /\ BooleanInv

-----------------------------------------------------------------------------
(* An image whose pages are in RAM lies in RAM with the memory behind it,  *)
(* where BootImageVAtoPA maps every address to itself.                     *)
LEMMA ImageFits ==
  ASSUME Layout, image \in Files, image # NoFile,
         Top(image.start, image.size) >= image.start, ImagePages \subseteq 0 .. Pages - 1
  PROVE  /\ image.start \in Nat /\ image.size \in Nat
         /\ AllocatedLength = image.size + ExtraLength
         /\ Top(image.start, image.size) = image.start + image.size
         /\ image.start + image.size + ExtraLength <= Pages * PageSize
         /\ image.start + image.size <= PhysicalSpan
<1>1. /\ Word \in Nat \ {0} /\ Pages \in Nat /\ PageSize \in Nat \ {0}
      /\ ExtraLength \in Nat \ {0} /\ PhysicalSpan \in Nat \ {0}
      /\ Pages * PageSize \in Nat
  BY UefiAssumption
<1>2. image.start \in 0 .. Word - 1 /\ image.size \in 0 .. Word - 1
  BY ImageAssumption
<1>3. /\ (image.start % PageSize) + image.size + ExtraLength < Word
      /\ Pages * PageSize <= PhysicalSpan \/ image.start + image.size <= PhysicalSpan
      /\ image.start % PageSize \in Nat
  BY <1>1, <1>2 DEF Layout
<1>4. AllocatedLength = image.size + ExtraLength
  <2>1. image.size + ExtraLength \in Nat /\ image.size + ExtraLength < Word
    BY <1>1, <1>2, <1>3
  <2> QED
    BY <1>1, <2>1, ModSmall DEF AllocatedLength
<1>5. PICK s \in Nat, z \in Nat : s = image.start /\ z = image.size
  BY <1>1, <1>2
<1>6. Top(s, z) = s + z /\ s + z < Word
  BY <1>2, <1>5, TopIsSum
<1>7. ImagePages = PagesFor(s, z + ExtraLength) /\ z + ExtraLength \in Nat \ {0}
  BY <1>1, <1>4, <1>5 DEF ImagePages
<1>9. s + z + ExtraLength <= Pages * PageSize
  <2>1. (s % PageSize) + (z + ExtraLength) < Word
    BY <1>1, <1>3, <1>5
  <2>2. s + (z + ExtraLength) <= Pages * PageSize
    BY <1>7, <2>1, PagesInRam
  <2> QED
    BY <1>1, <2>2
<1>10. s + z <= PhysicalSpan
  BY <1>1, <1>3, <1>5, <1>9
<1> QED
  BY <1>4, <1>5, <1>6, <1>9, <1>10

(* What is cleared lies in the image's pages, and ends near their end.     *)
LEMMA ClearedFits ==
  ASSUME NEW s \in Nat, NEW z \in Nat, NEW c,
         c = RoundDown(BufferAt(s) + z, DWordSize)
  PROVE  /\ c \in Nat /\ RoundDown(s, PageSize) <= c /\ c <= s + z
         /\ s + z < c + PageSize + DWordSize
<1>1. PageSize \in Nat \ {0} /\ DWordSize \in Nat \ {0} /\ PageSize % DWordSize = 0
  BY UefiAssumption
<1>2. PICK b \in Nat : b = RoundDown(s, PageSize) /\ b <= s /\ s < b + PageSize
  BY <1>1, RoundDownIs
<1>9. PICK f \in Nat : f = BufferAt(s) /\ b <= f /\ f <= s
  BY <1>2, BufferAtIs
<1>3. PICK k \in Nat : b = PageSize * k
  BY <1>1, <1>2, RoundDownIs, DivMod
<1>4. PICK e \in Nat : PageSize = DWordSize * e
  <2>1. /\ PageSize \div DWordSize \in Nat
        /\ PageSize = DWordSize * (PageSize \div DWordSize) + (PageSize % DWordSize)
    BY <1>1, DivMod
  <2>2. PICK q \in Nat : q = PageSize \div DWordSize
    BY <2>1
  <2>3. PageSize = DWordSize * q + 0
    BY <1>1, <2>1, <2>2
  <2> QED
    BY <1>1, <2>3
<1>5. PICK j \in Nat : j = e * k /\ b = DWordSize * j
  BY <1>1, <1>3, <1>4
<1>6. f + z \in Nat /\ DWordSize * j <= f + z
  BY <1>1, <1>2, <1>5, <1>9
<1>7. c \in Nat /\ c <= f + z /\ f + z < c + DWordSize
  BY <1>1, <1>6, <1>9, RoundDownIs
<1>8. b <= c
  BY <1>1, <1>5, <1>6, <1>9, RoundDownAbove
<1> QED
  BY <1>1, <1>2, <1>7, <1>8, <1>9

(* BootImageVAtoPA, which keeps what lies below its span.                  *)
LEMMA PhysicalIs ==
  ASSUME NEW a \in Nat
  PROVE  Physical(a) \in Nat /\ (a < PhysicalSpan => Physical(a) = a)
<1>1. PhysicalSpan \in Nat \ {0} /\ 2 * PhysicalSpan \in Nat \ {0}
  BY UefiAssumption
<1>2. PICK r \in 0 .. PhysicalSpan - 1 : r = a % PhysicalSpan
  BY <1>1, DivMod
<1>3. Physical(a) \in {r, r + 2 * PhysicalSpan}
  BY <1>2 DEF Physical
<1>4. ASSUME a < PhysicalSpan PROVE Physical(a) = a
  <2>1. r = a
    BY <1>1, <1>2, <1>4, ModSmall
  <2>2. PICK q \in Nat, t \in 0 .. 2 * PhysicalSpan - 1 :
          q = a \div (2 * PhysicalSpan) /\ a = (2 * PhysicalSpan) * q + t
    BY <1>1, DivMod
  <2>3. q = 0
    BY <1>1, <1>4, <2>2
  <2>4. Bit30(a) = 0
    BY <2>2, <2>3 DEF Bit30
  <2> QED
    BY <1>1, <1>2, <2>1, <2>4 DEF Physical
<1> QED
  BY <1>1, <1>2, <1>3, <1>4

(* A record in range lies in the image.                                    *)
LEMMA RecordFits ==
  ASSUME Layout, image \in Files, image # NoFile, next \in 1 .. Records,
         Top(image.start, image.size) >= image.start, ImagePages \subseteq 0 .. Pages - 1,
         InRange
  PROVE  /\ Fits(next) /\ Record.address \in Nat /\ Record.length \in Nat
         /\ Record.length > 0 => Placed = Record.address
<1>1. Record.address \in 0 .. Word - 1 /\ Record.length \in 0 .. Word - 1
  BY ImageAssumption DEF Record, Records
<1>2. Record.address \in Nat /\ Record.length \in Nat /\ PhysicalSpan \in Nat \ {0}
  BY <1>1, UefiAssumption
<1>3. /\ Top(Record.address, Record.length) = Record.address + Record.length
      /\ Top(image.start, image.size) = image.start + image.size
      /\ image.start + image.size <= PhysicalSpan
      /\ image.start \in Nat /\ image.size \in Nat
  BY <1>1, TopIsSum, ImageFits DEF InRange
<1>4. Fits(next)
  BY <1>3 DEF InRange, Fits, Record
<1>5. ASSUME Record.length > 0 PROVE Placed = Record.address
  <2>1. Record.address < PhysicalSpan
    BY <1>2, <1>3, <1>4, <1>5 DEF Fits, Record
  <2> QED
    BY <1>2, <2>1, PhysicalIs DEF Placed
<1> QED
  BY <1>2, <1>4, <1>5

-----------------------------------------------------------------------------
(* The pages behind addresses the loader writes to.                        *)
LEMMA ArgsPlace ==
  ASSUME Layout,
         NEW a \in {ArgsAt, ArgsAt + PageSize - 1} \cup Bytes(BufferAt(ArgsAt), GdtSize)
  PROVE  PageOf(a) \in ArgsPages
<1>1. /\ PageSize \in Nat \ {0} /\ ArgsAt \in Nat /\ GdtSize \in Nat /\ Word \in Nat
      /\ ArgsAt + PageSize < Word /\ GdtSize <= PageSize
  BY UefiAssumption DEF Layout
<1>2. PICK b \in Nat, f \in Nat :
        b = RoundDown(ArgsAt, PageSize) /\ f = BufferAt(ArgsAt) /\ b <= f /\ f <= ArgsAt
  BY <1>1, BufferAtIs
<1>3. a \in Nat /\ b <= a /\ a < ArgsAt + PageSize
  BY <1>1, <1>2 DEF Bytes
<1>4. (ArgsAt % PageSize) + PageSize < Word
  <2>1. PICK r \in Nat : r = ArgsAt % PageSize
    BY <1>1, DivMod
  <2>2. r <= ArgsAt
    BY <1>1, <2>1, RoundDownIs DEF RoundDown
  <2> QED
    BY <1>1, <2>1, <2>2
<1> QED
  BY <1>1, <1>2, <1>3, <1>4, InPages DEF ArgsPages

LEMMA ImageByte ==
  ASSUME Layout, image \in Files, image # NoFile,
         Top(image.start, image.size) >= image.start, ImagePages \subseteq 0 .. Pages - 1,
         NEW a \in Nat, RoundDown(image.start, PageSize) <= a,
         a < image.start + image.size + ExtraLength
  PROVE  PageOf(a) \in ImagePages /\ a \in 0 .. Pages * PageSize - 1
<1>1. /\ Word \in Nat /\ Pages * PageSize <= Word /\ ExtraLength \in Nat
      /\ Pages * PageSize \in Nat
  BY UefiAssumption
<1>2. /\ image.start \in Nat /\ image.size \in Nat
      /\ AllocatedLength = image.size + ExtraLength
      /\ image.start + image.size + ExtraLength <= Pages * PageSize
  BY ImageFits
<1>3. PICK s \in Nat, n \in Nat : s = image.start /\ n = AllocatedLength
  BY <1>1, <1>2
<1>4. a < s + n /\ a < Pages * PageSize
  BY <1>1, <1>2, <1>3
<1>5. (s % PageSize) + n < Word
  <2>1. image.start % PageSize \in Nat
    BY <1>2, UefiAssumption
  <2>2. (image.start % PageSize) + image.size + ExtraLength < Word
    BY DEF Layout
  <2> QED
    BY <1>1, <1>2, <1>3, <2>1, <2>2
<1>6. PageOf(a) \in PagesFor(s, n)
  BY <1>3, <1>4, <1>5, InPages
<1> QED
  BY <1>1, <1>3, <1>4, <1>6 DEF ImagePages

LEMMA ImageHasPage ==
  ASSUME Layout, image \in Files, image # NoFile,
         Top(image.start, image.size) >= image.start, ImagePages \subseteq 0 .. Pages - 1
  PROVE  ImagePages # {}
<1>1. /\ image.start \in Nat /\ image.size \in Nat /\ ExtraLength \in Nat \ {0}
      /\ PageSize \in Nat \ {0}
  BY ImageFits, UefiAssumption
<1>2. PICK a \in Nat : a = image.start
  BY <1>1
<1>3. RoundDown(image.start, PageSize) <= a /\ a < image.start + image.size + ExtraLength
  <2>1. RoundDown(a, PageSize) <= a
    BY <1>1, RoundDownIs
  <2> QED
    BY <1>1, <1>2, <2>1
<1> QED
  BY <1>3, ImageByte

-----------------------------------------------------------------------------
(* What a step must leave alone.                                           *)
LEMMA PagesFrame ==
  ASSUME PagesInv, UNCHANGED <<image, owned, taken, plain>>,
         stage' \in Allocated => stage \in Allocated, stage' # "data"
  PROVE  PagesInv'
BY DEF PagesInv, HasPages, ImagePages, AllocatedLength

LEMMA ArgsFrame ==
  ASSUME ArgsInv, UNCHANGED <<args, pAvailMem, plain>>, owned \subseteq owned', stage' # "init"
  PROVE  ArgsInv'
BY DEF ArgsInv, ArgsPages

LEMMA WrittenFrame ==
  ASSUME WrittenInv, args'.valid = args.valid, owned \subseteq owned', stage' # "init",
         NEW W, written' = written \cup W,
         args.valid => \A a \in W : PageOf(a) \in owned'
  PROVE  WrittenInv'
BY DEF WrittenInv, MemoryRespected

Quiet ==
  \/ OEMBootInit \/ BootLoaderConfig \/ BootLoaderPreLoad \/ BootLoaderLoadUldr
  \/ BootFileSystemInit \/ OpenImage \/ CleanUp \/ Seek \/ AskSign
  \/ ReadSign \/ BadSign \/ BadHeader \/ NoRoom
  \/ BadRecord \/ ReadLastRecord \/ ReadData \/ BadData
  \/ GetMemoryMap \/ ExitBootServices

LEMMA QuietStep ==
  ASSUME Quiet
  PROVE  /\ UNCHANGED <<image, owned, taken, plain, args, pAvailMem, written, mem>>
         /\ stage' \notin {"init", "data"} /\ (stage' \in Allocated => stage \in Allocated)
<1> USE DEF Goes, load, ram, Settled, machine, NoFileCall, Refused, fileVars, Allocated
<1>1. CASE OEMBootInit \/ BootLoaderPreLoad \/ BootLoaderLoadUldr \/ BootFileSystemInit
  BY <1>1 DEF OEMBootInit, BootLoaderPreLoad, BootLoaderLoadUldr, BootFileSystemInit
<1>2. CASE BootLoaderConfig
  BY <1>2 DEF BootLoaderConfig
<1>3. CASE OpenImage \/ CleanUp \/ Seek \/ AskSign \/ ReadSign
  BY <1>3 DEF OpenImage, CleanUp, Seek, AskSign, ReadSign, BootFileSystemOpen,
     BootFileSystemOpenFails, BootFileSystemClose, BootFileSystemRewind, Asks
<1>4. CASE BadSign \/ BadHeader \/ NoRoom \/ BadRecord \/ BadData
  BY <1>4 DEF BadSign, BadHeader, NoRoom, NotAllocated, BadRecord, BadData
<1>5. CASE ReadLastRecord \/ ReadData
  BY <1>5 DEF ReadLastRecord, ReadData, Asks
<1>6. CASE GetMemoryMap \/ ExitBootServices
  BY <1>6 DEF GetMemoryMap, ExitBootServices
<1> QED
  BY <1>1, <1>2, <1>3, <1>4, <1>5, <1>6 DEF Quiet

LEMMA QuietRespects ==
  ASSUME RespectInv, Quiet
  PROVE  PagesInv' /\ ArgsInv' /\ WrittenInv'
<1>1. /\ UNCHANGED <<image, owned, taken, plain, args, pAvailMem, written>>
      /\ stage' \notin {"init", "data"} /\ (stage' \in Allocated => stage \in Allocated)
  BY QuietStep
<1>2. PagesInv'
  BY <1>1, PagesFrame DEF RespectInv
<1>3. ArgsInv'
  BY <1>1, ArgsFrame DEF RespectInv
<1>4. WrittenInv'
  BY <1>1 DEF RespectInv, WrittenInv, MemoryRespected
<1> QED
  BY <1>2, <1>3, <1>4

LEMMA ArgsInitRespects ==
  ASSUME Layout, RespectInv, BootArgsInit
  PROVE  PagesInv' /\ ArgsInv' /\ WrittenInv'
<1>1. /\ stage = "init" /\ stage' = "protocols" /\ written = {}
      /\ UNCHANGED <<image, taken, plain>>
  BY DEF BootArgsInit, NoFileCall, machine, Goes, RespectInv, WrittenInv
<1>2. plain => ~args.valid
  BY <1>1 DEF RespectInv, ArgsInv
<1>3. CASE ~args.valid /\ AllocateImageBuffer(ArgsAt, PageSize)
           /\ args' = [valid |-> TRUE, launch |-> 0]
           /\ pAvailMem' = BufferAt(ArgsAt) /\ written' = written \cup {ArgsAt}
  <2>1. owned' = owned \cup ArgsPages /\ owned' \subseteq 0 .. Pages - 1
        /\ owned' \cap taken' = {}
    BY <1>1, <1>3 DEF AllocateImageBuffer, ArgsPages, RespectInv, PagesInv
  <2>2. PagesInv'
    BY <1>1, <2>1 DEF RespectInv, PagesInv, HasPages, ImagePages, AllocatedLength, Allocated
  <2>3. ArgsInv'
    <3>1. BufferAt(ArgsAt) \in Nat
      BY UefiAssumption, BufferAtIs
    <3>2. DOMAIN args' = {"valid", "launch"}
      BY <1>3
    <3> QED
      BY <1>1, <1>3, <2>1, <3>1, <3>2 DEF ArgsInv, ArgsPages
  <2>4. WrittenInv'
    BY <1>1, <1>3, <2>1, ArgsPlace DEF WrittenInv, MemoryRespected
  <2> QED
    BY <2>2, <2>3, <2>4
<1>4. CASE UNCHANGED <<args, pAvailMem, written, owned>>
             /\ (args.valid \/ NotAllocated(ArgsAt, PageSize))
  <2>1. PagesInv'
    BY <1>1, <1>4, PagesFrame DEF RespectInv, Allocated
  <2>2. ArgsInv'
    BY <1>1, <1>4, ArgsFrame DEF RespectInv
  <2>3. WrittenInv'
    BY <1>1, <1>4 DEF WrittenInv, MemoryRespected
  <2> QED
    BY <2>1, <2>2, <2>3
<1> QED
  BY <1>3, <1>4 DEF BootArgsInit, NotAllocated

(* The ACPI pointer, the start address and the GDT go to the arguments'    *)
(* page, if there is one.                                                  *)
LEMMA ArgsWritesRespect ==
  ASSUME Layout, RespectInv, FindAcpiTable \/ OEMBootRun \/ RelocateGDT
  PROVE  PagesInv' /\ ArgsInv' /\ WrittenInv'
<1>1. /\ UNCHANGED <<image, owned, taken, plain, pAvailMem>>
      /\ stage' \notin {"init", "data"} /\ (stage' \in Allocated => stage \in Allocated)
  BY DEF FindAcpiTable, OEMBootRun, RelocateGDT, NoFileCall, fileVars, Settled, machine,
     Goes, Allocated
<1>2. PagesInv'
  BY <1>1, PagesFrame DEF RespectInv
<1>3. args'.valid = args.valid /\ DOMAIN args' = DOMAIN args
  BY DEF FindAcpiTable, OEMBootRun, RelocateGDT, Settled, RespectInv, ArgsInv
<1>4. ArgsInv'
  BY <1>1, <1>3 DEF RespectInv, ArgsInv, ArgsPages
<1>5. \E W \in SUBSET ({ArgsAt, ArgsAt + PageSize - 1} \cup Bytes(pAvailMem, GdtSize)) :
         /\ written' = written \cup W
         /\ stage = "gdt" \/ W \subseteq {ArgsAt, ArgsAt + PageSize - 1}
  <2>1. CASE FindAcpiTable /\ written' = written \cup {ArgsAt + PageSize - 1}
    BY <2>1
  <2>2. CASE OEMBootRun
    BY <2>2 DEF OEMBootRun
  <2>3. CASE RelocateGDT
    BY <2>3 DEF RelocateGDT
  <2>4. CASE FindAcpiTable /\ written' = written
    <3>1. written' = written \cup {}
      BY <2>4
    <3>2. /\ {} \in SUBSET ({ArgsAt, ArgsAt + PageSize - 1} \cup Bytes(pAvailMem, GdtSize))
          /\ {} \subseteq {ArgsAt, ArgsAt + PageSize - 1}
      OBVIOUS
    <3> QED
      BY <3>1, <3>2, Zenon
  <2> QED
    BY <2>1, <2>2, <2>3, <2>4 DEF FindAcpiTable
<1>6. PICK W : /\ W \subseteq {ArgsAt, ArgsAt + PageSize - 1} \cup Bytes(pAvailMem, GdtSize)
               /\ written' = written \cup W
               /\ stage = "gdt" \/ W \subseteq {ArgsAt, ArgsAt + PageSize - 1}
  BY <1>5
<1>7. args.valid => \A a \in W : PageOf(a) \in owned'
  <2>1. stage = "gdt" /\ args.valid => pAvailMem = BufferAt(ArgsAt)
    BY DEF RespectInv, PagesInv, ArgsInv, Allocated
  <2>2. args.valid => ArgsPages \subseteq owned'
    BY <1>1 DEF RespectInv, ArgsInv
  <2> QED
    BY <1>6, <2>1, <2>2, ArgsPlace
<1>8. WrittenInv'
  BY <1>1, <1>3, <1>6, <1>7, WrittenFrame DEF RespectInv
<1> QED
  BY <1>2, <1>4, <1>8

LEMMA HeaderRespects ==
  ASSUME Layout, RespectInv, ReadHeader
  PROVE  PagesInv' /\ ArgsInv' /\ WrittenInv'
<1>1. /\ stage = "header" /\ stage' = "record" /\ owned' = owned \cup ImagePages
      /\ ImagePages \subseteq (0 .. Pages - 1) \ (taken \cup owned)
      /\ written' = written \cup Cleared /\ Top(image.start, image.size) >= image.start
      /\ UNCHANGED <<image, taken, plain, args, pAvailMem>>
  BY DEF ReadHeader, HeaderRight, AllocateImageBuffer, ImagePages, Goes, Asks, Settled, machine
<1>2. image \in Files /\ image # NoFile
  BY <1>1 DEF RespectInv, StreamInv, FileInv, FileTypes, FlowInv, Reading
<1>3. ImagePages # {}
  BY <1>1, <1>2, ImageHasPage
<1>4. plain
  BY <1>1, <1>3 DEF RespectInv, PagesInv, HasPages
<1>5. PagesInv'
  BY <1>1, <1>2, <1>4 DEF RespectInv, PagesInv, HasPages, ImagePages, AllocatedLength
<1>6. ArgsInv'
  BY <1>1, ArgsFrame DEF RespectInv
<1>7. \A a \in Cleared : PageOf(a) \in owned'
  <2>1. PICK s \in Nat, z \in Nat : s = image.start /\ z = image.size
    BY <1>1, <1>2, ImageFits
  <2>2. PICK c \in Nat : /\ c = RoundDown(BufferAt(s) + z, DWordSize)
                          /\ RoundDown(s, PageSize) <= c /\ c <= s + z
    BY ClearedFits
  <2>3. ExtraLength \in Nat /\ RoundDown(s, PageSize) \in Nat
    BY UefiAssumption, RoundDownIs
  <2>4. ASSUME NEW a \in Cleared PROVE PageOf(a) \in ImagePages
    <3>1. a \in Nat /\ c <= a /\ a < c + ExtraLength
      BY <2>1, <2>2, <2>3 DEF Cleared, Bytes
    <3>2. RoundDown(s, PageSize) <= a /\ a < s + z + ExtraLength
      BY <2>2, <2>3, <3>1
    <3> QED
      BY <1>1, <1>2, <2>1, <3>1, <3>2, ImageByte
  <2> QED
    BY <1>1, <2>4
<1>8. WrittenInv'
  BY <1>1, <1>7, WrittenFrame DEF RespectInv
<1> QED
  BY <1>5, <1>6, <1>8

(* A piece of a record lies in the image, behind the pieces before it.     *)
LEMMA PieceFits ==
  ASSUME Layout, RespectInv, stage = "data", CopyFromBuffer,
         NEW a \in Bytes(Placed + Len(given), CopyLength)
  PROVE  /\ a \in Nat /\ Record.address + Len(given) <= a
         /\ a < Record.address + Record.length
         /\ Placed = Record.address /\ Fits(next) /\ next \in 1 .. Records
         /\ PageOf(a) \in owned /\ a \in 0 .. Pages * PageSize - 1
<1>1. /\ image \in Files /\ image # NoFile /\ next \in 1 .. Records
      /\ Top(image.start, image.size) >= image.start /\ ImagePages \subseteq owned
      /\ owned \subseteq 0 .. Pages - 1 /\ InRange /\ need + Len(given) = Record.length
  <2>1. image \in Files /\ image # NoFile
    BY DEF RespectInv, StreamInv, FileInv, FileTypes, FlowInv, Reading
  <2>2. next \in 1 .. Records
    BY <2>1, RecordsType DEF RespectInv, StreamInv, FlowInv
  <2> QED
    BY <2>1, <2>2 DEF RespectInv, PagesInv, HasPages, Allocated
<1>2. ImagePages \subseteq 0 .. Pages - 1
  BY <1>1
<1>3. /\ Fits(next) /\ Record.address \in Nat /\ Record.length \in Nat
      /\ Record.length > 0 => Placed = Record.address
  BY <1>1, <1>2, RecordFits
<1>4. CopyLength \in 1 .. need /\ Len(given) \in Nat /\ need \in Nat
  BY Pieces DEF RespectInv, StreamInv, CopyFromBuffer, CopyLength, Least, Answered
<1>5. Record.length > 0 /\ Placed = Record.address
  BY <1>1, <1>3, <1>4
<1>6. /\ a \in Nat /\ Record.address + Len(given) <= a
      /\ a < Record.address + Record.length
  BY <1>1, <1>3, <1>4, <1>5 DEF Bytes
<1>7. PageOf(a) \in ImagePages /\ a \in 0 .. Pages * PageSize - 1
  <2>1. /\ image.start \in Nat /\ image.size \in Nat /\ ExtraLength \in Nat
        /\ PageSize \in Nat \ {0}
    BY <1>1, <1>2, ImageFits, UefiAssumption
  <2>2. RoundDown(image.start, PageSize) <= image.start /\ RoundDown(image.start, PageSize) \in Nat
    BY <2>1, RoundDownIs
  <2>3. /\ RoundDown(image.start, PageSize) <= a
        /\ a < image.start + image.size + ExtraLength
    <3>1. /\ image.start <= Record.address
          /\ Record.address + Record.length <= image.start + image.size
      BY <1>3 DEF Fits, Record
    <3>2. image.start <= a /\ a < image.start + image.size
      BY <1>3, <1>4, <1>6, <2>1, <3>1
    <3> QED
      BY <1>6, <2>1, <2>2, <3>2
  <2> QED
    BY <1>1, <1>2, <1>6, <2>3, ImageByte
<1> QED
  BY <1>1, <1>3, <1>5, <1>6, <1>7

LEMMA DataRespects ==
  ASSUME Layout, RespectInv, CopyBytes \/ Fill \/ ReadRecord
  PROVE  PagesInv' /\ ArgsInv' /\ WrittenInv'
<1> USE DEF load, ram, Settled, machine, Goes
<1>1. UNCHANGED <<image, owned, taken, plain, args, pAvailMem, next>>
  BY DEF CopyBytes, Fill, ReadRecord, CopyFromBuffer, FillBuffer, FillFails, Asks
<1>2. /\ stage' # "init" /\ (stage' \in Allocated => stage \in Allocated)
      /\ ~ReadRecord => stage' = stage /\ stage # "init"
  BY DEF CopyBytes, Fill, ReadRecord, Reading, Allocated
<1>3. stage' = "data" => InRange' /\ need' + Len(given') = Record'.length
  <2>1. CASE ReadRecord
    <3>1. InRange' /\ need' = Record.length /\ Record' = Record
      BY <1>1, <2>1 DEF ReadRecord, Asks, InRange, Record, Top
    <3>2. Len(given') = 0
      BY <2>1 DEF ReadRecord, Asks
    <3>3. Record.length \in Nat
      <4>1. image \in Files /\ image # NoFile
        BY <2>1 DEF ReadRecord, RespectInv, StreamInv, FileInv, FileTypes, FlowInv, Reading
      <4>2. next \in 1 .. Records
        BY <2>1, <4>1, RecordsType DEF ReadRecord, LastRecord, RespectInv, StreamInv, FlowInv
      <4> QED
        BY <4>1, <4>2, RecordsType DEF Record
    <3> QED
      BY <3>1, <3>2, <3>3
  <2>2. ASSUME ~ReadRecord, stage' = "data"
        PROVE  InRange' /\ need' + Len(given') = Record'.length
    <3>1. InRange /\ need + Len(given) = Record.length
      BY <1>2, <2>2 DEF RespectInv, PagesInv
    <3>2. InRange' /\ Record' = Record
      BY <1>1, <3>1 DEF InRange, Record, Top
    <3>3. CASE UNCHANGED <<need, given>>
      BY <3>1, <3>2, <3>3
    <3>4. CASE CopyFromBuffer
      <4>1. CopyLength \in Nat /\ need \in Nat /\ Len(given) \in Nat
        BY <3>4, Pieces
        DEF RespectInv, StreamInv, CopyFromBuffer, CopyLength, Least, Answered
      <4>2. need' = need - CopyLength /\ given' = given \o Copied(CopyLength)
        BY <3>4 DEF CopyFromBuffer
      <4>3. /\ given \in Seq({Junk} \cup (0 .. Size))
            /\ Copied(CopyLength) \in Seq({Junk} \cup Int)
            /\ Len(Copied(CopyLength)) = CopyLength
        <5>1. InMemory > 0 /\ FileInv
          BY <3>4 DEF CopyFromBuffer, RespectInv, StreamInv
        <5>2. Copied(CopyLength) = Stream!From(Place, CopyLength) /\ Place \in Nat
          BY <4>1, <5>1, CopiedIsNext, Pieces
        <5>3. PICK n \in Nat, k \in Nat : n = CopyLength /\ k = Place
          BY <4>1, <5>2
        <5>4. Stream!From(k, n) \in Seq({Junk} \cup Int) /\ Len(Stream!From(k, n)) = n
          <6>1. \A i \in 1 .. n : k + i - 1 \in {Junk} \cup Int
            OBVIOUS
          <6> QED
            BY <6>1, FromType
        <5> QED
          BY <5>1, <5>2, <5>3, <5>4 DEF FileInv, FileTypes
      <4>4. Len(given') = Len(given) + CopyLength
        <5>1. given \in Seq({Junk} \cup Int)
          BY <4>3, SizeNat
        <5> QED
          BY <4>2, <4>3, <5>1, ConcatProperties
      <4> QED
        BY <3>1, <3>2, <4>1, <4>2, <4>4
    <3> QED
      BY <2>2, <3>3, <3>4 DEF CopyBytes, Fill, FillBuffer, FillFails
  <2> QED
    BY <2>1, <2>2
<1>4. PagesInv'
  BY <1>1, <1>2, <1>3 DEF RespectInv, PagesInv, HasPages, ImagePages, AllocatedLength
<1>5. ArgsInv'
  BY <1>1, <1>2, ArgsFrame DEF RespectInv
<1>6. \E W : /\ written' = written \cup W
             /\ W = {} \/ (stage = "data" /\ CopyFromBuffer
                            /\ W = Bytes(Placed + Len(given), CopyLength))
  <2>1. CASE CopyBytes /\ stage = "data"
    BY <2>1 DEF CopyBytes
  <2>2. CASE written' = written
    <3>1. written' = written \cup {}
      BY <2>2
    <3> QED
      BY <3>1, Zenon
  <2>3. CASE CopyBytes /\ stage # "data"
    BY <2>2, <2>3 DEF CopyBytes
  <2> QED
    BY <2>1, <2>2, <2>3 DEF Fill, ReadRecord
<1>7. PICK W : /\ written' = written \cup W
               /\ W = {} \/ (stage = "data" /\ CopyFromBuffer
                              /\ W = Bytes(Placed + Len(given), CopyLength))
  BY <1>6
<1>8. \A a \in W : PageOf(a) \in owned'
  BY <1>1, <1>7, PieceFits
<1>9. WrittenInv'
  BY <1>1, <1>2, <1>7, <1>8, WrittenFrame DEF RespectInv
<1> QED
  BY <1>4, <1>5, <1>9

LEMMA RestartRespects ==
  ASSUME RespectInv, PowerCycle \/ StartedAgain
  PROVE  PagesInv' /\ ArgsInv' /\ WrittenInv'
<1>1. /\ stage' = "init" /\ UNCHANGED <<image, taken>> /\ pAvailMem' = 0 /\ written' = {}
  BY DEF PowerCycle, StartedAgain, Restarts, Goes
<1>2. CASE PowerCycle
  <2>1. plain' = TRUE /\ args' = NoArgs /\ owned' = {}
    BY <1>2 DEF PowerCycle, Restarts
  <2>2. DOMAIN args' = {"valid", "launch"} /\ args'.valid = FALSE
    BY <2>1 DEF NoArgs
  <2> QED
    BY <1>1, <2>1, <2>2 DEF PagesInv, ArgsInv, WrittenInv, MemoryRespected, Allocated
<1>3. CASE StartedAgain
  <2>1. plain' = FALSE /\ UNCHANGED <<args, owned>> /\ stage = "returned"
    BY <1>3 DEF StartedAgain, Restarts
  <2>2. HasPages'
    BY <1>1, <2>1 DEF RespectInv, PagesInv, HasPages, ImagePages, AllocatedLength, Allocated
  <2>3. PagesInv'
    BY <1>1, <2>1, <2>2 DEF RespectInv, PagesInv, Allocated
  <2> QED
    BY <1>1, <2>1, <2>3 DEF RespectInv, ArgsInv, WrittenInv, MemoryRespected, ArgsPages
<1> QED
  BY <1>2, <1>3

LEMMA InitRespects == Init => RespectInv
<1> SUFFICES ASSUME Init PROVE RespectInv
  OBVIOUS
<1>1. StreamInv
  BY InitStreamInv
<1>2. /\ stage = "init" /\ written = {} /\ owned = {} /\ pAvailMem = 0 /\ plain = TRUE
      /\ args = NoArgs
  BY DEF Init
<1>3. DOMAIN args = {"valid", "launch"} /\ args.valid = FALSE
  BY <1>2 DEF NoArgs
<1> QED
  BY <1>1, <1>2, <1>3
  DEF RespectInv, PagesInv, ArgsInv, WrittenInv, MemoryRespected, Allocated

LEMMA StepRespects ==
  ASSUME Layout, RespectInv, [Next]_vars
  PROVE  RespectInv'
<1>1. StreamInv'
  BY StepStreamInv DEF RespectInv
<1>2. CASE UNCHANGED vars
  <2>1. UNCHANGED <<image, stage, owned, taken, plain, args, pAvailMem, written, next, need, given>>
    BY <1>2 DEF vars, fileVars, bootVars
  <2>2. PagesInv'
    BY <2>1 DEF RespectInv, PagesInv, HasPages, ImagePages, AllocatedLength, InRange, Record, Top
  <2> QED
    BY <1>1, <2>1, <2>2 DEF RespectInv, ArgsInv, WrittenInv, MemoryRespected, ArgsPages
<1>3. PagesInv' /\ ArgsInv' /\ WrittenInv'
  <2>1. CASE Quiet
    BY <2>1, QuietRespects
  <2>2. CASE FindAcpiTable \/ OEMBootRun \/ RelocateGDT
    BY <2>2, ArgsWritesRespect
  <2>3. CASE CopyBytes \/ Fill \/ ReadRecord
    BY <2>3, DataRespects
  <2> QED
    BY <1>2, <2>1, <2>2, <2>3, ArgsInitRespects, HeaderRespects, RestartRespects
    DEF Next, LoaderStep, Quiet, RespectInv
<1> QED
  BY <1>1, <1>3 DEF RespectInv

(* THEOREM: whatever file the loader is given, as long as it fits the      *)
(* machine, whatever fails and wherever in a page the image begins, every  *)
(* address written to lies in a page allocated to the loader.              *)
THEOREM MemoryRespectedHolds ==
  ASSUME Layout
  PROVE  Spec => []MemoryRespected
<1>1. Init => RespectInv
  BY InitRespects
<1>2. RespectInv /\ [Next]_vars => RespectInv'
  BY StepRespects
<1>3. RespectInv => MemoryRespected
  BY DEF RespectInv, WrittenInv
<1> QED
  BY <1>1, <1>2, <1>3, PTL DEF Spec

-----------------------------------------------------------------------------
(* The settings, and the Boolean variables.                                *)
LEMMA StepSettings ==
  ASSUME RespectInv, SettingsInv, Next
  PROVE  SettingsInv'
<1> USE DEF Goes, load, ram, Settled, machine, SettingsInv, Stages, Early, Allocated
<1>1. CASE BootLoaderConfig
  <2>1. ReadConfigFromGlobalVar \/ DefaultConfig
    BY <1>1 DEF BootLoaderConfig
  <2>2. /\ DOMAIN loader' = {"device", "update", "run"} /\ loader'.run = loader.run
        /\ loader'.device \in {"none", "store", "edbg"}
    <3>1. CASE DefaultConfig
      BY <3>1 DEF DefaultConfig
    <3>2. CASE ReadConfigFromGlobalVar /\ var.current
      <4>1. var.device \in {"store", "edbg"}
        BY <3>2, SettingsAssumption DEF ReadConfigFromGlobalVar, DefaultVariable
      <4> QED
        BY <3>2, <4>1 DEF ReadConfigFromGlobalVar
    <3>3. CASE ReadConfigFromGlobalVar /\ ~var.current
      BY <3>3 DEF ReadConfigFromGlobalVar
    <3> QED
      BY <2>1, <3>1, <3>2, <3>3
  <2>3. var' \in Variables \cup {NoVariable, DefaultVariable}
    BY <2>1 DEF ReadConfigFromGlobalVar, DefaultConfig
  <2>4. stage' \in {"uldr", "preload", "spin"} /\ starts' = starts
    BY <1>1 DEF BootLoaderConfig
  <2> QED
    BY <2>2, <2>3, <2>4
<1>2. CASE ReadLastRecord
  <2>1. image \in Files /\ image # NoFile
    BY <1>2 DEF ReadLastRecord, RespectInv, StreamInv, FileInv, FileTypes, FlowInv, Reading
  <2>2. Physical(image.launch) \in Nat
    <3>1. image.launch \in Nat
      BY <2>1, ImageAssumption
    <3> QED
      BY <3>1, PhysicalIs
  <2> QED
    BY <1>2, <2>2 DEF ReadLastRecord
<1>3. CASE BootArgsInit \/ OEMBootInit \/ FindAcpiTable \/ BootLoaderPreLoad
           \/ BootLoaderLoadUldr \/ BootFileSystemInit
  BY <1>3 DEF BootArgsInit, OEMBootInit, FindAcpiTable, BootLoaderPreLoad,
     BootLoaderLoadUldr, BootFileSystemInit
<1>4. CASE OpenImage \/ CleanUp \/ Seek \/ AskSign \/ CopyBytes \/ Fill
  BY <1>4 DEF OpenImage, CleanUp, Seek, AskSign, CopyBytes, Fill
<1>5. CASE ReadSign \/ ReadHeader \/ NoRoom \/ ReadRecord \/ ReadData
  BY <1>5 DEF ReadSign, ReadHeader, NoRoom, ReadRecord, ReadData
<1>6. CASE BadSign \/ BadHeader \/ BadRecord \/ BadData
  BY <1>6 DEF BadSign, BadHeader, BadRecord, BadData, Refused
<1>7. CASE OEMBootRun \/ RelocateGDT \/ GetMemoryMap \/ ExitBootServices
  BY <1>7 DEF OEMBootRun, RelocateGDT, GetMemoryMap, ExitBootServices
<1>8. CASE PowerCycle \/ StartedAgain
  <2>1. starts' \in 1 .. MaxStarts
    BY <1>8, UefiAssumption DEF PowerCycle, StartedAgain, Restarts
  <2>2. stage' = "init" /\ loader' = NoLoader /\ var' = var
    BY <1>8 DEF PowerCycle, StartedAgain, Restarts
  <2> QED
    BY <2>1, <2>2 DEF NoLoader
<1> QED
  BY <1>1, <1>2, <1>3, <1>4, <1>5, <1>6, <1>7, <1>8 DEF Next, LoaderStep

LEMMA StepBoolean ==
  ASSUME SettingsInv, BooleanInv, [Next]_vars
  PROVE  BooleanInv'
<1>1. broke' \in {broke, TRUE, FALSE}
  <2> USE DEF NoFileCall, Refused, fileVars, FreshBuffer, Asks
  <2>1. CASE Elsewhere
    BY <2>1, ElsewhereStill
  <2>2. CASE OpenImage \/ CleanUp \/ Seek \/ CopyBytes \/ Fill
    BY <2>2 DEF OpenImage, CleanUp, Seek, CopyBytes, Fill, BootFileSystemOpen,
       BootFileSystemOpenFails, BootFileSystemClose, BootFileSystemRewind,
       CopyFromBuffer, FillBuffer, FillFails
  <2>3. CASE AskSign \/ ReadSign \/ ReadHeader \/ ReadRecord \/ ReadData
    BY <2>3 DEF AskSign, ReadSign, ReadHeader, ReadRecord, ReadData
  <2>4. CASE PowerCycle \/ StartedAgain \/ UNCHANGED vars
    BY <2>4 DEF PowerCycle, StartedAgain, Restarts, vars
  <2> QED
    BY <2>1, <2>2, <2>3, <2>4 DEF Next, LoaderStep, Elsewhere
<1>2. services' \in {services, TRUE, FALSE}
  <2> USE DEF Settled, machine, Refused
  <2>1. CASE BootArgsInit \/ OEMBootInit \/ FindAcpiTable \/ BootLoaderConfig
             \/ BootLoaderPreLoad \/ BootLoaderLoadUldr \/ BootFileSystemInit
    BY <2>1 DEF BootArgsInit, OEMBootInit, FindAcpiTable, BootLoaderConfig,
       BootLoaderPreLoad, BootLoaderLoadUldr, BootFileSystemInit
  <2>2. CASE OpenImage \/ CleanUp \/ Seek \/ AskSign \/ CopyBytes \/ Fill
             \/ ReadSign \/ BadSign \/ ReadHeader \/ BadHeader \/ NoRoom
    BY <2>2 DEF OpenImage, CleanUp, Seek, AskSign, CopyBytes, Fill, ReadSign, BadSign,
       ReadHeader, BadHeader, NoRoom
  <2>3. CASE ReadRecord \/ BadRecord \/ ReadLastRecord \/ ReadData \/ BadData
             \/ OEMBootRun \/ RelocateGDT \/ GetMemoryMap \/ ExitBootServices
    BY <2>3 DEF ReadRecord, BadRecord, ReadLastRecord, ReadData, BadData, OEMBootRun,
       RelocateGDT, GetMemoryMap, ExitBootServices
  <2>4. CASE PowerCycle \/ StartedAgain \/ UNCHANGED vars
    BY <2>4 DEF PowerCycle, StartedAgain, Restarts, vars, bootVars
  <2> QED
    BY <2>1, <2>2, <2>3, <2>4 DEF Next, LoaderStep
<1>3. loader'.update \in BOOLEAN
  <2>1. loader.update \in BOOLEAN /\ DOMAIN loader = {"device", "update", "run"}
    BY DEF BooleanInv, SettingsInv
  <2>2. CASE BootLoaderConfig
    <3>1. CASE DefaultConfig
      BY <2>1, <3>1 DEF DefaultConfig
    <3>2. CASE ReadConfigFromGlobalVar /\ var.current
      <4>1. var.update \in BOOLEAN
        <5>1. CASE var = DefaultVariable
          BY <5>1 DEF DefaultVariable
        <5>2. CASE var \in Variables
          BY <5>2, SettingsAssumption, Zenon
        <5> QED
          BY <3>2, <5>1, <5>2 DEF ReadConfigFromGlobalVar, SettingsInv
      <4> QED
        BY <2>1, <3>2, <4>1 DEF ReadConfigFromGlobalVar
    <3>3. CASE ReadConfigFromGlobalVar /\ ~var.current
      BY <2>1, <3>3 DEF ReadConfigFromGlobalVar
    <3> QED
      BY <2>2, <3>1, <3>2, <3>3 DEF BootLoaderConfig
  <2>3. CASE ReadLastRecord
    BY <2>1, <2>3 DEF ReadLastRecord
  <2>4. CASE PowerCycle \/ StartedAgain
    <3>1. loader' = NoLoader
      BY <2>4 DEF PowerCycle, StartedAgain, Restarts
    <3>2. NoLoader.update = FALSE
      BY DEF NoLoader
    <3> QED
      BY <3>1, <3>2
  <2>5. CASE BootArgsInit \/ OEMBootInit \/ FindAcpiTable
             \/ BootLoaderPreLoad \/ BootLoaderLoadUldr \/ BootFileSystemInit
             \/ OpenImage \/ CleanUp \/ Seek \/ AskSign \/ CopyBytes \/ Fill
             \/ UNCHANGED vars
    BY <2>1, <2>5 DEF BootArgsInit, OEMBootInit, FindAcpiTable, load,
       BootLoaderPreLoad, BootLoaderLoadUldr, BootFileSystemInit,
       OpenImage, CleanUp, Seek, AskSign, CopyBytes, Fill, vars, bootVars
  <2>6. CASE ReadSign \/ BadSign \/ ReadHeader \/ BadHeader \/ NoRoom
             \/ ReadRecord \/ BadRecord \/ ReadData \/ BadData
             \/ OEMBootRun \/ RelocateGDT \/ GetMemoryMap \/ ExitBootServices
    BY <2>1, <2>6 DEF ReadSign, BadSign, ReadHeader, BadHeader, NoRoom, load, Refused,
       ReadRecord, BadRecord, ReadData, BadData, OEMBootRun,
       RelocateGDT, GetMemoryMap, ExitBootServices
  <2> QED
    BY <2>2, <2>3, <2>4, <2>5, <2>6 DEF Next, LoaderStep
<1>4. broke' \in BOOLEAN /\ services' \in BOOLEAN
  BY <1>1, <1>2 DEF BooleanInv
<1> QED
  BY <1>3, <1>4 DEF BooleanInv

-----------------------------------------------------------------------------
(* The address of the jump.                                                *)
Late == {"gdt", "map", "exit", "kernel"}

LEMMA StepJump ==
  ASSUME RespectInv, WholeInv, JumpInv, Next
  PROVE  JumpInv'
<1> USE DEF Late, Goes, load, ram, Settled, machine
<1>0. image' = image
  <2>1. CASE Elsewhere
    BY <2>1, ElsewhereStill DEF NoFileCall
  <2>2. CASE OpenImage \/ CleanUp \/ Seek \/ CopyBytes \/ Fill
    BY <2>2 DEF OpenImage, CleanUp, Seek, CopyBytes, Fill, BootFileSystemOpen,
       BootFileSystemOpenFails, BootFileSystemClose, BootFileSystemRewind,
       CopyFromBuffer, FillBuffer, FillFails
  <2>3. CASE AskSign \/ ReadSign \/ ReadHeader \/ ReadRecord \/ ReadData
    BY <2>3 DEF AskSign, ReadSign, ReadHeader, ReadRecord, ReadData, Asks
  <2>4. CASE PowerCycle \/ StartedAgain
    BY <2>4 DEF PowerCycle, StartedAgain, Restarts
  <2> QED
    BY <2>1, <2>2, <2>3, <2>4 DEF Next, LoaderStep, Elsewhere
<1>1. CASE OEMBootRun
  <2>1. /\ stage = "run" /\ stage' = "gdt" /\ args'.launch = address'
        /\ address' \in IF loader.run = 0 THEN LastLaunch ELSE {loader.run}
    BY <1>1 DEF OEMBootRun, RespectInv, ArgsInv
  <2>2. loader.run = Physical(image.launch)
    BY <2>1 DEF WholeInv, Complete
  <2> QED
    BY <1>0, <2>1, <2>2 DEF JumpInv, Physical
<1>2. CASE RelocateGDT
  BY <1>0, <1>2 DEF RelocateGDT, JumpInv, Physical
<1>3. CASE GetMemoryMap
  BY <1>0, <1>3 DEF GetMemoryMap, JumpInv, Physical
<1>4. CASE ExitBootServices
  BY <1>0, <1>4 DEF ExitBootServices, JumpInv, Physical
<1>5. ASSUME stage' \notin Late PROVE JumpInv'
  BY <1>5 DEF JumpInv
<1>6. CASE BootArgsInit \/ OEMBootInit \/ FindAcpiTable \/ BootLoaderConfig
           \/ BootLoaderPreLoad \/ BootLoaderLoadUldr \/ BootFileSystemInit
  BY <1>5, <1>6 DEF BootArgsInit, OEMBootInit, FindAcpiTable, BootLoaderConfig,
     BootLoaderPreLoad, BootLoaderLoadUldr, BootFileSystemInit
<1>7. CASE OpenImage \/ CleanUp \/ Seek \/ AskSign \/ CopyBytes \/ Fill
           \/ ReadSign \/ BadSign \/ ReadHeader \/ BadHeader \/ NoRoom
  BY <1>5, <1>7 DEF OpenImage, CleanUp, Seek, AskSign, CopyBytes, Fill, ReadSign, BadSign,
     ReadHeader, BadHeader, NoRoom, Reading, Refused
<1>8. CASE ReadRecord \/ BadRecord \/ ReadLastRecord \/ ReadData \/ BadData
           \/ PowerCycle \/ StartedAgain
  BY <1>5, <1>8 DEF ReadRecord, BadRecord, ReadLastRecord, ReadData, BadData, Refused,
     PowerCycle, StartedAgain, Restarts
<1> QED
  BY <1>1, <1>2, <1>3, <1>4, <1>6, <1>7, <1>8 DEF Next, LoaderStep

-----------------------------------------------------------------------------
(* A step that reads, clears and copies nothing.                           *)
LEMMA WholeFrame ==
  ASSUME WholeInv, UNCHANGED <<image, mem, next>>,
         stage' \in Early => stage \in Early,
         stage' \in Loaded => stage \in Loaded,
         stage' \in Complete => stage \in Complete /\ loader'.run = loader.run
  PROVE  WholeInv'
<1>1. \A i : InPlace(i)' <=> InPlace(i)
  BY DEF InPlace, RecordAt, Records
<1>2. ClearAbove' = ClearAbove /\ WholeSize' = WholeSize /\ Records' = Records
  BY DEF ClearAbove, WholeSize, RecordAt, Records
<1>3. \A i : Fits(i)' <=> Fits(i)
  BY DEF Fits
<1> QED
  BY <1>1, <1>2, <1>3 DEF WholeInv

LEMMA HeaderWhole ==
  ASSUME Layout, RespectInv, WholeInv, ReadHeader
  PROVE  WholeInv'
<1>1. /\ stage = "header" /\ stage' = "record" /\ UNCHANGED <<image, next>>
      /\ ImagePages \subseteq 0 .. Pages - 1
      /\ Top(image.start, image.size) >= image.start
      /\ mem' = [a \in DOMAIN mem |-> IF a \in Cleared THEN Zero ELSE mem[a]]
  BY DEF ReadHeader, HeaderRight, AllocateImageBuffer, ImagePages, Goes, Asks
<1>2. image \in Files /\ image # NoFile
  BY <1>1 DEF RespectInv, StreamInv, FileInv, FileTypes, FlowInv, Reading
<1>3. next = 1 /\ DOMAIN mem = 0 .. Pages * PageSize - 1
  BY <1>1 DEF WholeInv, Early
<1>4. ASSUME NEW a \in ClearAbove PROVE a \in Cleared /\ a \in DOMAIN mem
  <2>1. PICK s \in Nat, z \in Nat : s = image.start /\ z = image.size
    BY <1>1, <1>2, ImageFits
  <2>2. PICK c \in Nat : /\ c = RoundDown(BufferAt(s) + z, DWordSize)
                          /\ RoundDown(s, PageSize) <= c /\ c <= s + z
                          /\ s + z < c + PageSize + DWordSize
    BY ClearedFits
  <2>3. /\ ExtraLength \in Nat /\ PageSize \in Nat /\ DWordSize \in Nat
        /\ RoundDown(s, PageSize) \in Nat
    BY UefiAssumption, RoundDownIs
  <2>4. /\ a \in Nat /\ s + z <= a
        /\ a < s + z + ExtraLength - PageSize - DWordSize
    BY <2>1, <2>3 DEF ClearAbove, Bytes
  <2>5. a \in Cleared
    BY <2>1, <2>2, <2>3, <2>4 DEF Cleared, Bytes
  <2>6. RoundDown(s, PageSize) <= a /\ a < s + z + ExtraLength
    BY <2>2, <2>3, <2>4
  <2> QED
    BY <1>1, <1>2, <1>3, <2>1, <2>4, <2>5, <2>6, ImageByte
<1>5. ClearAbove' = ClearAbove
  BY <1>1 DEF ClearAbove
<1>6. \A a \in ClearAbove' : mem'[a] = Zero
  BY <1>1, <1>4, <1>5
<1>7. DOMAIN mem' = 0 .. Pages * PageSize - 1
  BY <1>1, <1>3
<1>8. \A i \in 1 .. next' - 1 : FALSE
  BY <1>1, <1>3
<1> QED
  BY <1>1, <1>6, <1>7, <1>8 DEF WholeInv, Early, Complete

(* What is copied falls on none of the records before, nor behind the      *)
(* image.                                                                  *)
LEMMA CopyWhole ==
  ASSUME Layout, RecordsApart, RespectInv, WholeInv, CopyBytes
  PROVE  WholeInv'
<1> DEFINE here == IF stage = "data" THEN Bytes(Placed + Len(given), CopyLength) ELSE {}
<1>1. /\ UNCHANGED <<image, next, stage, loader>> /\ CopyFromBuffer /\ stage \in Reading
      /\ DOMAIN mem' = DOMAIN mem
      /\ \A a \in DOMAIN mem : a \notin here => mem'[a] = mem[a]
  BY DEF CopyBytes, CopyFromBuffer
<1>2. DOMAIN mem' = 0 .. Pages * PageSize - 1 /\ stage' \notin Complete
      /\ (stage' \in Early => next' = 1)
  BY <1>1 DEF WholeInv, Reading, Complete
<1>3. ASSUME stage \in Loaded
      PROVE  /\ \A i \in 1 .. next - 1 : InPlace(i)' /\ Fits(i)' /\ image'.records[i].right
             /\ \A a \in ClearAbove' : mem'[a] = Zero
  <2>1. /\ image \in Files /\ image # NoFile /\ next \in 1 .. Records + 1
        /\ Top(image.start, image.size) >= image.start /\ ImagePages \subseteq 0 .. Pages - 1
        /\ Records \in Nat
    <3>1. image \in Files /\ image # NoFile
      BY <1>1, <1>3 DEF RespectInv, StreamInv, FileInv, FileTypes, FlowInv, Reading
    <3> QED
      BY <1>3, <3>1, RecordsType
      DEF Loaded, RespectInv, PagesInv, HasPages, StreamInv, FlowInv
  <2>2. /\ image.start \in Nat /\ image.size \in Nat
        /\ image.start + image.size + ExtraLength <= Pages * PageSize
        /\ image.start + image.size <= PhysicalSpan
    BY <2>1, ImageFits
  <2>3. /\ ExtraLength \in Nat /\ Pages * PageSize \in Nat /\ PhysicalSpan \in Nat \ {0}
        /\ PageSize \in Nat /\ DWordSize \in Nat
    BY UefiAssumption
  <2>4. PICK top \in Nat : top = image.start + image.size
    BY <2>2
  <2>5. ASSUME NEW i \in 1 .. next - 1 PROVE InPlace(i)' /\ Fits(i)' /\ image'.records[i].right
    <3>1. InPlace(i) /\ Fits(i) /\ image.records[i].right
      BY <1>3 DEF WholeInv
    <3>2. i \in 1 .. Records /\ i # next
      BY <2>1
    <3>3. PICK ad \in Nat, ln \in Nat :
            ad = image.records[i].address /\ ln = image.records[i].length
      BY <2>1, <3>2, RecordsType
    <3>4. image.start <= ad /\ ad + ln <= top
      BY <2>4, <3>1, <3>3 DEF Fits
    <3>5. ASSUME NEW k \in 0 .. ln - 1
          PROVE  mem'[Physical(ad) + k] = RecordAt[i] + RecordHeaderSize + k
      <4>1. ad < PhysicalSpan
        BY <2>2, <2>3, <2>4, <3>4
      <4>2. Physical(ad) = ad
        BY <3>3, <4>1, PhysicalIs
      <4>3. ad + k \in DOMAIN mem
        <5>1. DOMAIN mem = 0 .. Pages * PageSize - 1
          BY DEF WholeInv
        <5> QED
          BY <2>2, <2>3, <2>4, <3>4, <5>1
      <4>4. ad + k \notin here
        <5>1. ASSUME ad + k \in here PROVE FALSE
          <6>1. stage = "data" /\ ad + k \in Bytes(Placed + Len(given), CopyLength)
            BY <5>1
          <6>2. /\ Record.address + Len(given) <= ad + k
                /\ ad + k < Record.address + Record.length
                /\ next \in 1 .. Records
            BY <1>1, <6>1, PieceFits
          <6>3. PICK b \in Nat, n \in Nat, g \in Nat :
                  b = Record.address /\ n = Record.length /\ g = Len(given)
            BY <2>1, <6>2, RecordsType, Pieces DEF Record, RespectInv, StreamInv
          <6>4. ad + k \in Bytes(b, n)
            BY <6>2, <6>3 DEF Bytes
          <6>5. ad + k \in Bytes(ad, ln)
            BY DEF Bytes
          <6>6. Bytes(ad, ln) \cap Bytes(b, n) = {}
            BY <2>1, <3>2, <3>3, <6>2, <6>3 DEF RecordsApart, Record, Records
          <6> QED
            BY <6>4, <6>5, <6>6
        <5> QED
          BY <5>1
      <4>5. mem[Physical(ad) + k] = RecordAt[i] + RecordHeaderSize + k
        BY <3>1, <3>3 DEF InPlace
      <4> HIDE DEF here
      <4> QED
        BY <1>1, <4>2, <4>3, <4>4, <4>5
    <3>6. InPlace(i)'
      <4>1. RecordAt' = RecordAt /\ image'.records = image.records
        BY <1>1 DEF RecordAt, Records
      <4> QED
        BY <3>3, <3>5, <4>1 DEF InPlace
    <3> QED
      BY <1>1, <3>1, <3>6 DEF Fits
  <2>6. ASSUME NEW a \in ClearAbove' PROVE mem'[a] = Zero
    <3>1. a \in ClearAbove /\ mem[a] = Zero
      BY <1>1, <1>3 DEF ClearAbove, WholeInv
    <3>2. a \in Nat /\ top <= a /\ a < top + ExtraLength - PageSize - DWordSize
      BY <2>3, <2>4, <3>1 DEF ClearAbove, Bytes
    <3>3. a \in DOMAIN mem
      <4>1. DOMAIN mem = 0 .. Pages * PageSize - 1
        BY DEF WholeInv
      <4> QED
        BY <2>2, <2>3, <2>4, <3>2, <4>1
    <3>4. ASSUME a \in here PROVE FALSE
      <4>1. stage = "data" /\ a \in Bytes(Placed + Len(given), CopyLength)
        BY <3>4
      <4>2. a < Record.address + Record.length /\ Fits(next)
        BY <1>1, <4>1, PieceFits
      <4>3. PICK e : e = Record.address + Record.length /\ e <= top /\ a < e
        BY <2>4, <4>2 DEF Fits, Record
      <4>4. e \in Nat
        BY <1>1, <2>1, <4>1, <4>3, RecordsType, PieceFits DEF Record
      <4> QED
        BY <3>2, <4>3, <4>4
    <3> HIDE DEF here
    <3> QED
      BY <1>1, <3>1, <3>3, <3>4
  <2> QED
    BY <2>5, <2>6
<1> HIDE DEF here
<1> QED
  BY <1>1, <1>2, <1>3 DEF WholeInv

(* The sum that was right says that the record is in place.                *)
LEMMA DataWhole ==
  ASSUME Layout, RespectInv, WholeInv, ReadData
  PROVE  WholeInv'
<1>1. /\ stage = "data" /\ stage' = "record" /\ next' = next + 1
      /\ UNCHANGED <<image, mem>> /\ InPlace(next) /\ Record.right
  BY DEF ReadData, DataRight, SumRight, Goes, Asks, ram
<1>2. image \in Files /\ image # NoFile
  BY <1>1 DEF RespectInv, StreamInv, FileInv, FileTypes, FlowInv, Reading
<1>3. next \in 1 .. Records
  BY <1>1, <1>2, RecordsType DEF RespectInv, StreamInv, FlowInv
<1>4. Fits(next)
  <2>1. /\ Top(image.start, image.size) >= image.start /\ ImagePages \subseteq 0 .. Pages - 1
        /\ InRange
    BY <1>1 DEF RespectInv, PagesInv, HasPages, Allocated
  <2> QED
    BY <1>2, <1>3, <2>1, RecordFits
<1>5. \A i : (InPlace(i)' <=> InPlace(i)) /\ (Fits(i)' <=> Fits(i))
  BY <1>1 DEF InPlace, RecordAt, Records, Fits
<1>6. \A i \in 1 .. next : InPlace(i) /\ Fits(i) /\ image.records[i].right
  <2>1. \A i \in 1 .. next - 1 : InPlace(i) /\ Fits(i) /\ image.records[i].right
    BY <1>1 DEF WholeInv, Loaded, Allocated
  <2>2. \A i \in 1 .. next : i = next \/ i \in 1 .. next - 1
    BY <1>3, RecordsType, <1>2
  <2> QED
    BY <1>1, <1>4, <2>1, <2>2 DEF Record
<1>7. next' - 1 = next
  BY <1>1, <1>2, <1>3, RecordsType
<1>8. \A a \in ClearAbove' : mem'[a] = Zero
  BY <1>1 DEF WholeInv, Loaded, Allocated, ClearAbove
<1> QED
  BY <1>1, <1>5, <1>6, <1>7, <1>8 DEF WholeInv, Early, Complete

(* The header of the last record was in the file.                          *)
LEMMA LastWhole ==
  ASSUME RespectInv, WholeInv, ReadLastRecord, SettingsInv
  PROVE  WholeInv'
<1>1. /\ stage = "record" /\ stage' = "close.run" /\ UNCHANGED <<image, next, mem>>
      /\ next = Records + 1 /\ Len(given) = RecordHeaderSize
      /\ given[1] = RecordAt[Records + 1]
  BY DEF ReadLastRecord, LastRecord, RecordIn, Arrived, Goes, fileVars, ram
<1>2. image \in Files /\ image # NoFile
  BY <1>1 DEF RespectInv, StreamInv, FileInv, FileTypes, FlowInv, Reading
<1>3. loader'.run = Physical(image'.launch)
  BY <1>1 DEF ReadLastRecord, SettingsInv
<1>4. WholeSize <= image.cut
  <2>1. /\ Size \in Nat /\ Place \in 0 .. Size /\ Place - Len(given) \in Nat
        /\ given = Stream!From(Place - Len(given), Len(given))
    BY Pieces DEF RespectInv, StreamInv, FileInv, GivenInv
  <2>2. RecordHeaderSize \in Nat \ {0}
    BY UefiAssumption
  <2>3. PICK k \in Nat, n \in Nat \ {0} :
          k = Place - Len(given) /\ n = RecordHeaderSize /\ n = Len(given)
    BY <1>1, <2>1, <2>2
  <2>4. given[1] = k
    <3>1. Stream!From(k, n)[1] = k + 1 - 1
      BY DEF Stream!From
    <3> QED
      BY <2>1, <2>3, <3>1
  <2>5. RecordAt[Records + 1] + RecordHeaderSize = Place
    BY <1>1, <2>1, <2>3, <2>4
  <2>6. WholeSize = Place /\ Size = image.cut
    BY <1>2, <2>5 DEF WholeSize, Size
  <2> QED
    BY <2>1, <2>6
<1>5. \A i : (InPlace(i)' <=> InPlace(i)) /\ (Fits(i)' <=> Fits(i))
  BY <1>1 DEF InPlace, RecordAt, Records, Fits
<1>6. ClearAbove' = ClearAbove /\ WholeSize' = WholeSize /\ Records' = Records
  BY <1>1 DEF ClearAbove, WholeSize, RecordAt, Records
<1> QED
  BY <1>1, <1>3, <1>4, <1>5, <1>6 DEF WholeInv, Loaded, Allocated, Early

LEMMA StepWhole ==
  ASSUME Layout, RecordsApart, RespectInv, WholeInv, SettingsInv, [Next]_vars
  PROVE  WholeInv'
<1> USE DEF Goes, load, ram, Settled, machine, NoFileCall, Early, Loaded, Allocated, Complete
<1>1. CASE ReadHeader
  BY <1>1, HeaderWhole
<1>2. CASE CopyBytes
  BY <1>2, CopyWhole
<1>3. CASE ReadData
  BY <1>3, DataWhole
<1>4. CASE ReadLastRecord
  BY <1>4, LastWhole
<1>5. CASE PowerCycle \/ StartedAgain
  <2>1. /\ stage' = "init" /\ next' = 1 /\ DOMAIN mem' = DOMAIN mem
    BY <1>5 DEF PowerCycle, StartedAgain, Restarts
  <2> QED
    BY <2>1 DEF WholeInv
<1>6. CASE BootArgsInit \/ OEMBootInit \/ FindAcpiTable \/ BootLoaderConfig
           \/ BootLoaderPreLoad \/ BootLoaderLoadUldr \/ BootFileSystemInit
  BY <1>6, WholeFrame DEF BootArgsInit, OEMBootInit, FindAcpiTable, BootLoaderConfig,
     BootLoaderPreLoad, BootLoaderLoadUldr, BootFileSystemInit
<1>7. CASE OpenImage \/ CleanUp \/ Seek \/ AskSign \/ Fill
  BY <1>7, WholeFrame DEF OpenImage, CleanUp, Seek, AskSign, Fill, BootFileSystemOpen,
     BootFileSystemOpenFails, BootFileSystemClose, BootFileSystemRewind, Asks,
     FillBuffer, FillFails
<1>8. CASE ReadSign \/ BadSign \/ BadHeader \/ NoRoom \/ ReadRecord \/ BadRecord \/ BadData
  BY <1>8, WholeFrame DEF ReadSign, BadSign, BadHeader, NoRoom, ReadRecord, BadRecord,
     BadData, Refused, fileVars, Asks
<1>9. CASE OEMBootRun \/ RelocateGDT \/ GetMemoryMap \/ ExitBootServices
  BY <1>9, WholeFrame DEF OEMBootRun, RelocateGDT, GetMemoryMap, ExitBootServices, fileVars
<1>10. CASE UNCHANGED vars
  BY <1>10, WholeFrame DEF vars, fileVars, bootVars
<1> QED
  BY <1>1, <1>2, <1>3, <1>4, <1>5, <1>6, <1>7, <1>8, <1>9, <1>10 DEF Next, LoaderStep

-----------------------------------------------------------------------------
LEMMA InitBoot == Init => BootInv
<1> SUFFICES ASSUME Init PROVE BootInv
  OBVIOUS
<1>1. RespectInv
  BY InitRespects
<1>2. WholeInv
  BY DEF Init, WholeInv, Early, Loaded, Allocated, Complete
<1>3. JumpInv
  BY DEF Init, JumpInv
<1>4. SettingsInv
  BY UefiAssumption DEF Init, SettingsInv, Stages, Early, NoLoader
<1>5. BooleanInv
  <2>1. broke = FALSE /\ services = TRUE /\ loader = NoLoader
    BY DEF Init, FileInit
  <2>2. NoLoader.update = FALSE
    BY DEF NoLoader
  <2> QED
    BY <2>1, <2>2 DEF BooleanInv
<1> QED
  BY <1>1, <1>2, <1>3, <1>4, <1>5 DEF BootInv

LEMMA StepBoot ==
  ASSUME Layout, RecordsApart, BootInv, [Next]_vars
  PROVE  BootInv'
<1>1. RespectInv'
  BY StepRespects DEF BootInv
<1>2. WholeInv'
  BY StepWhole DEF BootInv
<1>3. BooleanInv'
  BY StepBoolean DEF BootInv
<1>4. CASE Next
  BY <1>1, <1>2, <1>3, <1>4, StepJump, StepSettings DEF BootInv
<1>5. CASE UNCHANGED vars
  <2>1. UNCHANGED <<image, stage, address, args, services, starts, loader, var>>
    BY <1>5 DEF vars, fileVars, bootVars
  <2>2. JumpInv' /\ SettingsInv'
    BY <2>1 DEF BootInv, JumpInv, Physical, SettingsInv
  <2> QED
    BY <1>1, <1>2, <1>3, <2>2 DEF BootInv
<1> QED
  BY <1>4, <1>5

LEMMA BootInvIsWhole ==
  ASSUME BootInv
  PROVE  StartedWhole
<1> USE DEF BootInv
<1>1. FileTypes /\ image \in Files
  BY DEF RespectInv, StreamInv, FileInv, FileTypes
<1>2. stage \in Ended \cup Reading \cup {"init", "protocols", "acpi", "config", "preload",
       "uldr", "os", "open", "seek", "ask", "close", "close.run", "run", "gdt", "map", "exit"}
  BY DEF SettingsInv, Stages, Early, Allocated, Ended, Reading
<1>3. next \in 1 .. (IF image = NoFile THEN 1 ELSE Records + 1)
  <2>1. CASE image = NoFile
    BY <2>1 DEF RespectInv, StreamInv, FlowInv
  <2>2. CASE image # NoFile
    BY <2>2 DEF RespectInv, StreamInv, FlowInv
  <2> QED
    BY <2>1, <2>2
<1>4. UefiTypeOK
  BY <1>1, <1>2, <1>3 DEF UefiTypeOK, UefiTypes, SettingsInv, BooleanInv, RespectInv, PagesInv
<1>5. ASSUME stage = "kernel"
      PROVE  /\ ~services /\ image.cut >= WholeSize
             /\ \A i \in 1 .. Records : InPlace(i) /\ image.records[i].right
             /\ \A a \in ClearAbove : mem[a] = Zero
             /\ address = IF Physical(image.launch) = 0 THEN args.launch
                          ELSE Physical(image.launch)
  <2>1. /\ ~services
        /\ address = IF Physical(image.launch) = 0 THEN args.launch
                     ELSE Physical(image.launch)
    BY <1>5 DEF JumpInv
  <2>2. /\ next = Records + 1 /\ WholeSize <= image.cut
        /\ \A i \in 1 .. next - 1 : InPlace(i) /\ image.records[i].right
        /\ \A a \in ClearAbove : mem[a] = Zero
    BY <1>5 DEF WholeInv, Loaded, Allocated, Complete
  <2>3. image # NoFile /\ Records \in Nat
    BY <1>1, <1>5, RecordsType DEF RespectInv, PagesInv, HasPages, Allocated
  <2>4. image.cut >= WholeSize
    BY <2>2
  <2> QED
    BY <2>1, <2>2, <2>3, <2>4
<1> QED
  BY <1>4, <1>5 DEF StartedWhole

(* THEOREM: whatever the file, what fails and how often the machine is     *)
(* switched off or the loader is started again: the kernel is entered only *)
(* with every record in place and its sum right, the memory behind the     *)
(* image clear, boot services over, and at the right address.              *)
THEOREM StartedWholeHolds ==
  ASSUME Layout, RecordsApart
  PROVE  Spec => []StartedWhole
<1>1. Init => BootInv
  BY InitBoot
<1>2. BootInv /\ [Next]_vars => BootInv'
  BY StepBoot
<1>3. BootInv => StartedWhole
  BY BootInvIsWhole
<1> QED
  BY <1>1, <1>2, <1>3, PTL DEF Spec

(* Induction over the numbers, from the library's well-foundedness.        *)
LEMMA LeastElement ==
  ASSUME NEW T \in SUBSET Nat, T # {}
  PROVE  \E n \in T : \A m \in T : n <= m
<1> DEFINE R == {p \in Nat \X Nat : p[1] < p[2]}
<1>1. IsWellFoundedOn(R, Nat)
  BY NatLessThanWellFounded DEF OpToRel
<1>2. \E x \in T : \A y \in T : ~(<<y, x>> \in R)
  <2> HIDE DEF R
  <2> QED
    BY <1>1, WFMin
<1>3. \A x, y \in Nat : y < x => <<y, x>> \in R
  OBVIOUS
<1>4. PICK x \in T : \A y \in T : ~(<<y, x>> \in R)
  BY <1>2
<1>5. \A y \in T : ~(y < x)
  BY <1>3, <1>4
<1> QED
  BY <1>5

LEMMA Induction ==
  ASSUME NEW S \in SUBSET Nat, 0 \in S, \A n \in S : n + 1 \in S
  PROVE  S = Nat
<1> SUFFICES ASSUME S # Nat PROVE FALSE
  OBVIOUS
<1>1. PICK n \in Nat \ S : \A m \in Nat \ S : n <= m
  BY LeastElement
<1>2. n # 0 /\ n - 1 \in Nat /\ n - 1 \in S
  BY <1>1
<1> QED
  BY <1>1, <1>2


(* GetRamTop's loop: f[n] is what it has after n entries of the map.       *)
NoTop == [top |-> 0, found |-> FALSE]
IsTopLoop(m, n, f) ==
  f = [k \in 0 .. n |-> IF k = 0 THEN NoTop ELSE TopAfter(f[k - 1], m[k])]

LEMMA TopLoopRuns ==
  ASSUME NEW m, NEW n \in Nat
  PROVE  \E f : IsTopLoop(m, n, f)
<1> DEFINE S == {i \in Nat : \E f : IsTopLoop(m, i, f)}
<1>1. 0 \in S
  <2> DEFINE f == [k \in 0 .. 0 |-> NoTop]
  <2>1. IsTopLoop(m, 0, f)
    BY DEF IsTopLoop
  <2> QED
    BY <2>1
<1>2. ASSUME NEW i \in S PROVE i + 1 \in S
  <2>0. i \in Nat
    BY <1>2
  <2>1. PICK f : IsTopLoop(m, i, f)
    BY <1>2
  <2>2. \A k \in 0 .. i : f[k] = IF k = 0 THEN NoTop ELSE TopAfter(f[k - 1], m[k])
    BY <2>1 DEF IsTopLoop
  <2> DEFINE g == [k \in 0 .. i + 1 |-> IF k <= i THEN f[k] ELSE TopAfter(f[i], m[i + 1])]
  <2>3. /\ \A k \in 0 .. i : g[k] = f[k]
        /\ g[i + 1] = TopAfter(f[i], m[i + 1])
        /\ g = [k \in 0 .. i + 1 |-> g[k]]
    OBVIOUS
  <2> HIDE DEF g
  <2>4. ASSUME NEW k \in 0 .. i + 1
        PROVE  g[k] = IF k = 0 THEN NoTop ELSE TopAfter(g[k - 1], m[k])
    <3>1. CASE k = 0
      <4>0. 0 \in 0 .. i
        BY <2>0
      <4>1. g[0] = f[0] /\ f[0] = NoTop
        BY <2>2, <2>3, <4>0, Zenon
      <4> QED
        BY <3>1, <4>1
    <3>2. CASE k \in 1 .. i
      <4>0. k \in 0 .. i /\ k - 1 \in 0 .. i /\ k # 0
        BY <2>0, <3>2
      <4>1. g[k] = f[k] /\ g[k - 1] = f[k - 1]
        BY <2>3, <4>0
      <4>2. f[k] = TopAfter(f[k - 1], m[k])
        BY <2>2, <4>0
      <4> QED
        BY <4>0, <4>1, <4>2
    <3>3. CASE k = i + 1
      <4>0. k - 1 = i /\ i \in 0 .. i /\ k # 0
        BY <2>0, <3>3
      <4>1. g[k - 1] = f[i] /\ k # 0
        BY <2>3, <4>0
      <4> QED
        BY <2>3, <3>3, <4>1
    <3> QED
      BY <3>1, <3>2, <3>3
  <2>5. IsTopLoop(m, i + 1, g)
    BY <2>3, <2>4 DEF IsTopLoop
  <2> QED
    BY <2>5
<1> HIDE DEF S
<1>3. S = Nat
  BY <1>1, <1>2, Induction DEF S
<1> QED
  BY <1>3 DEF S

LEMMA RamTopIs ==
  ASSUME NEW m, Len(m) \in Nat
  PROVE  \E f : IsTopLoop(m, Len(m), f) /\ RamTopOf(m) = f[Len(m)].top
<1> DEFINE f == CHOOSE g : g = [k \in 0 .. Len(m) |-> IF k = 0 THEN [top |-> 0, found |-> FALSE]
                                                      ELSE TopAfter(g[k - 1], m[k])]
<1>1. IsTopLoop(m, Len(m), f)
  BY TopLoopRuns DEF IsTopLoop, NoTop
<1>2. RamTopOf(m) = f[Len(m)].top
  BY DEF RamTopOf
<1> HIDE DEF f
<1> QED
  BY <1>1, <1>2

(* The lowest region that is kept, of the first n; if there is none, the   *)
(* end of the highest RAM.                                                 *)
KeptIn(m, n) == {i \in 1 .. n : m[i].kind = "keep"}
LowestKept(m, n, top) ==
  \/ KeptIn(m, n) = {} /\ \A i \in 1 .. n : m[i].kind = "ram" => EndOf(m[i]) <= top
  \/ /\ \A i \in KeptIn(m, n) : top <= m[i].start
     /\ \E i \in KeptIn(m, n) : top = m[i].start

Regions == [kind : {"ram", "keep", "other"}, start : Nat, pages : Nat]

TopState(m, n, w) ==
  /\ w.top \in Nat /\ w.found \in BOOLEAN /\ w = [top |-> w.top, found |-> w.found]
  /\ w.found <=> KeptIn(m, n) # {}
  /\ LowestKept(m, n, w.top)

LEMMA TopStep ==
  ASSUME NEW m \in Seq(Regions), NEW n \in Nat, n + 1 <= Len(m), NEW was, TopState(m, n, was)
  PROVE  TopState(m, n + 1, TopAfter(was, m[n + 1]))
<1> DEFINE d == m[n + 1]
<1>1. \A i \in 1 .. n + 1 : m[i] \in Regions
  BY LenProperties, ElementOfSeq
<1>2. \A i \in 1 .. n + 1 : m[i].start \in Nat /\ m[i].pages \in Nat /\ EndOf(m[i]) \in Nat
  BY <1>1 DEF Regions, EndOf
<1>3. n + 1 \in 1 .. n + 1 /\ \A i \in 1 .. n + 1 : i \in 1 .. n \/ i = n + 1
  OBVIOUS
<1>4. d.start \in Nat /\ EndOf(d) \in Nat
  BY <1>2, <1>3
<1>5. PICK top, found : top = was.top /\ found = was.found
  OBVIOUS
<1>6. /\ top \in Nat /\ found \in BOOLEAN /\ was = [top |-> top, found |-> found]
      /\ found <=> KeptIn(m, n) # {}
      /\ LowestKept(m, n, top)
  BY <1>5 DEF TopState
<1>7. \A t \in Nat, b \in BOOLEAN :
        (b <=> KeptIn(m, n + 1) # {}) /\ LowestKept(m, n + 1, t)
          => TopState(m, n + 1, [top |-> t, found |-> b])
  BY DEF TopState
<1>8. CASE d.kind = "keep"
  <2>1. KeptIn(m, n + 1) = KeptIn(m, n) \cup {n + 1}
    BY <1>3, <1>8 DEF KeptIn
  <2>2. TopAfter(was, d) = [top |-> KeepsFrom(was, d), found |-> TRUE]
    BY <1>8 DEF TopAfter
  <2>3. PICK t : t = KeepsFrom(was, d)
    OBVIOUS
  <2>4. CASE found
    <3>1. t = IF top >= d.start THEN d.start ELSE top
      BY <1>5, <2>3, <2>4 DEF KeepsFrom
    <3>2. /\ \A i \in KeptIn(m, n) : top <= m[i].start
          /\ \E i \in KeptIn(m, n) : top = m[i].start
      BY <1>6, <2>4 DEF LowestKept
    <3>3. \A i \in KeptIn(m, n) : m[i].start \in Nat
      BY <1>2 DEF KeptIn
    <3>4. t \in Nat /\ t <= d.start /\ t <= top /\ (t = d.start \/ t = top)
      BY <1>4, <1>6, <3>1
    <3>5. ASSUME NEW i \in KeptIn(m, n + 1) PROVE t <= m[i].start
      <4>1. CASE i = n + 1
        BY <3>4, <4>1
      <4>2. CASE i \in KeptIn(m, n)
        <5>1. PICK a \in Nat : a = m[i].start
          BY <3>3, <4>2
        <5>2. top <= a
          BY <3>2, <4>2, <5>1
        <5> QED
          BY <1>6, <3>4, <5>1, <5>2
      <4> QED
        BY <2>1, <4>1, <4>2
    <3>6. \E i \in KeptIn(m, n + 1) : t = m[i].start
      BY <2>1, <3>2, <3>4
    <3>7. LowestKept(m, n + 1, t)
      BY <3>5, <3>6 DEF LowestKept
    <3> QED
      BY <1>7, <2>1, <2>2, <2>3, <3>4, <3>7
  <2>5. CASE ~found
    <3>1. t = d.start /\ KeptIn(m, n) = {}
      BY <1>5, <1>6, <2>3, <2>5 DEF KeepsFrom
    <3>2. LowestKept(m, n + 1, t)
      BY <1>4, <2>1, <3>1 DEF LowestKept
    <3> QED
      BY <1>4, <1>7, <2>1, <2>2, <2>3, <3>1, <3>2
  <2> QED
    BY <1>6, <2>4, <2>5
<1>9. CASE d.kind # "keep"
  <2>1. KeptIn(m, n + 1) = KeptIn(m, n)
    BY <1>3, <1>9 DEF KeptIn
  <2>2. CASE d.kind = "ram" /\ ~found /\ top <= EndOf(d)
    <3>1. TopAfter(was, d) = [was EXCEPT !.top = EndOf(d)]
      BY <1>5, <2>2 DEF TopAfter
    <3>2. TopAfter(was, d) = [top |-> EndOf(d), found |-> found]
      BY <1>6, <3>1
    <3>3. KeptIn(m, n) = {} /\ \A i \in 1 .. n : m[i].kind = "ram" => EndOf(m[i]) <= top
      BY <1>6, <2>2 DEF LowestKept
    <3>4. \A i \in 1 .. n : m[i].kind = "ram" => EndOf(m[i]) <= EndOf(d)
      <4>1. \A i \in 1 .. n : i \in 1 .. n + 1
        OBVIOUS
      <4> QED
        BY <1>2, <1>4, <1>6, <2>2, <3>3, <4>1
    <3>5. \A i \in 1 .. n + 1 : m[i].kind = "ram" => EndOf(m[i]) <= EndOf(d)
      BY <1>3, <1>4, <3>4
    <3>6. LowestKept(m, n + 1, EndOf(d))
      BY <2>1, <3>3, <3>5 DEF LowestKept
    <3> QED
      BY <1>4, <1>6, <1>7, <2>1, <3>2, <3>6
  <2>3. CASE ~(d.kind = "ram" /\ ~found /\ top <= EndOf(d))
    <3>1. TopAfter(was, d) = was
      BY <1>5, <1>9, <2>3 DEF TopAfter
    <3>2. d.kind = "ram" /\ ~found => EndOf(d) <= top
      BY <1>4, <1>6, <2>3
    <3>3. LowestKept(m, n + 1, top)
      BY <1>3, <1>6, <2>1, <3>2 DEF LowestKept
    <3> QED
      BY <1>6, <1>7, <2>1, <3>1, <3>3
  <2> QED
    BY <2>2, <2>3
<1> QED
  BY <1>8, <1>9

LEMMA RamTopLowest ==
  ASSUME NEW m \in Seq(Regions)
  PROVE  LowestKept(m, Len(m), RamTopOf(m))
<1>1. Len(m) \in Nat
  BY LenProperties
<1>2. PICK f : IsTopLoop(m, Len(m), f) /\ RamTopOf(m) = f[Len(m)].top
  BY <1>1, RamTopIs
<1>3. \A k \in 0 .. Len(m) : f[k] = IF k = 0 THEN NoTop ELSE TopAfter(f[k - 1], m[k])
  BY <1>2 DEF IsTopLoop
<1> DEFINE S == {n \in Nat : n <= Len(m) => TopState(m, n, f[n])}
<1>4. 0 \in S
  <2>1. f[0] = NoTop
    BY <1>1, <1>3
  <2>2. TopState(m, 0, NoTop)
    BY DEF NoTop, KeptIn, LowestKept, TopState
  <2> QED
    BY <2>1, <2>2
<1>5. ASSUME NEW n \in S PROVE n + 1 \in S
  <2> SUFFICES ASSUME n + 1 <= Len(m) PROVE TopState(m, n + 1, f[n + 1])
    OBVIOUS
  <2>1. n \in Nat /\ TopState(m, n, f[n])
    BY <1>1
  <2>2. f[n + 1] = TopAfter(f[n], m[n + 1])
    BY <1>1, <1>3, <2>1
  <2> QED
    BY <2>1, <2>2, TopStep
<1> HIDE DEF S
<1>6. S = Nat
  BY <1>4, <1>5, Induction DEF S
<1>7. TopState(m, Len(m), f[Len(m)])
  BY <1>1, <1>6 DEF S
<1> QED
  BY <1>2, <1>7 DEF TopState

TopInv ==
  /\ map \in MemoryMaps
  /\ stage = "acpi" => ramTop \in {RamTopOf(map), DefaultRamTop}

(* THEOREM: whatever the firmware's memory map and the order of its        *)
(* entries, the RAM reported ends at the lowest region that is kept.       *)
THEOREM RamTopClearHolds == Spec => []RamTopClear
<1>1. Init => TopInv
  BY DEF Init, TopInv
<1>2. TopInv /\ [Next]_vars => TopInv'
  <2> SUFFICES ASSUME TopInv, [Next]_vars PROVE TopInv'
    OBVIOUS
  <2> USE DEF Goes, load, ram, Settled, machine, NoFileCall, TopInv
  <2>1. CASE OEMBootInit
    <3>1. map' = map /\ (stage' = "acpi" => ramTop' \in {RamTopOf(map), DefaultRamTop})
      BY <2>1 DEF OEMBootInit
    <3> QED
      BY <3>1
  <2>2. ASSUME map' = map, stage' # "acpi" PROVE TopInv'
    BY <2>2
  <2>3. CASE BootArgsInit \/ FindAcpiTable \/ BootLoaderConfig
             \/ BootLoaderPreLoad \/ BootLoaderLoadUldr \/ BootFileSystemInit
    BY <2>2, <2>3 DEF BootArgsInit, FindAcpiTable, BootLoaderConfig,
       BootLoaderPreLoad, BootLoaderLoadUldr, BootFileSystemInit
  <2>4. CASE OpenImage \/ CleanUp \/ Seek \/ AskSign \/ ReadSign \/ BadSign
    BY <2>2, <2>4 DEF OpenImage, CleanUp, Seek, AskSign, ReadSign, BadSign, Refused
  <2>5. CASE CopyBytes \/ Fill
    BY <2>2, <2>5 DEF CopyBytes, Fill, Reading
  <2>6. CASE ReadHeader \/ BadHeader \/ NoRoom \/ ReadRecord \/ BadRecord \/ ReadLastRecord
             \/ ReadData \/ BadData
    BY <2>2, <2>6 DEF ReadHeader, BadHeader, NoRoom, ReadRecord, BadRecord, ReadLastRecord,
       ReadData, BadData, Refused
  <2>7. CASE OEMBootRun \/ RelocateGDT \/ GetMemoryMap \/ ExitBootServices
    BY <2>2, <2>7 DEF OEMBootRun, RelocateGDT, GetMemoryMap, ExitBootServices
  <2>8. CASE PowerCycle \/ StartedAgain
    BY <2>2, <2>8 DEF PowerCycle, StartedAgain, Restarts
  <2>9. CASE UNCHANGED vars
    BY <2>9 DEF vars, bootVars
  <2> QED
    BY <2>1, <2>3, <2>4, <2>5, <2>6, <2>7, <2>8, <2>9 DEF Next, LoaderStep
<1>3. TopInv => RamTopClear
  <2> SUFFICES ASSUME TopInv, stage = "acpi", ramTop # DefaultRamTop
               PROVE  /\ \A i \in Kept : ramTop <= map[i].start
                      /\ \/ \E i \in Kept : ramTop = map[i].start
                         \/ Kept = {} /\ \A i \in DOMAIN map :
                                           map[i].kind = "ram" => EndOf(map[i]) <= ramTop
    BY DEF RamTopClear
  <2>1. PICK m : m = map
    OBVIOUS
  <2>2. m \in Seq(Regions) /\ ramTop = RamTopOf(m)
    BY <2>1, MapAssumption DEF TopInv, Regions
  <2>3. LowestKept(m, Len(m), RamTopOf(m)) /\ DOMAIN m = 1 .. Len(m)
    BY <2>2, RamTopLowest, LenProperties
  <2>4. Kept = KeptIn(m, Len(m))
    BY <2>1, <2>3 DEF Kept, KeptIn
  <2> QED
    BY <2>1, <2>2, <2>3, <2>4 DEF LowestKept
<1> QED
  BY <1>1, <1>2, <1>3, PTL DEF Spec

-----------------------------------------------------------------------------
(* Where the records lie in the file.                                      *)
IsPlaces(rs, n, f) ==
  f = [i \in 1 .. n + 1 |-> IF i = 1 THEN SignSize + HeaderSize
                            ELSE f[i - 1] + RecordHeaderSize + rs[i - 1].length]

LEMMA PlacesExist ==
  ASSUME NEW rs, NEW n \in Nat
  PROVE  \E f : IsPlaces(rs, n, f)
<1> DEFINE S == {m \in Nat : \E f : IsPlaces(rs, m, f)}
<1>1. 0 \in S
  <2> DEFINE f == [i \in 1 .. 0 + 1 |-> SignSize + HeaderSize]
  <2>1. IsPlaces(rs, 0, f)
    BY DEF IsPlaces
  <2> QED
    BY <2>1
<1>2. ASSUME NEW m \in S PROVE m + 1 \in S
  <2>0. m \in Nat
    BY <1>2
  <2>1. PICK f : IsPlaces(rs, m, f)
    BY <1>2
  <2>2. \A i \in 1 .. m + 1 : f[i] = IF i = 1 THEN SignSize + HeaderSize
                                      ELSE f[i - 1] + RecordHeaderSize + rs[i - 1].length
    BY <2>1 DEF IsPlaces
  <2> DEFINE last == f[m + 1] + RecordHeaderSize + rs[m + 1].length
  <2> DEFINE g == [i \in 1 .. (m + 1) + 1 |-> IF i <= m + 1 THEN f[i] ELSE last]
  <2>3. /\ \A i \in 1 .. m + 1 : g[i] = f[i]
        /\ g[m + 2] = last
        /\ g = [i \in 1 .. (m + 1) + 1 |-> g[i]]
    BY <2>0
  <2> HIDE DEF g
  <2>4. ASSUME NEW i \in 1 .. (m + 1) + 1
        PROVE  g[i] = IF i = 1 THEN SignSize + HeaderSize
                      ELSE g[i - 1] + RecordHeaderSize + rs[i - 1].length
    <3>1. CASE i = 1
      <4>1. 1 \in 1 .. m + 1
        BY <2>0
      <4> QED
        BY <2>2, <2>3, <3>1, <4>1
    <3>2. CASE i \in 2 .. m + 1
      <4>0. i \in 1 .. m + 1 /\ i - 1 \in 1 .. m + 1 /\ i # 1
        BY <2>0, <3>2
      <4>1. g[i] = f[i] /\ g[i - 1] = f[i - 1]
        BY <2>3, <4>0
      <4>2. f[i] = f[i - 1] + RecordHeaderSize + rs[i - 1].length
        BY <2>2, <4>0
      <4> QED
        BY <4>0, <4>1, <4>2
    <3>3. CASE i = m + 2
      <4>0. i - 1 = m + 1 /\ m + 1 \in 1 .. m + 1 /\ i # 1
        BY <2>0, <3>3
      <4>1. g[i - 1] = f[m + 1]
        BY <2>3, <4>0
      <4> QED
        BY <2>3, <3>3, <4>0, <4>1
    <3> QED
      BY <2>0, <3>1, <3>2, <3>3
  <2>5. IsPlaces(rs, m + 1, g)
    BY <2>3, <2>4 DEF IsPlaces
  <2> QED
    BY <2>0, <2>5
<1> HIDE DEF S
<1>3. S = Nat
  BY <1>1, <1>2, Induction DEF S
<1> QED
  BY <1>3 DEF S

LEMMA RecordAtIs ==
  ASSUME image \in Files, image # NoFile
  PROVE  /\ RecordAt[1] = SignSize + HeaderSize
         /\ \A i \in 1 .. Records :
              RecordAt[i + 1] = RecordAt[i] + RecordHeaderSize + image.records[i].length
         /\ \A i \in 1 .. Records + 1 : RecordAt[i] \in Nat
<1>0. PICK n \in Nat : n = Records
  BY RecordsType
<1>1. PICK rs : n = Records /\ rs = image.records
  BY <1>0
<1>2. IsPlaces(rs, n, RecordAt)
  <2> DEFINE f == CHOOSE g : g = [i \in 1 .. n + 1 |-> IF i = 1 THEN SignSize + HeaderSize
                                  ELSE g[i - 1] + RecordHeaderSize + rs[i - 1].length]
  <2>1. RecordAt = f
    BY <1>1 DEF RecordAt
  <2>2. IsPlaces(rs, n, f)
    BY PlacesExist DEF IsPlaces
  <2> QED
    BY <2>1, <2>2
<1>3. \A i \in 1 .. n + 1 : RecordAt[i] = IF i = 1 THEN SignSize + HeaderSize
                                ELSE RecordAt[i - 1] + RecordHeaderSize + rs[i - 1].length
  BY <1>2 DEF IsPlaces
<1>4. PICK at : at = RecordAt
  OBVIOUS
<1>5. at[1] = SignSize + HeaderSize
  BY <1>3, <1>4
<1>6. ASSUME NEW i \in 1 .. n
      PROVE  at[i + 1] = at[i] + RecordHeaderSize + rs[i].length
  <2>1. i + 1 \in 1 .. n + 1 /\ i + 1 # 1 /\ (i + 1) - 1 = i
    OBVIOUS
  <2> QED
    BY <1>3, <1>4, <2>1
<1>7. ASSUME NEW i \in 1 .. n + 1 PROVE at[i] \in Nat
  <2> DEFINE S == {m \in Nat : m + 1 \in 1 .. n + 1 => at[m + 1] \in Nat}
  <2>1. 0 \in S
    BY <1>5, UefiAssumption
  <2>2. ASSUME NEW m \in S PROVE m + 1 \in S
    <3>1. CASE m + 2 \in 1 .. n + 1
      <4>1. m + 1 \in 1 .. n /\ at[m + 1] \in Nat
        BY <3>1
      <4>2. rs[m + 1].length \in Nat /\ RecordHeaderSize \in Nat
        BY <1>1, <4>1, RecordsType, UefiAssumption
      <4>3. at[(m + 1) + 1] = at[m + 1] + RecordHeaderSize + rs[m + 1].length
        BY <1>6, <4>1
      <4> QED
        BY <4>1, <4>2, <4>3
    <3>2. CASE m + 2 \notin 1 .. n + 1
      BY <3>2
    <3> QED
      BY <3>1, <3>2
  <2> HIDE DEF S
  <2>3. S = Nat
    BY <2>1, <2>2, Induction DEF S
  <2>4. i - 1 \in S /\ (i - 1) + 1 = i
    BY <2>3
  <2> QED
    BY <2>4 DEF S
<1> QED
  BY <1>1, <1>4, <1>5, <1>6, <1>7

-----------------------------------------------------------------------------
(* What a call has copied, and where the file stands.                      *)
LEMMA CopyMoves ==
  ASSUME FileInv, CopyFromBuffer
  PROVE  /\ CopyLength \in 1 .. need /\ CopyLength \in Nat
         /\ Copied(CopyLength) = Stream!From(Place, CopyLength)
         /\ Len(given') = Len(given) + CopyLength /\ Place' = Place + CopyLength
         /\ need' = need - CopyLength
<1>0. /\ gCurFilePosition \in Nat /\ gCurFileBufferLength \in Nat
      /\ gCurFileBufferIndex \in 0 .. gCurFileBufferLength
      /\ Size \in Nat /\ Place \in Nat /\ InMemory \in Nat /\ need \in Nat /\ Len(given) \in Nat
  BY Pieces
<1>1. CopyLength \in 1 .. need /\ CopyLength \in Nat
  BY <1>0 DEF CopyFromBuffer, CopyLength, Least, Answered
<1>2. PICK n \in Nat, k \in Nat : n = CopyLength /\ k = Place
  BY <1>0, <1>1
<1>3. Copied(n) = Stream!From(k, n)
  BY <1>2, CopiedIsNext DEF CopyFromBuffer
<1>4. /\ given' = given \o Copied(n) /\ need' = need - n
      /\ gCurFileBufferIndex' = gCurFileBufferIndex + n
      /\ UNCHANGED <<gCurFilePosition, gCurFileBufferLength>>
  BY <1>2 DEF CopyFromBuffer, IndexAfter
<1>5. Place' = Place + n
  BY <1>0, <1>2, <1>4 DEF Place, InMemory
<1>6. Len(given') = Len(given) + n
  <2>1. Stream!From(k, n) \in Seq({Junk} \cup Int) /\ Len(Stream!From(k, n)) = n
    <3>1. \A i \in 1 .. n : k + i - 1 \in {Junk} \cup Int
      OBVIOUS
    <3> QED
      BY <3>1, FromType
  <2>2. given \in Seq({Junk} \cup Int)
    BY <1>0 DEF FileInv, FileTypes
  <2> QED
    BY <1>3, <1>4, <2>1, <2>2, ConcatProperties
<1> QED
  BY <1>1, <1>2, <1>3, <1>4, <1>5, <1>6

(* At which byte of the file a call began and how many it was asked for;   *)
(* what of the record in hand is in memory.                                *)
ReadInv ==
  /\ DOMAIN mem = 0 .. Pages * PageSize - 1
  /\ stage \in Early => next = 1
  /\ stage \in Complete => loader.run = Physical(image.launch)
  /\ stage = "ask" => Place = 0
  /\ stage = "sign" => need + Len(given) = SignSize /\ Place = Len(given)
  /\ stage = "header" => need + Len(given) = HeaderSize /\ Place = SignSize + Len(given)
  /\ stage = "record" =>
       need + Len(given) = RecordHeaderSize /\ Place = RecordAt[next] + Len(given)
  /\ stage = "data" =>
       /\ Place = RecordAt[next] + RecordHeaderSize + Len(given)
       /\ \A k \in 0 .. Len(given) - 1 : mem[Placed + k] = RecordAt[next] + RecordHeaderSize + k

LEMMA ReadFrame ==
  ASSUME ReadInv, UNCHANGED <<image, next>>, DOMAIN mem' = DOMAIN mem,
         stage' \notin Reading \cup {"ask"},
         stage' \in Early => stage \in Early,
         stage' \in Complete => stage \in Complete /\ loader'.run = loader.run
  PROVE  ReadInv'
BY DEF ReadInv, Reading, Physical

LEMMA AskPlaces ==
  ASSUME FileInv, NEW n \in Nat, Asks(n)
  PROVE  /\ Place' = Place /\ need' = n /\ given' = <<>> /\ Len(given') = 0 /\ n + 0 = n
         /\ Place \in Nat /\ Place + 0 = Place /\ image' = image
<1>1. Place' = Place
  BY DEF Asks, buffer, Place, InMemory
<1> QED
  BY <1>1, Pieces DEF Asks

(* A call that brought what it was asked for is followed by the next.      *)
LEMMA AsksRead ==
  ASSUME RespectInv, ReadInv, AskSign \/ ReadSign \/ ReadHeader \/ ReadRecord \/ ReadData
  PROVE  ReadInv'
<1> USE DEF Goes
<1>1. image \in Files /\ image # NoFile /\ FileInv
  BY DEF RespectInv, StreamInv, FileInv, FileTypes, FlowInv, Reading, AskSign, ReadSign,
     ReadHeader, ReadRecord, ReadData
<1>2. {SignSize, HeaderSize, RecordHeaderSize} \subseteq Nat
  BY UefiAssumption
<1>3. RecordAt' = RecordAt /\ Records' = Records
  <2>1. image' = image
    BY DEF AskSign, ReadSign, ReadHeader, ReadRecord, ReadData, Asks
  <2> QED
    BY <2>1 DEF RecordAt, Records
<1>4. CASE AskSign
  <2>1. /\ stage = "ask" /\ stage' = "sign" /\ Asks(SignSize) /\ UNCHANGED <<mem, next>>
    BY <1>4 DEF AskSign, load, ram
  <2>2. Place' = 0 /\ need' + Len(given') = SignSize /\ Len(given') = 0
    BY <1>1, <1>2, <2>1, AskPlaces DEF ReadInv
  <2> QED
    BY <2>1, <2>2 DEF ReadInv, Early, Complete
<1>5. CASE ReadSign
  <2>1. /\ stage = "sign" /\ stage' = "header" /\ Asks(HeaderSize) /\ UNCHANGED <<mem, next>>
        /\ Len(given) = SignSize
    BY <1>5 DEF ReadSign, SignRight, Arrived, load, ram
  <2>2. /\ Place' = SignSize /\ need' + Len(given') = HeaderSize /\ Len(given') = 0
        /\ SignSize + 0 = SignSize
    BY <1>1, <1>2, <2>1, AskPlaces DEF ReadInv
  <2> QED
    BY <2>1, <2>2 DEF ReadInv, Early, Complete
<1>6. CASE ReadHeader
  <2>1. /\ stage = "header" /\ stage' = "record" /\ Asks(RecordHeaderSize)
        /\ next' = next /\ DOMAIN mem' = DOMAIN mem /\ Len(given) = HeaderSize
    BY <1>6 DEF ReadHeader, HeaderRight, Arrived
  <2>2. /\ Place' = SignSize + HeaderSize /\ need' + Len(given') = RecordHeaderSize
        /\ Len(given') = 0 /\ next = 1
    BY <1>1, <1>2, <2>1, AskPlaces DEF ReadInv, Early
  <2>3. Place' = RecordAt[next]
    BY <1>1, <2>2, RecordAtIs
  <2>4. RecordAt[next] + 0 = RecordAt[next]
    BY <1>2, <2>2, <2>3
  <2> QED
    BY <1>3, <2>1, <2>2, <2>3, <2>4 DEF ReadInv, Early, Complete
<1>7. CASE ReadRecord
  <2>1. /\ stage = "record" /\ stage' = "data" /\ Asks(Record.length) /\ UNCHANGED <<mem, next>>
        /\ Len(given) = RecordHeaderSize /\ next # Records + 1
    BY <1>7 DEF ReadRecord, LastRecord, RecordIn, Arrived, load, ram
  <2>2. next \in 1 .. Records /\ Record.length \in Nat
    BY <1>1, <2>1, RecordsType DEF RespectInv, StreamInv, FlowInv, Record
  <2>3. RecordAt[next] \in Nat
    BY <1>1, <2>2, RecordAtIs, RecordsType
  <2>4. /\ Place' = RecordAt[next] + RecordHeaderSize /\ Len(given') = 0
        /\ RecordAt[next] + RecordHeaderSize + 0 = RecordAt[next] + RecordHeaderSize
    BY <1>1, <1>2, <2>1, <2>2, <2>3, AskPlaces DEF ReadInv
  <2> QED
    BY <1>3, <2>1, <2>4 DEF ReadInv, Early, Complete
<1>8. CASE ReadData
  <2>1. /\ stage = "data" /\ stage' = "record" /\ Asks(RecordHeaderSize) /\ mem' = mem
        /\ next' = next + 1 /\ Len(given) = Record.length
    BY <1>8 DEF ReadData, DataRight, Arrived, ram
  <2>2. next \in 1 .. Records
    BY <1>1, <2>1, RecordsType DEF RespectInv, StreamInv, FlowInv
  <2>0. PICK r \in Nat, l \in Nat, p \in Nat :
          r = RecordAt[next] + RecordHeaderSize /\ l = Record.length /\ p = Place
    <3>1. RecordAt[next] \in Nat
      BY <1>1, <2>2, RecordAtIs, RecordsType
    <3>2. RecordHeaderSize \in Nat
      BY UefiAssumption
    <3>3. Place \in Nat
      BY <1>1, <1>2, Pieces
    <3>4. Record.length \in Nat
      BY <1>1, <2>2, RecordsType DEF Record
    <3> QED
      BY <3>1, <3>2, <3>3, <3>4
  <2>5. p = r + l
    BY <2>0, <2>1 DEF ReadInv
  <2>6. RecordAt[next + 1] = RecordAt[next] + RecordHeaderSize + image.records[next].length
    BY <1>1, <2>2, RecordAtIs
  <2>3. RecordAt[next + 1] = Place /\ Place \in Nat
    BY <2>0, <2>5, <2>6 DEF Record
  <2>4. /\ Place' = RecordAt[next + 1] + 0 /\ need' + Len(given') = RecordHeaderSize
        /\ Len(given') = 0
    BY <1>1, <1>2, <2>1, <2>3, AskPlaces
  <2> QED
    BY <1>3, <2>1, <2>4 DEF ReadInv, Early, Complete
<1> QED
  BY <1>4, <1>5, <1>6, <1>7, <1>8

LEMMA CopyRead ==
  ASSUME Layout, RespectInv, ReadInv, CopyBytes
  PROVE  ReadInv'
<1> DEFINE here == IF stage = "data" THEN Bytes(Placed + Len(given), CopyLength) ELSE {}
<1>1. /\ UNCHANGED <<image, next, stage>> /\ CopyFromBuffer /\ stage \in Reading
      /\ FileInv /\ image \in Files /\ image # NoFile /\ DOMAIN mem' = DOMAIN mem
  BY DEF CopyBytes, CopyFromBuffer, RespectInv, StreamInv, FileInv, FileTypes, FlowInv
<1>2. PICK n \in Nat, p \in Nat, g \in Nat, d \in Nat :
        n = CopyLength /\ p = Place /\ g = Len(given) /\ d = need
  <2>1. CopyLength \in Nat
    BY <1>1, CopyMoves
  <2>2. Place \in Nat /\ Len(given) \in Nat /\ need \in Nat
    BY <1>1, Pieces
  <2> QED
    BY <2>1, <2>2
<1>3. /\ n \in 1 .. d /\ Copied(n) = Stream!From(p, n)
      /\ Len(given') = g + n /\ Place' = p + n /\ need' = d - n
  BY <1>1, <1>2, CopyMoves
<1>4. RecordAt' = RecordAt
  BY <1>1 DEF RecordAt, Records
<1>5. need' + Len(given') = d + g /\ d + g = need + Len(given)
  BY <1>2, <1>3
<1>6. CASE stage = "sign"
  BY <1>1, <1>2, <1>3, <1>5, <1>6 DEF ReadInv, Early, Complete
<1>7. CASE stage = "header"
  <2>1. PICK r \in Nat : r = SignSize
    BY UefiAssumption
  <2>2. d + g = HeaderSize /\ p = r + g /\ Place' = r + Len(given')
    BY <1>2, <1>3, <1>7, <2>1 DEF ReadInv
  <2> QED
    BY <1>1, <1>5, <1>7, <2>1, <2>2 DEF ReadInv, Early, Complete
<1>8. CASE stage = "record"
  <2>1. RecordAt[next] \in Nat
    BY <1>1, <1>8, RecordAtIs DEF RespectInv, StreamInv, FlowInv
  <2>2. PICK r \in Nat : r = RecordAt[next]
    BY <2>1
  <2>3. d + g = RecordHeaderSize /\ p = r + g /\ Place' = r + Len(given')
    BY <1>2, <1>3, <1>8, <2>2 DEF ReadInv
  <2> QED
    BY <1>1, <1>4, <1>5, <1>8, <2>2, <2>3 DEF ReadInv, Early, Complete
<1>9. CASE stage = "data"
  <2>1. next \in 1 .. Records /\ RecordHeaderSize \in Nat
    BY <1>1, <1>9, RecordsType, UefiAssumption DEF RespectInv, StreamInv, FlowInv
  <2>2. PICK r \in Nat : r = RecordAt[next] + RecordHeaderSize
    BY <1>1, <2>1, RecordAtIs, RecordsType
  <2>3. p = r + g /\ \A k \in 0 .. g - 1 : mem[Placed + k] = r + k
    BY <1>2, <1>9, <2>2 DEF ReadInv
  <2>4. PICK b \in Nat : b = Placed /\ b + g \in 0 .. Pages * PageSize - 1
    <3>1. Record.address \in Nat
      BY <1>1, <2>1, RecordsType DEF Record
    <3>2. Placed \in Nat
      <4>1. PICK a \in Nat, m \in Nat \ {0} : a = Record.address /\ m = PhysicalSpan
        BY <3>1, UefiAssumption
      <4>2. a % m \in 0 .. m - 1
        BY DivMod
      <4> QED
        BY <4>1, <4>2 DEF Placed, Physical
    <3>3. Placed + Len(given) \in Bytes(Placed + Len(given), CopyLength)
      BY <1>2, <1>3, <3>2 DEF Bytes
    <3>4. Placed + Len(given) \in 0 .. Pages * PageSize - 1
      BY <1>1, <1>9, <3>3, PieceFits
    <3> QED
      BY <1>2, <3>2, <3>4
  <2>5. /\ here = (b + g) .. (b + g + n - 1)
        /\ \A a \in here : a \in 0 .. Pages * PageSize - 1
    <3>1. here = Bytes(Placed + Len(given), CopyLength)
      BY <1>9
    <3> QED
      BY <1>1, <1>2, <1>9, <2>4, <3>1, PieceFits DEF Bytes
  <2>6. \A a \in DOMAIN mem : mem'[a] = IF a \in here THEN Stream!From(p, n)[a - b - g + 1]
                                         ELSE mem[a]
    BY <1>2, <1>3, <1>9, <2>4 DEF CopyBytes
  <2>7. DOMAIN mem = 0 .. Pages * PageSize - 1 /\ Pages * PageSize \in Nat
    <3>1. Pages \in Nat /\ PageSize \in Nat
      BY UefiAssumption
    <3>2. DOMAIN mem = 0 .. Pages * PageSize - 1
      BY DEF ReadInv
    <3> QED
      BY <3>1, <3>2
  <2> HIDE DEF here
  <2>8. ASSUME NEW k \in 0 .. g + n - 1 PROVE mem'[b + k] = r + k
    <3>1. CASE k < g
      <4>1. b + k \in DOMAIN mem /\ b + k \notin here /\ k \in 0 .. g - 1
        BY <2>4, <2>5, <2>7, <3>1
      <4>2. mem[b + k] = r + k
        BY <2>3, <2>4, <4>1
      <4> QED
        BY <2>6, <4>1, <4>2
    <3>2. CASE k >= g
      <4>1. b + k \in here /\ b + k \in DOMAIN mem
        BY <2>5, <2>7, <3>2
      <4>2. PICK j \in 1 .. n : j = (b + k) - b - g + 1 /\ j = k - g + 1
        BY <3>2
      <4>3. mem'[b + k] = Stream!From(p, n)[j]
        BY <2>6, <4>1, <4>2
      <4>4. Stream!From(p, n)[j] = p + j - 1
        BY DEF Stream!From
      <4> QED
        BY <2>3, <4>2, <4>3, <4>4
    <3> QED
      BY <3>1, <3>2
  <2>9. Placed' = Placed
    BY <1>1 DEF Placed, Record, Physical
  <2>10. Place' = r + Len(given') /\ Len(given') - 1 = g + n - 1
    BY <1>3, <2>3
  <2> QED
    BY <1>1, <1>4, <1>3, <1>9, <2>2, <2>4, <2>8, <2>9, <2>10 DEF ReadInv, Early, Complete
<1> QED
  BY <1>1, <1>6, <1>7, <1>8, <1>9 DEF Reading

LEMMA StepRead ==
  ASSUME Layout, RespectInv, SettingsInv, ReadInv, [Next]_vars
  PROVE  ReadInv'
<1> USE DEF Goes, load, ram, Settled, machine, Early, Complete, Reading
<1>1. CASE AskSign \/ ReadSign \/ ReadHeader \/ ReadRecord \/ ReadData
  BY <1>1, AsksRead
<1>2. CASE CopyBytes
  BY <1>2, CopyRead
<1>3. CASE ReadLastRecord
  <2>1. /\ stage' = "close.run" /\ UNCHANGED <<image, next, mem>>
        /\ loader'.run = Physical(image.launch)
    BY <1>3 DEF ReadLastRecord, SettingsInv, fileVars
  <2> QED
    BY <2>1 DEF ReadInv, Physical
<1>4. CASE Fill
  <2>1. FileInv /\ hFile = "open" /\ (FillBuffer \/ FillFails)
    BY <1>4 DEF Fill, RespectInv, StreamInv, FlowInv
  <2>2. /\ Place' = Place /\ given' = given /\ need' = need
        /\ UNCHANGED <<image, stage, next, mem, loader>> /\ stage \in Reading
    BY <1>4, <2>1, FillKeeps DEF Fill, FillBuffer, FillFails
  <2>3. RecordAt' = RecordAt /\ Placed' = Placed
    BY <2>2 DEF RecordAt, Records, Placed, Record, Physical
  <2> QED
    BY <2>2, <2>3 DEF ReadInv
<1>5. CASE Seek
  <2>1. stage = "seek" /\ stage' = "ask" /\ UNCHANGED <<next, mem>>
    BY <1>5 DEF Seek
  <2>2. Stream!Start
    BY <1>5, RewindKeeps DEF Seek, RespectInv, StreamInv
  <2>3. Place' = 0
    BY <2>2 DEF Stream!Start, Place
  <2> QED
    BY <2>1, <2>3 DEF ReadInv
<1>6. CASE PowerCycle \/ StartedAgain
  <2>1. stage' = "init" /\ next' = 1 /\ DOMAIN mem' = DOMAIN mem
    BY <1>6 DEF PowerCycle, StartedAgain, Restarts
  <2> QED
    BY <2>1 DEF ReadInv
<1>7. CASE BootArgsInit \/ OEMBootInit \/ FindAcpiTable \/ BootLoaderConfig
           \/ BootLoaderPreLoad \/ BootLoaderLoadUldr \/ BootFileSystemInit
  BY <1>7, ReadFrame DEF BootArgsInit, OEMBootInit, FindAcpiTable, BootLoaderConfig,
     BootLoaderPreLoad, BootLoaderLoadUldr, BootFileSystemInit, NoFileCall
<1>8. CASE OpenImage \/ CleanUp
  BY <1>8, ReadFrame DEF OpenImage, CleanUp, BootFileSystemOpen,
     BootFileSystemOpenFails, BootFileSystemClose
<1>9. CASE BadSign \/ BadHeader \/ NoRoom \/ BadRecord \/ BadData
  BY <1>9, ReadFrame DEF BadSign, BadHeader, NoRoom, BadRecord,
     BadData, Refused, fileVars, NoFileCall
<1>10. CASE OEMBootRun \/ RelocateGDT \/ GetMemoryMap \/ ExitBootServices
  BY <1>10, ReadFrame DEF OEMBootRun, RelocateGDT, GetMemoryMap, ExitBootServices, fileVars,
     NoFileCall
<1>11. CASE UNCHANGED vars
  <2>1. UNCHANGED <<image, stage, next, mem, loader, need, given, gCurFilePosition,
                    gCurFileBufferIndex, gCurFileBufferLength>>
    BY <1>11 DEF vars, fileVars, bootVars, buffer
  <2>2. Place' = Place /\ RecordAt' = RecordAt /\ Placed' = Placed
    BY <2>1 DEF Place, InMemory, RecordAt, Records, Placed, Record, Physical
  <2> QED
    BY <2>1, <2>2 DEF ReadInv, Physical
<1> QED
  BY <1>1, <1>2, <1>3, <1>4, <1>5, <1>6, <1>7, <1>8, <1>9, <1>10, <1>11 DEF Next, LoaderStep

-----------------------------------------------------------------------------
(* With nothing in its way the loader takes no way that ends in a stop.    *)
Smooth == faults = 0 /\ GoodFile /\ RoomForFile /\ ~OtherSettings /\ plain
CalmInv ==
  Smooth =>
    /\ broke = FALSE
    /\ stage \notin {"close", "spin", "returned", "lost"}
    /\ stage \in Early => owned \subseteq ArgsPages
    /\ stage \in {"gdt", "map", "exit"} => address # 0
StopInv == RespectInv /\ SettingsInv /\ ReadInv /\ CalmInv

LEMMA StepLeaves ==
  ASSUME LoaderStep
  PROVE  /\ UNCHANGED faults \/ Fault
         /\ UNCHANGED <<image, taken, plain>>
         /\ var' = var \/ BootLoaderConfig
<1> USE DEF NoFileCall, Settled, machine, Refused, fileVars
<1>1. CASE Elsewhere
  <2>1. (UNCHANGED faults \/ Fault) /\ image' = image
    BY <1>1, ElsewhereStill
  <2>2. UNCHANGED <<taken, plain>> /\ (var' = var \/ BootLoaderConfig)
    BY <1>1 DEF Elsewhere, BootArgsInit, OEMBootInit, FindAcpiTable, BootLoaderConfig,
       BootLoaderPreLoad, BootLoaderLoadUldr, BootFileSystemInit, BadSign, BadHeader, NoRoom,
       BadRecord, ReadLastRecord, BadData, OEMBootRun, RelocateGDT, GetMemoryMap,
       ExitBootServices
  <2> QED
    BY <2>1, <2>2
<1>2. CASE OpenImage
  <2>1. UNCHANGED faults \/ Fault
    BY <1>2 DEF OpenImage, BootFileSystemOpen, GetFileSize, BootFileSystemOpenFails
  <2>2. UNCHANGED <<image, var, taken, plain>>
    BY <1>2 DEF OpenImage, BootFileSystemOpen, BootFileSystemOpenFails
  <2> QED
    BY <2>1, <2>2
<1>3. CASE CleanUp \/ Seek \/ AskSign
  BY <1>3 DEF CleanUp, Seek, AskSign, BootFileSystemClose, BootFileSystemRewind, Asks
<1>4. CASE CopyBytes \/ Fill
  BY <1>4 DEF CopyBytes, Fill, CopyFromBuffer, FillBuffer, FillFails
<1>5. CASE ReadSign \/ ReadHeader \/ ReadRecord \/ ReadData
  BY <1>5 DEF ReadSign, ReadHeader, ReadRecord, ReadData, Asks
<1> QED
  BY <1>1, <1>2, <1>3, <1>4, <1>5 DEF LoaderStep, Elsewhere

LEMMA SmoothBefore ==
  ASSUME RespectInv, LoaderStep, Smooth'
  PROVE  Smooth /\ faults' = 0 /\ ~Fault /\ image' = image
<1>1. faults \in Nat
  BY FileAssumption DEF RespectInv, StreamInv, FileInv, FileTypes
<1>2. UNCHANGED <<image, taken, plain>>
  BY StepLeaves
<1>3. faults' = faults /\ ~Fault
  BY <1>1, StepLeaves DEF Smooth, Fault
<1>4. GoodFile /\ RoomForFile
  BY <1>2 DEF Smooth, GoodFile, RoomForFile, Whole, WholeSize, RecordAt, Records, AllocatedLength,
     ArgsPages, Physical
<1>5. ~OtherSettings
  <2>1. CASE var' = var
    BY <2>1 DEF Smooth, OtherSettings
  <2>2. CASE BootLoaderConfig /\ var' # var
    BY <1>3, <2>2 DEF BootLoaderConfig, ReadConfigFromGlobalVar, DefaultConfig, OtherSettings
  <2> QED
    BY <2>1, <2>2, StepLeaves
<1> QED
  BY <1>2, <1>3, <1>4, <1>5 DEF Smooth

LEMMA ConfigNamesDisk ==
  ASSUME SettingsInv, Smooth, BootLoaderConfig
  PROVE  stage' # "spin"
<1>1. CASE DefaultConfig
  BY <1>1 DEF BootLoaderConfig, DefaultConfig, SettingsInv
<1>2. CASE ReadConfigFromGlobalVar
  <2>1. var.current /\ var.device = "store"
    <3>1. CASE var \in Variables
      <4>1. ~var.ours
        BY <3>1, SettingsAssumption, Zenon
      <4> QED
        BY <1>2, <4>1 DEF Smooth, OtherSettings, ReadConfigFromGlobalVar
    <3>2. CASE var = DefaultVariable
      BY <3>2 DEF DefaultVariable
    <3> QED
      BY <1>2, <3>1, <3>2 DEF SettingsInv, ReadConfigFromGlobalVar
  <2>2. loader'.device = "store"
    BY <1>2, <2>1 DEF ReadConfigFromGlobalVar, SettingsInv
  <2> QED
    BY <2>2 DEF BootLoaderConfig
<1> QED
  BY <1>1, <1>2 DEF BootLoaderConfig

(* What was read was as long as asked for, and is what the file has there. *)
LEMMA NothingRefused ==
  ASSUME Layout, StopInv, Smooth
  PROVE  ~BadSign /\ ~BadHeader /\ ~BadRecord /\ ~BadData
<1>1. /\ broke = FALSE /\ image \in Files /\ image # NoFile /\ Len(given) \in Nat
      /\ need \in Nat /\ Records \in Nat
  BY Pieces, RecordsType
  DEF StopInv, CalmInv, RespectInv, StreamInv, FileInv, FileTypes, Smooth, GoodFile, Whole
<1>2. {SignSize, HeaderSize, RecordHeaderSize} \subseteq Nat \ {0}
  BY UefiAssumption
<1>3. ~BadSign
  <2> SUFFICES ASSUME stage = "sign", Answered PROVE SignRight
    BY DEF BadSign
  <2>1. need = 0 /\ need + Len(given) = SignSize
    BY <1>1 DEF Answered, StopInv, ReadInv
  <2>2. Len(given) = SignSize
    BY <1>1, <2>1
  <2> QED
    BY <2>2 DEF SignRight, Arrived, Smooth, GoodFile
<1>4. ~BadHeader
  <2> SUFFICES ASSUME stage = "header", Answered PROVE HeaderRight
    BY DEF BadHeader
  <2>1. need = 0 /\ need + Len(given) = HeaderSize
    BY <1>1 DEF Answered, StopInv, ReadInv
  <2>2. Len(given) = HeaderSize
    BY <1>1, <2>1
  <2> QED
    BY <2>2 DEF HeaderRight, Arrived, Smooth, GoodFile
<1>5. ~BadRecord
  <2> SUFFICES ASSUME stage = "record", Answered PROVE RecordIn /\ (LastRecord \/ InRange)
    BY DEF BadRecord
  <2>1. need = 0 /\ need + Len(given) = RecordHeaderSize /\ Place = RecordAt[next] + Len(given)
    BY <1>1 DEF Answered, StopInv, ReadInv
  <2>2. next \in 1 .. Records + 1
    BY <1>1 DEF StopInv, RespectInv, StreamInv, FlowInv
  <2>3. RecordIn
    <3>1. PICK n \in Nat \ {0}, r \in Nat :
            n = Len(given) /\ n = RecordHeaderSize /\ r = RecordAt[next]
      BY <1>1, <1>2, <2>1, <2>2, RecordAtIs
    <3>2. given = Stream!From(Place - Len(given), Len(given))
      BY DEF StopInv, RespectInv, StreamInv, FileInv, GivenInv
    <3>3. Place - Len(given) = r
      BY <2>1, <3>1
    <3>4. Stream!From(r, n)[1] = r + 1 - 1
      BY DEF Stream!From
    <3> QED
      BY <3>1, <3>2, <3>3, <3>4 DEF RecordIn, Arrived, Answered
  <2>4. CASE next # Records + 1
    <3>1. next \in 1 .. Records
      BY <1>1, <2>2, <2>4
    <3>2. /\ Record.address >= image.start
          /\ Record.address + Record.length <= image.start + image.size
          /\ Top(image.start, image.size) >= image.start
      BY <3>1 DEF Smooth, GoodFile, Record
    <3>3. PICK a \in Nat, l \in Nat : a = Record.address /\ l = Record.length
      BY <1>1, <3>1, RecordsType DEF Record
    <3>4. PICK s \in 0 .. Word - 1, z \in 0 .. Word - 1 : s = image.start /\ z = image.size
      BY <1>1, ImageAssumption
    <3>5. s + z < Word /\ Top(s, z) = s + z
      BY <3>2, <3>4, TopIsSum
    <3>6. a + l \in Nat /\ a + l < Word /\ Word \in Nat \ {0}
      BY <3>2, <3>3, <3>4, <3>5, UefiAssumption
    <3>7. Top(a, l) = a + l
      BY <3>6, ModSmall DEF Top
    <3> QED
      BY <2>3, <3>2, <3>3, <3>4, <3>5, <3>7 DEF InRange
  <2> QED
    BY <2>3, <2>4 DEF LastRecord
<1>6. ~BadData
  <2> SUFFICES ASSUME stage = "data", Answered PROVE DataRight
    BY DEF BadData
  <2>1. next \in 1 .. Records
    BY <1>1 DEF StopInv, RespectInv, StreamInv, FlowInv
  <2>2. need = 0 /\ need + Len(given) = Record.length
    BY <1>1 DEF Answered, StopInv, RespectInv, PagesInv
  <2>3. Len(given) = Record.length
    BY <1>1, <2>2
  <2>4. Record.right
    BY <2>1 DEF Smooth, GoodFile, Record
  <2>5. InPlace(next)
    <3>1. \A k \in 0 .. Len(given) - 1 : mem[Placed + k] = RecordAt[next] + RecordHeaderSize + k
      BY DEF StopInv, ReadInv
    <3> QED
      BY <2>3, <3>1 DEF InPlace, Placed, Record
  <2> QED
    BY <2>3, <2>4, <2>5 DEF DataRight, Arrived, SumRight
<1> QED
  BY <1>3, <1>4, <1>5, <1>6

LEMMA RoomIsThere ==
  ASSUME StopInv, Smooth, ~Fault
  PROVE  ~NoRoom
<1> SUFFICES ASSUME stage = "header",
                    ~(ImagePages \subseteq (0 .. Pages - 1) \ (taken \cup owned))
             PROVE  FALSE
  BY DEF NoRoom, NotAllocated, ImagePages
<1>1. owned \subseteq ArgsPages
  BY DEF StopInv, CalmInv, Early
<1>2. ImagePages \subseteq (0 .. Pages - 1) \ (taken \cup ArgsPages)
  BY DEF Smooth, RoomForFile, ImagePages
<1> QED
  BY <1>1, <1>2

LEMMA StepCalm ==
  ASSUME Layout, StopInv, LoaderStep
  PROVE  CalmInv'
<1> SUFFICES ASSUME Smooth'
             PROVE  /\ broke' = FALSE
                    /\ stage' \notin {"close", "spin", "returned", "lost"}
                    /\ stage' \in Early => owned' \subseteq ArgsPages
                    /\ stage' \in {"gdt", "map", "exit"} => address' # 0
  BY DEF CalmInv, ArgsPages
<1>1. Smooth /\ ~Fault /\ image' = image
  BY SmoothBefore DEF StopInv
<1>2. /\ broke = FALSE /\ stage \notin {"close", "spin", "returned", "lost"}
      /\ stage \in Early => owned \subseteq ArgsPages
      /\ stage \in {"gdt", "map", "exit"} => address # 0
  BY <1>1 DEF StopInv, CalmInv
<1> USE DEF Goes, load, ram, Settled, machine, Early, Reading, NoFileCall
<1>3. CASE BootArgsInit
  BY <1>2, <1>3 DEF BootArgsInit, AllocateImageBuffer, NotAllocated, ArgsPages
<1>4. CASE BootLoaderConfig
  <2>1. stage' # "spin"
    BY <1>1, <1>4, ConfigNamesDisk DEF StopInv
  <2> QED
    BY <1>2, <1>4, <2>1 DEF BootLoaderConfig
<1>5. CASE OEMBootInit \/ FindAcpiTable \/ BootLoaderPreLoad \/ BootLoaderLoadUldr
           \/ BootFileSystemInit
  BY <1>1, <1>2, <1>5 DEF OEMBootInit, FindAcpiTable, BootLoaderPreLoad, BootLoaderLoadUldr,
     BootFileSystemInit
<1>6. CASE OpenImage
  <2>1. image \in Files /\ image # NoFile /\ Whole
    BY <1>1 DEF Smooth, GoodFile, Whole, StopInv, RespectInv, StreamInv, FileInv, FileTypes
  <2>2. Size = RecordAt[Records + 1] + RecordHeaderSize /\ Records + 1 \in 1 .. Records + 1
    BY <2>1, RecordsType DEF Size, Whole, WholeSize
  <2>3. RecordAt[Records + 1] \in Nat /\ RecordHeaderSize \in Nat \ {0}
    BY <2>1, <2>2, RecordAtIs, UefiAssumption
  <2>4. Size # 0
    BY <2>2, <2>3
  <2>5. BootFileSystemOpen(Size) /\ stage' = "seek" /\ owned' = owned /\ stage = "open"
    BY <1>1, <1>6, <2>1, <2>4 DEF OpenImage, BootFileSystemOpenFails, BootFileSystemOpen,
       GetFileSize
  <2> QED
    BY <1>2, <2>5 DEF BootFileSystemOpen, FreshBuffer
<1>7. CASE CleanUp \/ Seek \/ AskSign \/ ReadSign
  <2>1. CASE CleanUp
    BY <1>2, <2>1 DEF CleanUp, BootFileSystemClose, FreshBuffer
  <2>2. CASE Seek \/ AskSign \/ ReadSign
    BY <1>2, <2>2 DEF Seek, AskSign, ReadSign, BootFileSystemRewind, Asks
  <2> QED
    BY <1>7, <2>1, <2>2
<1>8. CASE CopyBytes \/ Fill
  BY <1>1, <1>2, <1>8 DEF CopyBytes, Fill, CopyFromBuffer, FillBuffer, FillFails
<1>9. CASE ReadHeader \/ ReadRecord \/ ReadData
  BY <1>9 DEF ReadHeader, ReadRecord, ReadData, Asks
<1>10. CASE ReadLastRecord \/ RelocateGDT
  BY <1>2, <1>10 DEF ReadLastRecord, RelocateGDT, fileVars
<1>11. CASE OEMBootRun
  <2>1. loader.run = Physical(image.launch) /\ Physical(image.launch) # 0
    BY <1>1, <1>11 DEF OEMBootRun, StopInv, ReadInv, Complete, Smooth, GoodFile
  <2> QED
    BY <1>2, <1>11, <2>1 DEF OEMBootRun, fileVars
<1>12. CASE GetMemoryMap \/ ExitBootServices
  BY <1>1, <1>2, <1>12 DEF GetMemoryMap, ExitBootServices
<1>13. CASE BadSign \/ BadHeader \/ BadRecord \/ BadData \/ NoRoom
  BY <1>1, <1>13, NothingRefused, RoomIsThere
<1> QED
  BY <1>3, <1>4, <1>5, <1>6, <1>7, <1>8, <1>9, <1>10, <1>11, <1>12, <1>13 DEF LoaderStep

LEMMA StepStop ==
  ASSUME Layout, StopInv, [Next]_vars
  PROVE  StopInv'
<1>1. RespectInv' /\ ReadInv'
  BY StepRespects, StepRead DEF StopInv
<1>2. SettingsInv'
  <2>1. CASE Next
    BY <2>1, StepSettings DEF StopInv
  <2>2. CASE UNCHANGED vars
    BY <2>2 DEF vars, bootVars, StopInv, SettingsInv
  <2> QED
    BY <2>1, <2>2
<1>3. CalmInv'
  <2>1. CASE LoaderStep
    BY <2>1, StepCalm
  <2>2. CASE PowerCycle \/ StartedAgain
    BY <2>2 DEF PowerCycle, StartedAgain, Restarts, FreshBuffer, Goes, CalmInv, Smooth
  <2>3. CASE UNCHANGED vars
    <3>1. UNCHANGED <<faults, image, taken, var, plain, broke, stage, owned, address>>
      BY <2>3 DEF vars, fileVars, bootVars
    <3>2. Smooth' => Smooth
      BY <3>1 DEF Smooth, GoodFile, RoomForFile, OtherSettings, Whole, WholeSize, RecordAt,
         Records, AllocatedLength, ArgsPages, Physical
    <3> QED
      BY <3>1, <3>2 DEF StopInv, CalmInv, ArgsPages
  <2> QED
    BY <2>1, <2>2, <2>3 DEF Next
<1> QED
  BY <1>1, <1>2, <1>3 DEF StopInv

(* THEOREM: whatever the file and the firmware: where the loader stops or  *)
(* returns to the firmware, a call has failed, the file is bad or has no   *)
(* room, settings that are not the loader's own name no disk, or it had    *)
(* returned before.                                                        *)
THEOREM StopsOnlyIfHurtHolds ==
  ASSUME Layout
  PROVE  Spec => []StopsOnlyIfHurt
<1>1. Init => StopInv
  <2> SUFFICES ASSUME Init PROVE StopInv
    OBVIOUS
  <2>1. RespectInv
    BY InitRespects
  <2>2. SettingsInv
    BY UefiAssumption DEF Init, SettingsInv, Stages, Early, NoLoader
  <2>3. ReadInv /\ CalmInv
    BY DEF Init, FileInit, ReadInv, CalmInv, Early, Complete
  <2> QED
    BY <2>1, <2>2, <2>3 DEF StopInv
<1>2. StopInv /\ [Next]_vars => StopInv'
  BY StepStop
<1>3. StopInv => StopsOnlyIfHurt
  <2> SUFFICES ASSUME StopInv, stage \in Ended \ {"kernel"}
               PROVE  faults > 0 \/ ~GoodFile \/ ~RoomForFile \/ OtherSettings \/ ~plain
    BY DEF StopsOnlyIfHurt
  <2>1. faults \in Nat
    BY FileAssumption DEF StopInv, RespectInv, StreamInv, FileInv, FileTypes
  <2>2. ~Smooth
    BY DEF StopInv, CalmInv, Ended
  <2> QED
    BY <2>1, <2>2 DEF Smooth
<1> QED
  BY <1>1, <1>2, <1>3, PTL DEF Spec
=============================================================================
