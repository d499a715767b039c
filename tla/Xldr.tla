-------------------------------- MODULE Xldr --------------------------------
(***************************************************************************)
(* The second stage of NLoader, CLoader and wecloader (xldr/xldr.c,        *)
(* xldr/filesystem.c), started by the boot sector.  It computes the places *)
(* again, from the parameter block in the boot sector's copy, with 32-bit  *)
(* numbers; finds its own file in the first sector of the directory; goes  *)
(* through the sectors from there on until one begins with the signature   *)
(* of a BIN image; and loads that image from the sectors that follow one   *)
(* another.                                                                *)
(*                                                                         *)
(* An image on the disk is a sequence of cells, CellsPerSector in each     *)
(* sector: two for the image header, two for a record header, one for each *)
(* unit of a body.  A cell of zeros is Nought.                             *)
(***************************************************************************)
EXTENDS BootSector

CONSTANTS
  CellsPerSector,
  XldrSectors,     \* sectors of the second stage that must be in memory
  CodeTop,         \* 0x10000, the second stage and the BIOS lie below
  SumFloor,        \* 0x1000
  AddressSpace     \* 2^32

ASSUME XldrAssumption ==
  /\ CellsPerSector \in Nat \ {0} /\ XldrSectors \in 1 .. READ_LENGTH
  /\ {CodeTop, SumFloor, AddressSpace} \subseteq Nat \ {0} /\ SumFloor <= CodeTop

VARIABLES
  reader,    \* s_fileSystem: [readSector, readOffset, bufferSector, bufferOffset]
  toRead,      \* size in FileSystemRead: cells still to be read
  taken,     \* the cells of a header read so far
  into,      \* pBuffer: the address the next cell of a body goes to
  header,    \* of the image: [address, length]
  record,    \* of the record: [address, length, sum]
  memory,    \* the cells loaded, by address
  launchAt   \* start

xldrVars == <<reader, toRead, taken, into, header, record, memory, launchAt>>
image32 == <<header, record, memory, launchAt>>
chainVars == <<sectorVars, xldrVars>>

Nought == [nought |-> TRUE]
Nowhere == -1
NoHeader == [address |-> 0, length |-> 0]
NoRecord == [address |-> 0, length |-> 0, sum |-> 0]

XldrInit ==
  /\ reader = [readSector |-> 0, readOffset |-> 0, bufferSector |-> Nowhere,
               bufferOffset |-> 0]
  /\ toRead = 0 /\ taken = <<>> /\ into = 0
  /\ header = NoHeader /\ record = NoRecord
  /\ memory = <<>> /\ launchAt = 0

ChainInit == SectorInit /\ XldrInit

-----------------------------------------------------------------------------
(* ReadSector: extended, or by cylinder, head and sector, in ten bits.     *)
XldrPlace(m, n) ==
  IF m.drive.edd THEN ExtendedPlace(m, n)
  ELSE LET q == n \div m.drive.track
           c == (q \div m.drive.heads) % Cylinders
           h == q % m.drive.heads
           s == n % m.drive.track
       IN  IF OnDrive(m.drive, c, h, s) THEN ByChs(m.drive, c, h, s) ELSE -1

Reads(n) == XldrPlace(medium, n) # -1 /\ NoChainFault
ReadFailsAt(n) == ChainFault \/ (XldrPlace(medium, n) = -1 /\ NoChainFault)
Sector(n) == Content(medium, XldrPlace(medium, n))

CellOf(s, k) == IF "cells" \in DOMAIN s /\ k <= Len(s.cells) THEN s.cells[k] ELSE Nought

(* goto powerOff: spin for ever.                                           *)
Spin == link' = "spin" /\ UNCHANGED <<medium, lba, toLoad, atLoad>>

-----------------------------------------------------------------------------
(* FileSystemInit                                                          *)

(* The directory's length is not rounded up to a sector here.              *)
RootSectors(m) == m.entries \div EntriesPerRootSector

XldrFatEnd(m) == m.hidden + m.reserved + m.fats * SectPerFAT(m)
XldrData(m) == XldrFatEnd(m) + IF HasRootArea(m) THEN RootSectors(m) ELSE 0
XldrRoot(m) ==
  IF HasRootArea(m) THEN XldrFatEnd(m)
  ELSE XldrData(m) + (m.rootCluster - 2) * m.perCluster

(* The volume's number of sectors, which a sector number is compared with. *)
XldrSectorCount(m) ==
  IF HasRootArea(m) /\ m.small # 0 THEN m.small ELSE m.total

WCELDRNAME(m) == IF m.loader = "NLoader" THEN "NWCELDR" ELSE "WCELDR"

(* The jump to LOAD_ADDRESS.  What runs if it is not the second stage is   *)
(* anybody's guess.                                                        *)
XldrMain ==
  /\ link = "load" /\ toLoad = 0
  /\ link' = IF IsStage(atLoad, XldrSectors) THEN "xldr" ELSE "wild"
  /\ NoChainFault /\ UNCHANGED <<medium, lba, toLoad, atLoad, xldrVars>>

(* Parameter block, INT 13h's extensions, directory sector, name.          *)
FileSystemInit ==
  /\ link = "xldr" /\ medium.type # "exFAT"
  /\ Reads(XldrRoot(medium))
  /\ LET s == Sector(XldrRoot(medium))
     IN  /\ "names" \in DOMAIN s /\ WCELDRNAME(medium) \in s.names
         /\ lba' = XldrData(medium)
                     + (medium.files[WCELDRNAME(medium)].cluster - 2) * medium.perCluster
  /\ link' = "scan" /\ UNCHANGED <<medium, toLoad, atLoad, xldrVars>>

FileSystemInitFails ==
  /\ link = "xldr"
  /\ \/ medium.type = "exFAT" /\ NoChainFault
     \/ medium.type # "exFAT" /\ ReadFailsAt(XldrRoot(medium))
     \/ /\ medium.type # "exFAT" /\ Reads(XldrRoot(medium))
        /\ LET s == Sector(XldrRoot(medium))
           IN  ~("names" \in DOMAIN s /\ WCELDRNAME(medium) \in s.names)
  /\ Spin /\ UNCHANGED xldrVars

(* Look for the sector with the signature.                                 *)
Signed(s) == "sign" \in DOMAIN CellOf(s, 1)
InScan == link = "scan" /\ lba < XldrSectorCount(medium)

NotSigned ==
  /\ InScan /\ Reads(lba) /\ ~Signed(Sector(lba))
  /\ lba' = lba + 1 /\ UNCHANGED <<link, medium, toLoad, atLoad, xldrVars>>

(* XldrMain asks for n cells more.                                         *)
AsksFor(n, next) == toRead' = n /\ taken' = <<>> /\ link' = next

SignatureFound ==
  /\ InScan /\ Reads(lba) /\ Signed(Sector(lba))
  /\ reader' = [readSector |-> lba, readOffset |-> 0, bufferSector |-> Nowhere,
                bufferOffset |-> 0]
  /\ AsksFor(2, "header")
  /\ UNCHANGED <<medium, lba, toLoad, atLoad, into, image32>>

ScanFails ==
  /\ \/ link = "scan" /\ lba >= XldrSectorCount(medium) /\ NoChainFault
     \/ InScan /\ ReadFailsAt(lba)
  /\ Spin /\ UNCHANGED xldrVars

-----------------------------------------------------------------------------
(* FileSystemRead: a sector, or what is left of the one in the buffer, in  *)
(* each round.                                                             *)

Reading == link \in {"header", "record", "body"}
NewSector == reader.readSector # reader.bufferSector
Offset == IF NewSector THEN 0 ELSE reader.bufferOffset
Piece == IF CellsPerSector - Offset > toRead THEN toRead ELSE CellsPerSector - Offset

Advanced ==
  LET done == reader.readOffset + Piece >= CellsPerSector
  IN  [readSector |-> IF done THEN reader.readSector + 1 ELSE reader.readSector,
       readOffset |-> IF done THEN 0 ELSE reader.readOffset + Piece,
       bufferSector |-> reader.readSector, bufferOffset |-> Offset + Piece]

(* A body is copied to its address at once.  Addresses wrap, and what runs  *)
(* is lost when the copy reaches it.                                       *)
Addresses32(k) == {(into + j) % AddressSpace : j \in 0 .. k - 1}
Placed(cells) ==
  [a \in Addresses32(Len(cells)) \cup DOMAIN memory |->
     IF a \in Addresses32(Len(cells)) THEN cells[((a - into) % AddressSpace) + 1] ELSE memory[a]]

FileSystemRead ==
  /\ Reading /\ toRead > 0
  /\ IF NewSector THEN Reads(reader.readSector) ELSE NoChainFault
  /\ LET cells == [k \in 1 .. Piece |-> CellOf(Sector(reader.readSector), Offset + k)]
     IN  /\ taken' = taken \o cells
         /\ memory' = IF link = "body" THEN Placed(cells) ELSE memory
  /\ reader' = Advanced /\ toRead' = toRead - Piece
  /\ into' = (into + Piece) % AddressSpace
  /\ link' = IF link = "body" /\ \E a \in Addresses32(Piece) : a < CodeTop
             THEN "wild" ELSE link
  /\ UNCHANGED <<medium, lba, toLoad, atLoad, header, record, launchAt>>

FileSystemReadFails ==
  /\ Reading /\ toRead > 0 /\ NewSector /\ ReadFailsAt(reader.readSector)
  /\ Spin /\ UNCHANGED xldrVars

-----------------------------------------------------------------------------
(* XldrMain's checks.                                                      *)

Got(l) == link = l /\ toRead = 0 /\ NoChainFault

HeaderValid ==
  /\ "sign" \in DOMAIN taken[1] /\ "range" \in DOMAIN taken[2]
  /\ taken[2].range.address >= CodeTop
  /\ (taken[2].range.address + taken[2].range.length) % AddressSpace >= SumFloor

ImageHeaderRead ==
  /\ Got("header") /\ HeaderValid
  /\ header' = taken[2].range
  /\ AsksFor(2, "record")
  /\ UNCHANGED <<medium, lba, toLoad, atLoad, reader, into, record, memory, launchAt>>

ImageHeaderInvalid == Got("header") /\ ~HeaderValid /\ Spin /\ UNCHANGED xldrVars

(* The numbers of a record header; Odd for cells that belong to something  *)
(* else, whose numbers pass no check.                                      *)
Odd == [address |-> -1, length |-> 0, sum |-> 0]
HeaderIn(cells) ==
  IF cells = <<Nought, Nought>> THEN NoRecord
  ELSE IF "at" \in DOMAIN cells[1] /\ "sum" \in DOMAIN cells[2]
       THEN [address |-> cells[1].at, length |-> cells[1].length, sum |-> cells[2].sum]
       ELSE Odd

LastHeaderIn(r) == r.address = 0 /\ r.sum = 0

(* Bug: only the record's first byte is compared with the range.           *)
InRangeAtFirst(r) ==
  r.address >= header.address /\ r.address - header.address <= header.length

InRange(r) ==
  /\ r.address >= header.address
  /\ (r.address - header.address + r.length) % AddressSpace <= header.length

RecordHeaderRead ==
  /\ Got("record")
  /\ LET r == HeaderIn(taken)
     IN  /\ ~LastHeaderIn(r) /\ InRange(r)
         /\ record' = r /\ into' = r.address
         /\ AsksFor(r.length, "body")
  /\ UNCHANGED <<medium, lba, toLoad, atLoad, reader, header, memory, launchAt>>

RecordHeaderCorrupted ==
  /\ Got("record") /\ ~LastHeaderIn(HeaderIn(taken)) /\ ~InRange(HeaderIn(taken))
  /\ Spin /\ UNCHANGED xldrVars

LastHeaderRead ==
  /\ Got("record") /\ LastHeaderIn(HeaderIn(taken))
  /\ launchAt' = HeaderIn(taken).length
  /\ link' = "jumped"
  /\ UNCHANGED <<medium, lba, toLoad, atLoad, reader, toRead, taken, into, header,
                 record, memory>>

(* The sum over the bytes in memory.  A unit's number is what it adds.     *)
Amount(c) == IF "unit" \in DOMAIN c THEN c.unit ELSE 0
SumOf(cells) ==
  LET upTo[k \in 0 .. Len(cells)] ==
        IF k = 0 THEN 0 ELSE upTo[k - 1] + Amount(cells[k])
  IN  upTo[Len(cells)]
SumRight == SumOf(taken) = record.sum

RecordBodyRead ==
  /\ Got("body") /\ SumRight
  /\ AsksFor(2, "record")
  /\ UNCHANGED <<medium, lba, toLoad, atLoad, reader, into, image32>>

BodySumWrong == Got("body") /\ ~SumRight /\ Spin /\ UNCHANGED xldrVars

XldrStep ==
  \/ XldrMain \/ FileSystemInit \/ FileSystemInitFails
  \/ NotSigned \/ SignatureFound \/ ScanFails
  \/ FileSystemRead \/ FileSystemReadFails
  \/ ImageHeaderRead \/ ImageHeaderInvalid
  \/ RecordHeaderRead \/ RecordHeaderCorrupted \/ LastHeaderRead
  \/ RecordBodyRead \/ BodySumWrong

ChainNext == (SectorStep /\ UNCHANGED xldrVars) \/ XldrStep

(* One processor runs the chain and nothing else.                          *)
ChainFairness == WF_chainVars(ChainNext)
ChainSpec == ChainInit /\ [][ChainNext]_chainVars /\ ChainFairness

-----------------------------------------------------------------------------
(* Properties                                                              *)

(* An image and its cells: [start, range, records], a record [at, units].  *)
Flat(seqs) ==
  LET upTo[k \in 0 .. Len(seqs)] == IF k = 0 THEN <<>> ELSE upTo[k - 1] \o seqs[k]
  IN  upTo[Len(seqs)]
RecordCells(r) ==
  LET units == [k \in DOMAIN r.units |-> [unit |-> r.units[k]]]
  IN  <<[at |-> r.at, length |-> Len(r.units)], [sum |-> SumOf(units)]>> \o units
ImageCells(image) ==
  <<[sign |-> TRUE], [range |-> image.range]>>
    \o Flat([k \in DOMAIN image.records |-> RecordCells(image.records[k])])
    \o <<[at |-> 0, length |-> image.start], [sum |-> 0]>>

Holds(r, a) == r.at <= a /\ a < r.at + Len(r.units)
InMemory(image) ==
  \A k \in DOMAIN image.records :
    \A a \in image.records[k].at .. image.records[k].at + Len(image.records[k].units) - 1 :
      (\A j \in k + 1 .. Len(image.records) : ~Holds(image.records[j], a)) =>
        /\ a \in DOMAIN memory
        /\ memory[a] = [unit |-> image.records[k].units[a - image.records[k].at + 1]]

InOnePiece(f) == f.gap = 0 \/ f.split > Len(f.sectors)

(* Every record lies in the image's range, and the range in the memory     *)
(* that may be loaded, without a sum that wraps.                           *)
Within(image) ==
  \A k \in DOMAIN image.records :
    LET r == image.records[k]
    IN  /\ r.at >= image.range.address
        /\ r.at + Len(r.units) <= image.range.address + image.range.length
Sound(image) ==
  /\ Within(image)
  /\ image.range.address >= CodeTop
  /\ image.range.address + image.range.length < AddressSpace

(* What the second stage needs besides: a file system it knows, its file   *)
(* under its own name and in one piece, a directory of whole sectors, and  *)
(* the image below the sector whose number is the volume's length.         *)
LastImageSector(m, f) == FileSector(m, f, Len(f.sectors))
ChainLoads(m) ==
  /\ SectorLoads(m, XldrSectors)
  /\ m.type # "exFAT" /\ WCELDRNAME(m) \in DOMAIN m.files
  /\ LET f == m.files[WCELDRNAME(m)]
     IN  /\ InOnePiece(f) /\ f.image.whole /\ Sound(f.image)
         /\ LastImageSector(m, f) < XldrSectorCount(m)
         /\ m.drive.edd \/ InReach(m, LastImageSector(m, f))
  /\ HasRootArea(m) => m.entries % EntriesPerRootSector = 0

(* A volume whose images are as the tools make them: a sector with the     *)
(* signature begins its file's image, all of it, in one piece, on sectors  *)
(* that are read, and no sector of a file looks like a directory; the      *)
(* numbers are of 32 bits, and neither the start nor a record is at        *)
(* address 0, which marks the last header.                                 *)
ImageMade(i) ==
  /\ i.start \in 1 .. AddressSpace - 1
  /\ i.range.address \in 0 .. AddressSpace - 1 /\ i.range.length \in 0 .. AddressSpace - 1
  /\ Len(i.records) \in Nat /\ DOMAIN i.records = 1 .. Len(i.records)
  /\ \A k \in DOMAIN i.records :
       LET r == i.records[k]
       IN  /\ r.at \in 1 .. AddressSpace - 1 /\ Len(r.units) \in 0 .. AddressSpace - 1
           /\ DOMAIN r.units = 1 .. Len(r.units)

ImageAt(m, f, s) ==
  LET cells == ImageCells(f.image)
  IN  \A d \in 0 .. Len(cells), k \in 1 .. CellsPerSector :
        d * CellsPerSector + k <= Len(cells) =>
          /\ s + d \in DOMAIN f.sectors
          /\ CellOf(f.sectors[s + d], k) = cells[d * CellsPerSector + k]
          /\ FileSector(m, f, s + d) = FileSector(m, f, s) + d
          /\ m.drive.edd \/ InReach(m, FileSector(m, f, s + d))

ImagesMade(m) ==
  /\ m.small \in Nat /\ m.total \in Nat
  /\ \A n \in DOMAIN m.files :
       LET f == m.files[n]
       IN  /\ \A s \in DOMAIN f.sectors : "names" \notin DOMAIN f.sectors[s]
           /\ f.image.whole => \E s \in DOMAIN f.sectors : Signed(f.sectors[s])
           /\ \A s \in DOMAIN f.sectors :
                Signed(f.sectors[s]) => f.image.whole /\ ImageMade(f.image) /\ ImageAt(m, f, s)

ChainEnded == link \in {"restart", "spin", "wild", "jumped"}

(* What is jumped to is a whole image of a file on the volume, in memory   *)
(* as the file has it and inside its range, at the address its last header *)
(* names; or address 0, which zeros in a broken image name.                *)
ImageRight ==
  link = "jumped" /\ launchAt # 0 =>
    \E n \in DOMAIN medium.files :
      LET i == medium.files[n].image
      IN  i.whole /\ Within(i) /\ launchAt = i.start /\ InMemory(i)

(* On every volume that has what a stage needs the stage does its work,    *)
(* unless a read fails: the boot sector starts the second stage, and that  *)
(* starts the image.  And the second stage is not written over unless the  *)
(* numbers in an image wrap.                                               *)
StagesWork ==
  /\ SectorRight(XldrSectors)
  /\ ChainEnded /\ ChainLoads(medium) /\ chainFaults = 0 =>
       link = "jumped" /\ launchAt # 0
  /\ link = "wild" /\ IsStage(atLoad, XldrSectors) =>
       \E n \in DOMAIN medium.files : ~Sound(medium.files[n].image)

(* From the first sector of the volume to the jump into the loader: the    *)
(* two stages compute the same places in different ways, and what they     *)
(* leave out of account is all that can keep a volume from being booted.   *)
ChainBoots == ImageRight /\ StagesWork

(* The chain of loaders comes to an end, if only in a spin.                *)
ChainEnds == <>ChainEnded
=============================================================================
