----------------------------- MODULE BootSector -----------------------------
(***************************************************************************)
(* The boot sectors of the four loaders.  From the parameter block they    *)
(* compute where the root directory and the data begin, look for the       *)
(* loader in the first sector of the directory, read READ_LENGTH sectors   *)
(* from its first cluster on, and jump to the first.  They compute in      *)
(* registers of 16 and 8 bits; a sector number is a pair of 16-bit         *)
(* registers.                                                              *)
(*                                                                         *)
(* NLoader and biosloader have the same boot sectors for FAT12, FAT16,     *)
(* FAT32 and exFAT, but for the name; CLoader and wecloader have others,   *)
(* for FAT12 with FAT16 and for FAT32, which compute the same places and   *)
(* read in another way.                                                    *)
(*                                                                         *)
(* The volume is what a formatter makes: the true places of directory and  *)
(* data follow from the parameter block by the rules of the file system.   *)
(***************************************************************************)
EXTENDS Integers, Sequences

CONSTANTS
  Media,             \* volumes: [loader, type, hidden, reserved, fats, perFat,
                     \*   entries, perCluster, rootCluster, small, total, label,
                     \*   overwritten, backup, fatOffset, second, drive, files]
  ByteSize,              \* 2^8
  EntriesPerRootSector,
  Cylinders,         \* 1024
  READ_LENGTH,       \* sectors of the loader that are read
  MaxChainFaults     \* bound: sector reads that fail

ASSUME SectorAssumption ==
  /\ ByteSize \in Nat \ {0} /\ Cylinders \in 1 .. ByteSize * ByteSize
  /\ EntriesPerRootSector \in Nat \ {0}
  /\ READ_LENGTH \in Nat \ {0} /\ MaxChainFaults \in Nat

VARIABLES
  link,        \* place in the chain: "root", "load", "xldr", ...
  medium,      \* the volume
  lba,         \* DX:AX, the next sector to be read
  toLoad,       \* CX, sectors still to be loaded
  atLoad,      \* what was loaded at LOAD_ADDRESS, a sequence of sectors
  chainFaults  \* sector reads that failed

sectorVars == <<link, medium, lba, toLoad, atLoad, chainFaults>>

Word == ByteSize * ByteSize
Low(n) == n % Word
High(n) == (n \div Word) % Word
DoubleWord(n) == n % (Word * Word)
CeilDiv(n, d) == (n + d - 1) \div d

-----------------------------------------------------------------------------
(* The volume as it is.  An exFAT volume has the offset of its cluster     *)
(* heap in reserved.  A file is [cluster, sectors, split, gap, image]: its *)
(* sectors lie one after another, but for gap sectors of another file      *)
(* before sector number split.                                             *)
HasRootArea(m) == m.type \in {"FAT12", "FAT16"}
FatEnd(m) ==
  m.hidden + m.reserved + IF m.type = "exFAT" THEN 0 ELSE m.fats * m.perFat
DataStart(m) ==
  FatEnd(m) + IF HasRootArea(m) THEN CeilDiv(m.entries, EntriesPerRootSector) ELSE 0
ClusterStart(m, cluster) == DataStart(m) + (cluster - 2) * m.perCluster
RootStart(m) == IF HasRootArea(m) THEN FatEnd(m) ELSE ClusterStart(m, m.rootCluster)

FileSector(m, f, i) ==
  ClusterStart(m, f.cluster) + i - 1 + (IF i >= f.split THEN f.gap ELSE 0)

Directory(m) == [names |-> DOMAIN m.files]
Blank == [blank |-> TRUE]

(* The sector at a place; what is in no file is zero.                      *)
Content(m, place) ==
  LET sectors == UNION {{n} \X DOMAIN m.files[n].sectors : n \in DOMAIN m.files}
      here == {x \in sectors : FileSector(m, m.files[x[1]], x[2]) = place}
  IN  IF place = RootStart(m) THEN Directory(m)
      ELSE IF here = {} THEN Blank
           ELSE LET x == CHOOSE x \in here : TRUE IN m.files[x[1]].sectors[x[2]]

-----------------------------------------------------------------------------
(* Reading through INT 13h.                                                *)

OnDrive(d, c, h, s) == c < d.cylinders /\ h < d.heads /\ s < d.track
ByChs(d, c, h, s) == (c * d.heads + h) * d.track + s

(* CHSConvert and ReadSector: the quotient by the sectors of a track must  *)
(* fit a word, and ten bits of the cylinder are handed over.  -1: refused. *)
ChsPlace(m, n) ==
  LET q == n \div m.drive.track
      c == (q \div m.drive.heads) % Cylinders
      h == q % m.drive.heads
      s == n % m.drive.track
  IN  IF High(n) >= m.drive.track \/ ~OnDrive(m.drive, c, h, s) THEN -1
      ELSE ByChs(m.drive, c, h, s)

(* ReadSectorEx                                                            *)
ExtendedPlace(m, n) ==
  IF m.drive.edd /\ n < m.drive.cylinders * m.drive.heads * m.drive.track THEN n ELSE -1

(* The bits of two numbers, the second of six bits, put together.          *)
Bit(n, weight) == (n \div weight) % 2
Or(a, b) ==
  LET Added(weight) == IF Bit(a, weight) = 0 /\ Bit(b, weight) = 1 THEN weight ELSE 0
  IN  a + Added(1) + Added(2) + Added(4) + Added(8) + Added(16) + Added(32)

(* ReadSectors of CLoader and wecloader.  High bits of the cylinder, which *)
(* "has to be zero", go into the number of the sector.  The quotient must  *)
(* fit a word, or the division traps.                                      *)
WecChsPlace(m, n) ==
  LET q == n \div m.drive.track
      c == q \div m.drive.heads
      h == q % m.drive.heads
      s == Or((n % m.drive.track) + 1, c \div Cylinders)
  IN  IF c >= Word \/ s > m.drive.track \/ ~OnDrive(m.drive, c % Cylinders, h, 0) THEN -1
      ELSE ByChs(m.drive, c % Cylinders, h, s - 1)

(* Int13Ext: the answer's lowest bit says that packets may be used, and    *)
(* the flag is set when it is clear.  FAT32 keeps the flag at 101 and      *)
(* looks for it at 73, in the label of the volume.                         *)
Int13Ext(m) ==
  IF m.type = "FAT32" THEN m.label ELSE m.drive.others /\ ~m.drive.edd

TwoStage(m) == m.loader \in {"CLoader", "wecloader"}
UsesPackets(m) == IF TwoStage(m) THEN Int13Ext(m) ELSE m.type # "FAT12"
SectorPlace(m, n) ==
  IF UsesPackets(m) THEN ExtendedPlace(m, n)
  ELSE IF TwoStage(m) THEN WecChsPlace(m, n) ELSE ChsPlace(m, n)

ChainFault == chainFaults < MaxChainFaults /\ chainFaults' = chainFaults + 1
NoChainFault == chainFaults' = chainFaults

-----------------------------------------------------------------------------
(* Where the data area begins, as the code computes it: FAT12 and FAT16,   *)
(* whose directory lies before it, ...                                     *)
RootEnd(m) == DoubleWord(m.fats * Low(m.perFat) + m.hidden + m.reserved)
DataLba16(m) == DoubleWord(RootEnd(m) + CeilDiv(m.entries, EntriesPerRootSector))

(* The length of a FAT on FAT32: a BIOS that thinks of FAT16 may write the *)
(* drive's number over its low byte.  CLoader takes the byte from the end  *)
(* of the sector, where an installer may have saved it.                    *)
DriveNumber == ByteSize \div 2
FatLow(m) ==
  IF m.loader = "CLoader" /\ m.backup # 0 THEN m.backup
  ELSE IF m.overwritten THEN DriveNumber ELSE m.perFat % ByteSize
SectPerFAT(m) ==
  IF m.type = "FAT32" THEN (m.perFat \div ByteSize) * ByteSize + FatLow(m) ELSE m.perFat

(* ... FAT32, which multiplies the high word of the FAT's length by a      *)
(* register whose upper half is left from the product of the low word, ... *)
DataLba32(m) ==
  LET product == m.fats * Low(SectPerFAT(m))
      stale == (Low(product) \div ByteSize) * ByteSize + m.fats
  IN  DoubleWord(product + Low(stale * High(m.perFat)) * Word + m.hidden + m.reserved)

(* ... and exFAT.                                                          *)
DataLbaEx(m) == DoubleWord(m.hidden + m.reserved)

DataLba(m) ==
  CASE m.type = "FAT32" -> DataLba32(m)
    [] m.type = "exFAT" -> DataLbaEx(m)
    [] OTHER -> DataLba16(m)

(* The root directory: FAT32 takes the low byte of the cluster, and adds   *)
(* the high word of the data area to itself.  Only the low word of a       *)
(* cluster is looked at.                                                   *)
RootLba(m) ==
  CASE HasRootArea(m) -> RootEnd(m)
    [] m.type = "FAT32" ->
         DoubleWord(DataLba(m) + ((m.rootCluster - 2) % ByteSize) * m.perCluster
                + High(DataLba(m)) * Word)
    [] m.type = "exFAT" ->
         DoubleWord(DataLba(m) + Low(Low(m.rootCluster) - 2) * m.perCluster)

LoaderLba(m, cluster) == DoubleWord(DataLba(m) + Low(Low(cluster) - 2) * m.perCluster)

(* ImageName: exFAT compares four characters, of a name of four.           *)
ImageName(m) ==
  CASE m.loader = "biosloader" -> "BLDR"
    [] TwoStage(m) -> "WCELDR"
    [] OTHER -> IF m.type = "exFAT" THEN "NWEC" ELSE "NWECLDR"

-----------------------------------------------------------------------------
SectorInit ==
  /\ link = "root" /\ medium \in Media
  /\ lba = RootLba(medium) /\ toLoad = 0 /\ atLoad = <<>> /\ chainFaults = 0

Fetched == Content(medium, SectorPlace(medium, lba))
CanFetch == SectorPlace(medium, lba) # -1 /\ NoChainFault
CannotFetch == ChainFault \/ (SectorPlace(medium, lba) = -1 /\ NoChainFault)

(* Not read, or not there: the message, a key, and INT 19h.                *)
DiskError == link' = "restart" /\ UNCHANGED <<medium, lba, toLoad, atLoad>>

ReadRoot == link = "root" /\ CanFetch
Lists(name) == "names" \in DOMAIN Fetched /\ name \in Fetched.names

FindEntry ==
  /\ ReadRoot /\ Lists(ImageName(medium))
  /\ lba' = LoaderLba(medium, medium.files[ImageName(medium)].cluster)
  /\ toLoad' = READ_LENGTH /\ link' = "load"
  /\ UNCHANGED <<medium, atLoad>>

NotListed == ReadRoot /\ ~Lists(ImageName(medium)) /\ DiskError
RootUnread == link = "root" /\ CannotFetch /\ DiskError

(* Loop1 *)
LoadSector ==
  /\ link = "load" /\ toLoad > 0 /\ CanFetch
  /\ atLoad' = Append(atLoad, Fetched)
  /\ lba' = DoubleWord(lba + 1) /\ toLoad' = toLoad - 1
  /\ UNCHANGED <<link, medium>>

LoaderUnread == link = "load" /\ toLoad > 0 /\ CannotFetch /\ DiskError

SectorStep == FindEntry \/ NotListed \/ RootUnread \/ LoadSector \/ LoaderUnread

(* The first sectors of a loader's file are the stage that is jumped to.   *)
IsStage(sectors, n) ==
  Len(sectors) >= n /\ \A i \in 1 .. n : sectors[i] = [stage |-> i]

-----------------------------------------------------------------------------
(* What a boot sector needs of a volume: the loader in the first sector of *)
(* the directory, in one piece as far as it is read; on FAT32 the length   *)
(* of the FAT, a data area below sector 2^16 and a root cluster that fits  *)
(* a byte, on exFAT one that fits a word; as many sectors on the drive as  *)
(* are read; packets where they are used, and where they are not directory *)
(* and loader in the reach of a cylinder number and of the division by the *)
(* sectors of a track.                                                     *)
FirstPiece(f) == f.gap = 0 \/ f.split > READ_LENGTH
OnMedium(m, n) ==
  n < m.drive.cylinders * m.drive.heads * m.drive.track /\ n < Word * Word
InReach(m, n) == n < Cylinders * m.drive.heads * m.drive.track
QuotientFits(m, n) == TwoStage(m) \/ n < Word * m.drive.track
SectorLoads(m, stage) ==
  /\ ImageName(m) \in DOMAIN m.files
  /\ LET f == m.files[ImageName(m)]
         last == FileSector(m, f, 1) + READ_LENGTH - 1
     IN  /\ FirstPiece(f) /\ IsStage(f.sectors, stage) /\ f.cluster < Word
         /\ OnMedium(m, last)
         /\ IF UsesPackets(m) THEN m.drive.edd
            ELSE \A n \in {RootStart(m), last} : InReach(m, n) /\ QuotientFits(m, n)
  /\ m.type = "FAT32" =>
       High(DataStart(m)) = 0 /\ m.rootCluster - 2 < ByteSize /\ SectPerFAT(m) = m.perFat
  /\ m.type = "exFAT" => m.rootCluster < Word

(* A volume as formatters and installers make it: all of it on the drive   *)
(* and in the reach of 32 bits, no sector of a file where another one or   *)
(* the directory is.                                                       *)
NumbersMade(m) ==
  /\ m.loader \in {"NLoader", "CLoader", "wecloader", "biosloader"}
  /\ m.type \in {"FAT12", "FAT16", "FAT32", "exFAT"}
  /\ m.hidden \in Nat /\ m.reserved \in Nat /\ m.fats \in 1 .. ByteSize - 1
  /\ m.perFat \in Nat /\ m.entries \in Nat /\ m.perCluster \in Nat /\ m.fatOffset \in Nat
  /\ m.backup \in 0 .. ByteSize - 1
  /\ HasRootArea(m) => m.perFat < Word
  /\ ~HasRootArea(m) => m.rootCluster \in Nat /\ m.rootCluster >= 2
  /\ m.second \in BOOLEAN /\ (m.second => m.fats = 2)
  /\ m.drive.cylinders \in Nat /\ m.drive.heads \in Nat /\ m.drive.track \in Nat
  /\ OnMedium(m, RootStart(m)) /\ OnMedium(m, DataStart(m))

FileMade(m, f) ==
  /\ f.cluster \in Nat /\ f.cluster >= 2 /\ f.split \in Nat /\ f.gap \in Nat
  /\ (f.gap = 0 \/ f.split > 1)
  /\ Len(f.sectors) \in Nat /\ DOMAIN f.sectors = 1 .. Len(f.sectors)
  /\ \A i \in DOMAIN f.sectors :
       OnMedium(m, FileSector(m, f, i)) /\ FileSector(m, f, i) # RootStart(m)

FilesMade(m) ==
  \A a, b \in DOMAIN m.files :
    LET f == m.files[a]
        g == m.files[b]
    IN  /\ FileMade(m, f)
        /\ \A i \in DOMAIN f.sectors, j \in DOMAIN g.sectors :
             FileSector(m, f, i) = FileSector(m, g, j) => a = b /\ i = j

(* Such a volume is booted: the boot sector comes to the loader, unless a  *)
(* read fails; what the loader makes of it is another matter.              *)
SectorRight(stage) ==
  link \in {"restart", "wild"} /\ SectorLoads(medium, stage) =>
    chainFaults > 0 \/ (link = "wild" /\ IsStage(atLoad, stage))
=============================================================================
