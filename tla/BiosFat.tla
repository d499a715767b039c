------------------------------ MODULE BiosFat ------------------------------
(***************************************************************************)
(* The file readers of biosloader: FAT12 (Floppy/bldr_floppy.c), FAT16,    *)
(* FAT32 and exFAT (Fixed/...).  FSInit computes where FAT and root        *)
(* directory lie, FSOpenFile searches the directory sector by sector, and  *)
(* FSReadFile reads runs of clusters through a buffer; all of them ask     *)
(* GetNextCluster, which keeps one sector of the FAT.                      *)
(*                                                                         *)
(* An entry of the FAT is one to four bytes' worth of half bytes, so that  *)
(* an entry of FAT12 may lie across two sectors.  Sectors of FAT and       *)
(* directory, and the bytes of a file, are named by their place; 0xffff... *)
(* is -1.  The name search compares letters; case is left out.             *)
(***************************************************************************)
EXTENDS BiosParms, Sequences

CONSTANTS
  FatVolumes,    \* [type, data, sectsPerClust, fats, perFat, entries,
                 \*   rootCluster, second, fatAt, fat, dir, files, buffer, last]
  Asked,         \* names that are asked for
  ReadLengths,   \* lengths that are read
  HeadBytes,     \* what the decoder reads first, and gives back
  BytesPerSect,
  BaseLength, ExtLength,   \* 8 and 3, of a name on FAT
  RecordLength,  \* 15, letters in a name record of exFAT
  LastData, RsvdMark, BadMark, EofMarks,  \* cluster numbers, 0xff..ff last
  MaxFatRead,    \* bound: bytes read from one file
  MaxFatFaults   \* bound: reads of sectors that fail

ASSUME FatAssumption ==
  /\ {BytesPerSect, DirEntries, BaseLength, RecordLength} \subseteq Nat \ {0}
  /\ LastData < RsvdMark /\ RsvdMark < BadMark
  /\ \A m \in EofMarks : BadMark < m
  /\ \A v \in FatVolumes : v.sectsPerClust \in Nat \ {0}

VARIABLES
  fatPc,     \* "off", "idle", "scan" in FSOpenFile; in FSReadFile "serve",
             \*   "seek", "count" or "load"
  fatVol,    \* the volume
  parms,     \* g_FATParms: [fat, root]
  asked,     \* pFileName, then the file's name
  dirLba,    \* the directory sector to be read
  dirSeen,   \* entries of the directory passed (FAT12 and FAT16)
  info,      \* g_FileInfo: [size, first, cur, contig, pos, left, contiguous]
  readBuffer,\* the sectors in the read buffer: [lba, n]
  sectsLeft, \* g_SectorsInCurrentClusterLeftToRead
  fatCache,  \* CurrentSector, and the sector the cache really holds
  length,    \* Length: bytes still to be read
  got, right,\* history: bytes read since the open; they were the file's
  unread,    \* history: bytes were handed out that no read had brought there
  ended,     \* the last call and what it returned
  hurt,      \* history: since the open a read failed or an old FAT sector
             \*   was taken for another
  fatFaults  \* reads of sectors that failed

fileVars == <<asked, info, readBuffer, sectsLeft, got, right, unread>>
searchVars == <<dirLba, dirSeen>>
biosFatVars == <<fatPc, fatVol, parms, fileVars, searchVars, fatCache, length,
                 ended, hurt, fatFaults>>

Type == fatVol.type
SectsPerClust == fatVol.sectsPerClust
ClusterBytes == SectsPerClust * BytesPerSect
Ones == -1      \* 0xffffffff

CeilOf(a, b) == (a + b - 1) \div b
Smaller(a, b) == IF a <= b THEN a ELSE b

-----------------------------------------------------------------------------
(* Cluster numbers.  FAT32 looks at the lower 28 bits, exFAT knows one end *)
(* mark, and no bad cluster.                                               *)
IsDataCluster(c) == c \in 2 .. LastData
IsEOF16(c) == c \in EofMarks
IsEOF32(c) == c \in EofMarks \cup {Ones}
IsEOFEx(c) == c \in EofMarks /\ \A m \in EofMarks : m <= c
IsEOFCluster(c) ==
  CASE Type = "FAT32" -> IsEOF32(c)
    [] Type = "exFAT" -> IsEOFEx(c)
    [] OTHER -> IsEOF16(c)
IsRsvdCluster(c) == c \in RsvdMark .. BadMark - 1
IsBadCluster(c) == Type # "exFAT" /\ c = BadMark

Cluster2LBA(c) == ClusterLba(fatVol, c)
LBA2Cluster(s) == (s - fatVol.data) \div SectsPerClust + 2

(* FSInit.  The boot sector has left the first sector of the data area.    *)
FSInit ==
  /\ fatPc = "off" /\ fatPc' = "idle"
  /\ parms' = Parms(fatVol)
  /\ UNCHANGED <<fatVol, fileVars, searchVars, fatCache, length, ended, hurt,
                 fatFaults>>

-----------------------------------------------------------------------------
(* GetNextCluster.  An outcome is the number it returns, the cache after   *)
(* it, the failed reads, and whether an old sector was used.  A read that  *)
(* fails is not noticed: the old sector stays, under the new number.       *)
HalfBytes == IF Type = "FAT12" THEN 3 ELSE IF Type = "FAT16" THEN 4 ELSE 8
FirstHalf(c) == c * HalfBytes
SectorOf(c) == (FirstHalf(c) \div 2) \div BytesPerSect
OffsetOf(c) == (FirstHalf(c) \div 2) % BytesPerSect

(* The half byte at a place of the sector that is in the cache, by its     *)
(* place in the whole FAT; before the first read the cache holds anything. *)
Half(s, byte, k) ==
  [known |-> s \in 0 .. fatVol.perFat - 1, at |-> (s * BytesPerSect + byte) * 2 + k]

(* The entry those half bytes make.                                        *)
FatEntry(halves) ==
  LET c == halves[1].at \div HalfBytes
  IN  IF /\ \A k \in DOMAIN halves :
              halves[k].known /\ halves[k].at = FirstHalf(c) + k - 1
         /\ c \in DOMAIN fatVol.fat
      THEN fatVol.fat[c] ELSE 0

Loads(s, k, f) ==
  {[named |-> s, holds |-> s - fatVol.fatAt, faults |-> f]}
  \cup (IF f < MaxFatFaults
        THEN {[named |-> s, holds |-> k.holds, faults |-> f + 1]} ELSE {})
Fetches(s, k, f) ==
  IF k.named = s THEN {[named |-> s, holds |-> k.holds, faults |-> f]}
  ELSE Loads(s, k, f)

Outcome(v, k, old) ==
  [value |-> v, cache |-> [named |-> k.named, holds |-> k.holds],
   faults |-> k.faults, old |-> old]
OldSector(k) == k.holds # k.named - fatVol.fatAt

Next16(c) ==
  {Outcome(FatEntry([n \in 1 .. HalfBytes |-> Half(k.holds, OffsetOf(c), n - 1)]), k, OldSector(k))
     : k \in Fetches(parms.fat + SectorOf(c), fatCache, fatFaults)}

(* An entry of FAT12 begins with a byte or in the middle of one, and may   *)
(* go on in the next sector, which is read in any case.                    *)
AcrossNever(c) == FALSE           \* bug: no entry lies across two sectors
Across(c) == OffsetOf(c) = BytesPerSect - 1
Middle(c) == FirstHalf(c) % 2
Halves12(first, second, c) ==
  [n \in 1 .. 3 |->
     LET k == Middle(c) + n - 1
     IN  IF k < 2 THEN Half(first, OffsetOf(c), k)
         ELSE Half(second, (OffsetOf(c) + 1) % BytesPerSect, k - 2)]
Next12(c) ==
  UNION {IF Across(c)
         THEN {Outcome(FatEntry(Halves12(k.holds, m.holds, c)), m, OldSector(k) \/ OldSector(m))
                 : m \in Loads(k.named + 1, k, k.faults)}
         ELSE {Outcome(FatEntry(Halves12(k.holds, k.holds, c)), k, OldSector(k))}
           : k \in Fetches(parms.fat + SectorOf(c), fatCache, fatFaults)}

GetNextCluster(c) ==
  IF IsEOFCluster(c) \/ ~IsDataCluster(c)
  THEN {[value |-> IF IsEOFCluster(c) THEN c ELSE 0, cache |-> fatCache,
         faults |-> fatFaults, old |-> FALSE]}
  ELSE IF Type = "FAT12" THEN Next12(c) ELSE Next16(c)

Took(o) ==
  /\ fatCache' = o.cache /\ fatFaults' = o.faults
  /\ hurt' = (hurt \/ o.old \/ o.faults # fatFaults)

-----------------------------------------------------------------------------
(* FSOpenFile: the name as the directory has it.                           *)
IsEnd(name, i) == i > Len(name)
BaseEnd(name) ==
  CHOOSE i \in 0 .. BaseLength :
    /\ i = BaseLength \/ IsEnd(name, i + 1) \/ name[i + 1] = "."
    /\ \A j \in 1 .. i : ~IsEnd(name, j) /\ name[j] # "."
Padded(s, n) == s \o [i \in 1 .. n - Len(s) |-> " "]
ExtOf(name) ==
  IF IsEnd(name, BaseEnd(name) + 1) \/ name[BaseEnd(name) + 1] # "." THEN <<>>
  ELSE SubSeq(name, BaseEnd(name) + 2, Smaller(Len(name), BaseLength + ExtLength + 1))
OnFatName(name) ==
  Padded(SubSeq(name, 1, BaseEnd(name)), BaseLength) \o Padded(ExtOf(name), ExtLength)
OnDiskEx(name) ==
  [i \in 1 .. RecordLength |-> IF IsEnd(name, i) THEN " " ELSE name[i]]

Closed == [size |-> 0, first |-> 0, cur |-> 0, contig |-> 0, pos |-> 0, left |-> 0,
           contiguous |-> FALSE]

AsksFor(name) ==
  /\ fatPc = "idle" /\ fatPc' = "scan"
  /\ asked' = name /\ dirLba' = parms.root /\ dirSeen' = 0
  /\ info' = IF Type = "exFAT" THEN Closed ELSE info
  /\ got' = 0 /\ right' = TRUE /\ unread' = FALSE /\ hurt' = FALSE /\ ended' = [call |-> "open", value |-> 0]
  /\ UNCHANGED <<fatVol, parms, readBuffer, sectsLeft, fatCache, length, fatFaults>>

Returns(call, value) == fatPc' = "idle" /\ ended' = [call |-> call, value |-> value]

(* The sector goes through the read buffer.                                *)
ReadsDir == readBuffer' = [lba |-> dirLba, n |-> 1]
DirSector == IF dirLba \in DOMAIN fatVol.dir THEN fatVol.dir[dirLba] ELSE <<>>
HasEntry(i) == i \in DOMAIN DirSector

SectorUnread ==
  /\ fatPc = "scan" /\ fatFaults < MaxFatFaults
  /\ fatFaults' = fatFaults + 1 /\ hurt' = TRUE /\ Returns("open", 0)
  /\ UNCHANGED <<fatVol, parms, fileVars, searchVars, fatCache, length>>

Entered(e) ==
  [size |-> e.size, first |-> e.first, cur |-> e.first, contig |-> 0, pos |-> 0,
   left |-> 0, contiguous |-> FALSE]

Hit(i) == HasEntry(i) /\ DirSector[i].kind = "file" /\ DirSector[i].name = OnFatName(asked)
FirstHit == CHOOSE i \in 1 .. DirEntries : Hit(i) /\ \A j \in 1 .. i - 1 : ~Hit(j)

Finds(i) ==
  /\ info' = Entered(DirSector[i]) /\ Returns("open", DirSector[i].size)
  /\ UNCHANGED <<searchVars, fatCache, hurt, fatFaults>>

(* FAT12 and FAT16: all entries of the root directory, in sectors one      *)
(* behind the other.                                                       *)
Scan16 ==
  LET n == Smaller(DirEntries, fatVol.entries - dirSeen)
  IN  /\ fatPc = "scan" /\ Type \in {"FAT12", "FAT16"} /\ ReadsDir
      /\ \/ (\E i \in 1 .. n : Hit(i)) /\ Finds(FirstHit)
         \/ /\ \A i \in 1 .. n : ~Hit(i)
            /\ dirSeen' = dirSeen + n /\ dirLba' = dirLba + 1
            /\ IF dirSeen' < fatVol.entries THEN fatPc' = "scan" /\ UNCHANGED ended
               ELSE Returns("open", 0)
            /\ UNCHANGED <<info, fatCache, hurt, fatFaults>>
      /\ UNCHANGED <<fatVol, parms, asked, sectsLeft, length, got, right, unread>>

(* NextSector of FAT32, and of exFAT, which takes the number of the sector *)
(* on the disk for its number in the cluster.                              *)
Crosses32(s) == LBA2Cluster(s) # LBA2Cluster(s + 1)
CrossesEx(s) == (s + 1) % SectsPerClust = 0
Leads(c, next) == IsDataCluster(next) /\ (Type = "exFAT" => c # next)

(* The next sector of the directory; 0 where its chain ends.               *)
NextSector(crosses) ==
  LET c == LBA2Cluster(dirLba)
  IN  \/ /\ ~crosses /\ dirLba' = dirLba + 1
         /\ UNCHANGED <<fatCache, hurt, fatFaults>>
      \/ /\ crosses
         /\ \E o \in GetNextCluster(c) :
              /\ Took(o)
              /\ dirLba' = IF Leads(c, o.value) THEN Cluster2LBA(o.value) ELSE 0

(* On to it, or back without a file.                                       *)
GoesOn(crosses) ==
  /\ NextSector(crosses) /\ UNCHANGED dirSeen
  /\ IF dirLba' = 0 THEN Returns("open", 0) ELSE fatPc' = "scan" /\ UNCHANGED ended

EndsDir(i) == HasEntry(i) /\ DirSector[i].kind = "end"
Stop == {i \in 1 .. DirEntries : Hit(i) \/ EndsDir(i)}
FirstStop == CHOOSE i \in Stop : \A j \in Stop : i <= j

Scan32 ==
  /\ fatPc = "scan" /\ Type = "FAT32" /\ ReadsDir
  /\ \/ Stop # {} /\ Hit(FirstStop) /\ Finds(FirstStop)
     \/ /\ Stop # {} /\ EndsDir(FirstStop) /\ Returns("open", 0)
        /\ UNCHANGED <<info, searchVars, fatCache, hurt, fatFaults>>
     \/ Stop = {} /\ GoesOn(Crosses32(dirLba)) /\ UNCHANGED info
  /\ UNCHANGED <<fatVol, parms, asked, sectsLeft, length, got, right, unread>>

(* exFAT: a file has a stream record with size and place, and behind it    *)
(* records with its name; those in use count.  The search keeps the last   *)
(* stream record it saw, and goes on to the next sector once more when it  *)
(* has found the name.                                                     *)
RecordInUse(i, kind) == HasEntry(i) /\ DirSector[i].kind = kind /\ DirSector[i].used
NameHits == {i \in 1 .. DirEntries : RecordInUse(i, "name") /\ DirSector[i].name = OnDiskEx(asked)}
RecordsBefore == IF NameHits = {} THEN DirEntries ELSE (CHOOSE i \in NameHits : \A j \in NameHits : i <= j)
StreamsBefore == {i \in 1 .. RecordsBefore : RecordInUse(i, "stream")}
LastStream == CHOOSE i \in StreamsBefore : \A j \in StreamsBefore : j <= i
StreamInfo ==
  IF StreamsBefore = {} THEN info
  ELSE [Entered(DirSector[LastStream]) EXCEPT
          !.contiguous = DirSector[LastStream].contiguous]

ScanEx ==
  /\ fatPc = "scan" /\ Type = "exFAT" /\ ReadsDir /\ info' = StreamInfo
  /\ \/ /\ NameHits # {} /\ Returns("open", StreamInfo.size)
        /\ NextSector(CrossesEx(dirLba)) /\ UNCHANGED dirSeen
     \/ NameHits = {} /\ GoesOn(CrossesEx(dirLba))
  /\ UNCHANGED <<fatVol, parms, asked, sectsLeft, length, got, right, unread>>

FSCloses ==
  /\ fatPc = "idle" /\ info # Closed /\ info' = Closed
  /\ ended' = [call |-> "close", value |-> 0] /\ asked' = <<>> /\ got' = 0 /\ right' = TRUE /\ unread' = FALSE
  /\ UNCHANGED <<fatPc, fatVol, parms, readBuffer, sectsLeft, searchVars, fatCache,
                 length, hurt, fatFaults>>

-----------------------------------------------------------------------------
(* FSReadFile, by the client of a file that was found.  The decoder reads  *)
(* the head and may give it back; nobody reads on after a failure.         *)
HasFile == info.size > 0 /\ asked # <<>>
MayRead == fatPc = "idle" /\ HasFile /\ ended.value > 0

Reads(n) ==
  /\ MayRead /\ got + n <= MaxFatRead
  /\ fatPc' = "serve" /\ length' = n
  /\ UNCHANGED <<fatVol, parms, fileVars, searchVars, fatCache, ended, hurt, fatFaults>>

FSRewind ==
  /\ MayRead /\ ended.call = "read" /\ got = HeadBytes
  /\ info' = [info EXCEPT !.pos = @ - HeadBytes, !.left = @ + HeadBytes]
  /\ got' = 0 /\ ended' = [call |-> "rewind", value |-> 1]
  /\ UNCHANGED <<fatPc, fatVol, parms, asked, readBuffer, sectsLeft, right, unread, searchVars,
                 fatCache, length, hurt, fatFaults>>

Files == {f \in fatVol.files : f.name = asked}
Theirs == CHOOSE f \in Files : TRUE
TruePlace(k) ==
  Cluster2LBA(Theirs.chain[k \div ClusterBytes + 1]) * BytesPerSect + (k % ClusterBytes)

(* The BIOS reads to a buffer of its own, and of what it read one sector   *)
(* is copied to the reader's; only FAT32's is the same buffer.  What was   *)
(* in the reader's buffer behind the first sector stays there.             *)
Bounced == Type # "FAT32"
Arrived(place) == ~Bounced \/ place < BytesPerSect

(* n bytes of the buffer are handed out.                                   *)
HandsOut(n) ==
  LET Wanted == {k \in 0 .. n - 1 : Files # {} /\ got + k < Theirs.size}
  IN  /\ got' = got + n
      /\ right' = (right /\ Files # {} /\ \A k \in Wanted :
                     Arrived(info.pos + k) =>
                       readBuffer.lba * BytesPerSect + info.pos + k = TruePlace(got + k))
      /\ unread' = (unread \/ \E k \in Wanted : ~Arrived(info.pos + k))

Serve ==
  /\ fatPc = "serve" /\ info.left > 0 /\ length <= info.left
  /\ HandsOut(length) /\ length' = 0 /\ Returns("read", 1)
  /\ info' = [info EXCEPT !.left = @ - length, !.pos = @ + length]
  /\ UNCHANGED <<fatVol, parms, asked, readBuffer, sectsLeft, searchVars, fatCache,
                 hurt, fatFaults>>

(* The buffer is handed out as far as it goes; its count stays until the   *)
(* next load.                                                              *)
Drain ==
  /\ fatPc = "serve" /\ length > info.left
  /\ HandsOut(info.left) /\ length' = length - info.left
  /\ fatPc' = IF info.contig = 0 THEN "seek" ELSE "load"
  /\ UNCHANGED <<fatVol, parms, asked, info, readBuffer, sectsLeft, searchVars, fatCache,
                 ended, hurt, fatFaults>>

(* The next run of clusters: behind the last one, the link is followed.    *)
AtStart == info.cur = info.first
SeekGroup ==
  /\ fatPc = "seek"
  /\ \/ /\ AtStart /\ fatPc' = "count" /\ UNCHANGED <<info, fatCache, hurt, fatFaults, ended>>
     \/ /\ ~AtStart /\ IsEOFCluster(info.cur - 1) /\ Returns("read", 0)
        /\ info' = [info EXCEPT !.cur = @ - 1] /\ UNCHANGED <<fatCache, hurt, fatFaults>>
     \/ /\ ~AtStart /\ ~IsEOFCluster(info.cur - 1)
        /\ \E o \in GetNextCluster(info.cur - 1) :
             Took(o) /\ info' = [info EXCEPT !.cur = o.value]
        /\ fatPc' = "count" /\ UNCHANGED ended
  /\ UNCHANGED <<fatVol, parms, asked, readBuffer, sectsLeft, searchVars, length, got, right, unread>>

(* GetNextClusterGroup counts in NumContigClusters itself.                 *)
Counted == info.cur + info.contig
GroupEnds(v) ==
  IF ~IsEOFCluster(v) /\ (IsBadCluster(v) \/ IsRsvdCluster(v))
  THEN Returns("read", 0) /\ UNCHANGED sectsLeft
  ELSE fatPc' = "load" /\ sectsLeft' = SectsPerClust /\ UNCHANGED ended

CountCluster ==
  /\ fatPc = "count" /\ ~info.contiguous
  /\ info' = [info EXCEPT !.contig = @ + 1]
  /\ \E o \in GetNextCluster(Counted) :
       /\ Took(o)
       /\ IF o.value = Counted + 1 /\ IsDataCluster(o.value)
          THEN UNCHANGED <<fatPc, sectsLeft, ended>> ELSE GroupEnds(o.value)
  /\ UNCHANGED <<fatVol, parms, asked, readBuffer, searchVars, length, got, right, unread>>

(* exFAT's files without a chain: as many clusters as the size tells.      *)
SizeInClusters == CeilOf(info.size, ClusterBytes)
CountBySize ==
  /\ fatPc = "count" /\ info.contiguous
  /\ info' = [info EXCEPT !.contig = SizeInClusters]
  /\ fatPc' = "load" /\ sectsLeft' = SectsPerClust
  /\ UNCHANGED <<fatVol, parms, asked, readBuffer, searchVars, length, got, right, unread, fatCache,
                 ended, hurt, fatFaults>>

(* The buffer is filled: with whole clusters, or, when it is smaller than  *)
(* a cluster, with sectors up to the cluster's end.                        *)
BySector == fatVol.buffer < SectsPerClust
ClustersToRead == Smaller(fatVol.buffer \div SectsPerClust, info.contig)
ClusterRead(n) == IF ~BySector THEN ClustersToRead ELSE IF n = sectsLeft THEN 1 ELSE 0
SectorsRead ==
  IF BySector THEN Smaller(sectsLeft, fatVol.buffer) ELSE ClustersToRead * SectsPerClust
CurrentLBA == Cluster2LBA(info.cur) + (IF BySector THEN SectsPerClust - sectsLeft ELSE 0)
OnVolume == CurrentLBA >= 0 /\ CurrentLBA + SectorsRead <= fatVol.last

LoadBuffer ==
  /\ fatPc = "load" /\ OnVolume /\ fatPc' = "serve"
  /\ readBuffer' = [lba |-> CurrentLBA, n |-> SectorsRead]
  /\ info' = [info EXCEPT !.contig = @ - ClusterRead(SectorsRead),
                          !.cur = @ + ClusterRead(SectorsRead),
                          !.pos = 0, !.left = SectorsRead * BytesPerSect]
  /\ sectsLeft' = IF ~BySector THEN sectsLeft
                  ELSE IF SectorsRead = sectsLeft THEN SectsPerClust
                  ELSE sectsLeft - SectorsRead
  /\ UNCHANGED <<fatVol, parms, asked, searchVars, fatCache, length, got, right, unread, ended,
                 hurt, fatFaults>>

LoadFails ==
  /\ fatPc = "load" /\ Returns("read", 0)
  /\ \/ ~OnVolume /\ UNCHANGED <<fatFaults, hurt>>
     \/ OnVolume /\ fatFaults < MaxFatFaults /\ fatFaults' = fatFaults + 1 /\ hurt' = TRUE
  /\ UNCHANGED <<fatVol, parms, fileVars, searchVars, fatCache, length>>

-----------------------------------------------------------------------------
BiosFatInit ==
  /\ fatPc = "off" /\ fatVol \in FatVolumes /\ parms = [root |-> 0, fat |-> 0]
  /\ asked = <<>> /\ dirLba = 0 /\ dirSeen = 0 /\ info = Closed
  /\ readBuffer = [lba |-> 0, n |-> 0] /\ sectsLeft = 0
  /\ fatCache = [named |-> 0, holds |-> Ones] /\ length = 0 /\ got = 0 /\ right = TRUE /\ unread = FALSE
  /\ ended = [call |-> "none", value |-> 0] /\ hurt = FALSE /\ fatFaults = 0

FatCallStep ==
  \/ FSInit \/ SectorUnread \/ Scan16 \/ Scan32 \/ ScanEx
  \/ Serve \/ Drain \/ SeekGroup \/ CountCluster \/ CountBySize
  \/ LoadBuffer \/ LoadFails
BiosFatNext ==
  \/ FatCallStep
  \/ \E name \in Asked : AsksFor(name)
  \/ FSCloses \/ FSRewind
  \/ \E n \in ReadLengths : Reads(n)

BiosFatFairness == WF_biosFatVars(FatCallStep)
BiosFatSpec == BiosFatInit /\ [][BiosFatNext]_biosFatVars /\ BiosFatFairness

-----------------------------------------------------------------------------
FatTypesOK ==
  /\ fatPc \in {"off", "idle", "scan", "serve", "seek", "count", "load"}
  /\ info.size \in Nat /\ info.contig \in Nat /\ info.pos \in Nat /\ info.left \in Nat
  /\ sectsLeft \in 0 .. SectsPerClust /\ length \in Nat /\ got \in 0 .. MaxFatRead
  /\ right \in BOOLEAN /\ unread \in BOOLEAN /\ hurt \in BOOLEAN /\ fatFaults \in 0 .. MaxFatFaults

(* While no read has failed and no old sector of the FAT was used: on      *)
(* every kind of volume a file in the root directory, wherever its entry   *)
(* lies, is found with its size and first cluster, and no other name is;   *)
(* what is read of it and has reached the reader's buffer are its bytes in *)
(* their order, across the runs of its clusters and the buffer's ends; all *)
(* of it has on FAT32 and where the buffer takes one sector; and a read    *)
(* inside the file whose chain is intact does not fail.                    *)
FilesRight ==
  /\ FatTypesOK
  /\ ~hurt =>
       /\ fatPc = "idle" /\ ended.call = "open" =>
            /\ ended.value = (IF Files = {} THEN 0 ELSE Theirs.size)
            /\ Files # {} => info.first = Theirs.chain[1]
       /\ right
       /\ unread => Type # "FAT32" /\ fatVol.buffer > 1
       /\ fatPc = "idle" /\ ended = [call |-> "read", value |-> 0] =>
            got + length > Theirs.size \/ ~Theirs.intact

(* ReadSectors is to read the number of sectors it is given (drive.c:140): *)
(* while no read fails, no byte is handed out that was not read into the   *)
(* buffer.                                                                 *)
SectorsArrive == hurt \/ ~unread

(* Every search and every read comes to its end.  A directory that is      *)
(* searched with an old sector of the FAT may lead back into itself.       *)
InFatCall == fatPc \notin {"idle", "off"}
FatCallOver == fatPc = "idle" \/ hurt
FatCallEnds == InFatCall ~> FatCallOver
=============================================================================
