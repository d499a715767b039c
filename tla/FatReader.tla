----------------------------- MODULE FatReader -----------------------------
(***************************************************************************)
(* The read-only file reader of NLoader (core/filesys/bldr_fat16.c, and    *)
(* bldr_fat32.c with the same control): one open file at a time, read      *)
(* through one buffer that is refilled by runs of contiguous clusters, and *)
(* a one-sector cache of the FAT.  Any ReadSectors may fail.               *)
(*                                                                         *)
(* A byte of the disk is named by its offset from the start of the data    *)
(* area; Junk names every byte that is not file data on the disk.          *)
(***************************************************************************)
EXTENDS Integers, Sequences

CONSTANTS
  Volumes,          \* [chain, end]: the file's clusters, the mark after them
  SectsPerClust, BytesPerSect,
  EntriesPerSector, \* FAT entries in one sector
  BufferSectors,    \* read buffer sizes: one sector on a floppy, or the maximum
  LastData,         \* 0xffef; the marks lie above it
  RsvdMark, BadMark, EofMark,
  Lengths,          \* lengths passed to FSReadFile
  Rewinds,          \* offsets passed to FSRewind
  MaxRead,          \* bound: bytes read from one opening of the file
  MaxFaults,        \* bound: ReadSectors calls that fail
  Junk

IsDataCluster(c) == c \in 2 .. LastData
IsEOFCluster(c) == c = EofMark
IsBadCluster(c) == c = BadMark
IsRsvdCluster(c) == c = RsvdMark
Marks == {EofMark, BadMark, RsvdMark}

ASSUME FatAssumption ==
  /\ {SectsPerClust, BytesPerSect, EntriesPerSector} \subseteq Nat \ {0}
  /\ BufferSectors \subseteq Nat \ {0}
  /\ Lengths \subseteq Nat /\ Rewinds \subseteq Nat
  /\ {MaxRead, MaxFaults, LastData} \subseteq Nat
  /\ Marks \subseteq Nat /\ \A m \in Marks : m > LastData
  /\ EofMark \notin {BadMark, RsvdMark}
  /\ Junk \notin Int
  /\ \A v \in Volumes :
       /\ v.chain # <<>> /\ v.chain \in Seq(2 .. LastData)
       /\ \A i, j \in 1 .. Len(v.chain) : v.chain[i] = v.chain[j] => i = j
       /\ v.end \in Marks \cup {0}

VARIABLES
  step,          \* "off", "idle", or a place in FSReadFile
  disk,        \* the volume: [chain, end]
  bufLen,      \* g_ReadBuffLenInSectors
  file,        \* g_FileInfo: [first, cur, contig, addr, bytes]
  left,        \* g_SectorsInCurrentClusterLeftToRead
  bufAt,       \* LBA of the sector at the start of the read buffer, or Junk
  cacheSector, \* CurrentSector: the FAT sector the cache is taken to hold
  cacheData,   \* the FAT sector it holds
  need,        \* Length in FSReadFile
  walk,        \* NextCluster in GetNextClusterGroup
  result,      \* what the last call returned
  faults,      \* how many ReadSectors have failed
  isOpen,      \* the client holds an open file
  got,         \* history: how many bytes FSReadFile delivered since FSOpenFile,
               \*   less what was rewound
  right,       \* history: those within the file were the file's bytes
  trust        \* history: no call since FSOpenFile gave the client a reason
               \*   to doubt the bytes, and every FAT sector used was read

fatVars == <<step, disk, bufLen, file, left, bufAt, cacheSector, cacheData, need,
          walk, result, faults, isOpen, got, right, trust>>
client == <<isOpen, got, right>>
cache == <<cacheSector, cacheData>>
setup == <<disk, bufLen>>

NoSector == -1
Closed == [first |-> 0, cur |-> 0, contig |-> 0, addr |-> 0, bytes |-> 0]

First == disk.chain[1]
ClusterBytes == SectsPerClust * BytesPerSect
Capacity == Len(disk.chain) * ClusterBytes

(* The FAT: what follows cluster c on the disk.                            *)
FatEntry(c) ==
  LET here == {i \in 1 .. Len(disk.chain) : disk.chain[i] = c}
  IN  IF here = {} THEN 0
      ELSE LET i == CHOOSE i \in here : TRUE
           IN  IF i = Len(disk.chain) THEN disk.end ELSE disk.chain[i + 1]

Cluster2LBA(c) == (c - 2) * SectsPerClust

(* The k-th byte of the file (from 0), by its place on the disk.           *)
FileByte(k) ==
  Cluster2LBA(disk.chain[(k \div ClusterBytes) + 1]) * BytesPerSect
    + (k % ClusterBytes)

ReadBySector == bufLen < SectsPerClust
ReadBuffLenInClusters == bufLen \div SectsPerClust
Least(a, b) == IF a <= b THEN a ELSE b

-----------------------------------------------------------------------------
FatInit ==
  /\ step = "off"
  /\ disk \in Volumes
  /\ bufLen = 0 /\ file = Closed /\ left = 0 /\ bufAt = Junk
  /\ cacheSector = NoSector /\ cacheData = NoSector
  /\ need = 0 /\ walk = 0 /\ result = TRUE /\ faults = 0
  /\ isOpen = FALSE /\ got = 0 /\ right = TRUE /\ trust = FALSE

FSInit ==
  /\ step = "off"
  /\ step' = "idle"
  /\ bufLen' \in BufferSectors
  /\ UNCHANGED <<disk, file, left, bufAt, cache, need, walk, result, faults,
                 client, trust>>

-----------------------------------------------------------------------------
(* FSOpenFile searches the root directory through the read buffer.         *)

(* Bug: the run and the buffered bytes of the last file are kept.          *)
OpenedKeeping(c) == [file EXCEPT !.first = c, !.cur = c]
OpenedAt(c) == [Closed EXCEPT !.first = c, !.cur = c]

FSOpenFile ==
  /\ step = "idle"
  /\ file' = OpenedAt(First)
  /\ bufAt' = Junk
  /\ result' = TRUE /\ isOpen' = TRUE /\ got' = 0 /\ right' = TRUE
  /\ trust' = (cacheData = cacheSector)
  /\ UNCHANGED <<step, setup, left, cache, need, walk, faults>>

(* Not there, or a directory sector cannot be read: g_FileInfo keeps the   *)
(* file that was open, over a buffer that now holds directory entries.     *)
FSOpenFileFails ==
  /\ step = "idle"
  /\ \/ bufAt' = Junk /\ faults' = faults
     \/ /\ faults < MaxFaults /\ faults' = faults + 1
        /\ bufAt' \in {bufAt, Junk}
  /\ result' = FALSE /\ isOpen' = FALSE /\ got' = 0 /\ right' = TRUE /\ trust' = FALSE
  /\ UNCHANGED <<step, setup, file, left, cache, need, walk>>

FSCloseFile ==
  /\ step = "idle" /\ isOpen
  /\ file' = Closed
  /\ isOpen' = FALSE /\ got' = 0 /\ right' = TRUE /\ trust' = FALSE
  /\ UNCHANGED <<step, setup, left, bufAt, cache, need, walk, result, faults>>

(* The loader gives a file up once a call on it has failed.                *)
Goes == step = "idle" /\ isOpen /\ result

(* The caller may rewind by what it has read so far.                       *)
FSRewind(offset) ==
  /\ Goes /\ offset <= got
  /\ file' = [file EXCEPT !.addr = @ - offset, !.bytes = @ + offset]
  /\ got' = got - offset
  /\ trust' = (trust /\ offset <= file.addr)
  /\ result' = TRUE
  /\ UNCHANGED <<step, setup, left, bufAt, cache, need, walk, faults, isOpen,
                 right>>

-----------------------------------------------------------------------------
(* FSReadFile                                                              *)

FSReadFile(n) ==
  /\ Goes /\ n > 0 /\ got + n <= MaxRead
  /\ step' = "serve" /\ need' = n
  /\ UNCHANGED <<setup, file, left, bufAt, cache, walk, result, faults,
                 client, trust>>

Refused ==
  /\ step' = "idle" /\ need' = 0 /\ walk' = 0
  /\ result' = FALSE /\ trust' = FALSE

(* A read of no bytes fails.                                               *)
FSReadFileNothing ==
  /\ Goes /\ 0 \in Lengths
  /\ Refused
  /\ UNCHANGED <<setup, file, left, bufAt, cache, faults, client>>

BufferByte(i) ==
  IF bufAt = Junk \/ i < 0 THEN Junk ELSE bufAt * BytesPerSect + i

(* memcpy of n bytes from the buffer to the client.                        *)
Deliver(n) ==
  /\ got' = got + n
  /\ right' = /\ right
              /\ \A i \in 0 .. (n - 1) :
                   got + i < Capacity =>
                     BufferByte(file.addr + i) = FileByte(got + i)

ServeFromBuffer ==
  /\ step = "serve" /\ need <= file.bytes
  /\ Deliver(need)
  /\ file' = [file EXCEPT !.bytes = @ - need, !.addr = @ + need]
  /\ step' = "idle" /\ need' = 0 /\ result' = TRUE
  /\ UNCHANGED <<setup, left, bufAt, cache, walk, faults, isOpen, trust>>

(* The buffer is copied out; it is marked empty only by the next refill.   *)
DrainBuffer ==
  /\ step = "serve" /\ need > file.bytes
  /\ Deliver(file.bytes)
  /\ need' = need - file.bytes
  /\ step' = "refill"
  /\ UNCHANGED <<setup, file, left, bufAt, cache, walk, result, faults,
                 isOpen, trust>>

(* FAT16_GetNextCluster(c): what it may return, with the FAT cache and the *)
(* number of failed reads after it.  A FAT sector that cannot be read      *)
(* leaves the sector before it in the cache, under the new one's name.     *)
FatSector(c) == c \div EntriesPerSector
AnyEntry == {0} \cup Marks \cup {disk.chain[i] : i \in 1 .. Len(disk.chain)}
EntriesIn(s, c) ==
  IF s = NoSector THEN AnyEntry
  ELSE {FatEntry(s * EntriesPerSector + (c % EntriesPerSector))}

Looked(values, sector, data, failed) ==
  [value : values, sector : {sector}, data : {data}, faults : {failed}]

GetNextCluster(c) ==
  IF ~IsDataCluster(c)
  THEN Looked({IF IsEOFCluster(c) THEN c ELSE 0}, cacheSector, cacheData, faults)
  ELSE IF cacheSector = FatSector(c)
  THEN Looked(EntriesIn(cacheData, c), cacheSector, cacheData, faults)
  ELSE Looked({FatEntry(c)}, FatSector(c), FatSector(c), faults)
       \cup IF faults < MaxFaults
            THEN Looked(EntriesIn(cacheData, c), FatSector(c), cacheData, faults + 1)
            ELSE {}

Took(r) ==
  /\ cacheSector' = r.sector /\ cacheData' = r.data /\ faults' = r.faults

(* The cluster whose link is followed when a run has been read.            *)
LastOfRun(c) == c - 1

MoreOfRun ==
  /\ step = "refill" /\ file.contig > 0
  /\ step' = "load"
  /\ UNCHANGED <<setup, file, left, bufAt, cache, need, walk, result, faults,
                 client, trust>>

FirstRun ==
  /\ step = "refill" /\ file.contig = 0 /\ file.cur = file.first
  /\ step' = "group" /\ walk' = file.cur
  /\ UNCHANGED <<setup, file, left, bufAt, cache, need, result, faults,
                 client, trust>>

FollowLink ==
  /\ step = "refill" /\ file.contig = 0 /\ file.cur # file.first
  /\ ~IsEOFCluster(LastOfRun(file.cur))
  /\ \E r \in GetNextCluster(LastOfRun(file.cur)) :
       /\ Took(r)
       /\ file' = [file EXCEPT !.cur = r.value]
       /\ walk' = r.value
       /\ trust' = (trust /\ r.faults = faults)
  /\ step' = "group"
  /\ UNCHANGED <<setup, left, bufAt, need, result, client>>

ReachedEOF ==
  /\ step = "refill" /\ file.contig = 0 /\ file.cur # file.first
  /\ IsEOFCluster(LastOfRun(file.cur))
  /\ file' = [file EXCEPT !.cur = LastOfRun(@)]
  /\ Refused
  /\ UNCHANGED <<setup, left, bufAt, cache, faults, client>>

(* One turn of the loop of FAT16_GetNextClusterGroup: the run goes on, or  *)
(* it ends, at a mark that stops FSReadFile or at anything else.           *)
GoesOn(v) == v = walk + 1 /\ IsDataCluster(v)
StopsAtEnd(v) == v \in Marks       \* bug: the end mark is taken for an error
Stops(v) == IsBadCluster(v) \/ IsRsvdCluster(v)

RunGoesOn ==
  /\ step = "group"
  /\ \E r \in GetNextCluster(walk) :
       /\ GoesOn(r.value)
       /\ Took(r)
       /\ walk' = r.value
       /\ trust' = (trust /\ r.faults = faults)
  /\ file' = [file EXCEPT !.contig = @ + 1]
  /\ UNCHANGED <<step, setup, left, bufAt, need, result, client>>

RunEnds ==
  /\ step = "group"
  /\ \E r \in GetNextCluster(walk) :
       /\ ~GoesOn(r.value) /\ ~Stops(r.value)
       /\ Took(r)
       /\ trust' = (trust /\ r.faults = faults)
  /\ file' = [file EXCEPT !.contig = @ + 1]
  /\ left' = SectsPerClust
  /\ step' = "load" /\ walk' = 0
  /\ UNCHANGED <<setup, bufAt, need, result, client>>

(* The count of the run stays: a second FSReadFile would read its clusters.*)
RunIsMarked ==
  /\ step = "group"
  /\ \E r \in GetNextCluster(walk) : Stops(r.value) /\ Took(r)
  /\ file' = [file EXCEPT !.contig = @ + 1]
  /\ Refused
  /\ UNCHANGED <<setup, left, bufAt, client>>

(* What one refill reads: as much of the run, or of the cluster, as fits.  *)
ClustersToRead == Least(ReadBuffLenInClusters, file.contig)
ByCluster == ClustersToRead * SectsPerClust    \* bug: no reading by sectors
SectorsToRead ==
  IF ReadBySector THEN Least(bufLen, left) ELSE ClustersToRead * SectsPerClust
CurrentLBA ==
  Cluster2LBA(file.cur) + (IF ReadBySector THEN SectsPerClust - left ELSE 0)

ClustersDone ==
  IF ~ReadBySector THEN ClustersToRead
  ELSE IF left = SectorsToRead THEN 1 ELSE 0

LeftAfter ==
  IF ~ReadBySector THEN left
  ELSE IF left = SectorsToRead THEN SectsPerClust ELSE left - SectorsToRead

LoadBuffer ==
  /\ step = "load"
  /\ bufAt' = CurrentLBA
  /\ left' = LeftAfter
  /\ file' = [file EXCEPT !.contig = @ - ClustersDone,
                          !.cur = @ + ClustersDone,
                          !.addr = 0,
                          !.bytes = SectorsToRead * BytesPerSect]
  /\ step' = "serve"
  /\ UNCHANGED <<setup, cache, need, walk, result, faults, client, trust>>

(* A failed read may have overwritten part of the buffer.                  *)
LoadFails ==
  /\ step = "load"
  /\ faults < MaxFaults /\ faults' = faults + 1
  /\ bufAt' \in {bufAt, Junk}
  /\ Refused
  /\ UNCHANGED <<setup, file, left, cache, client>>

-----------------------------------------------------------------------------
ReadStep ==
  \/ ServeFromBuffer \/ DrainBuffer
  \/ MoreOfRun \/ FirstRun \/ FollowLink \/ ReachedEOF
  \/ RunGoesOn \/ RunEnds \/ RunIsMarked
  \/ LoadBuffer \/ LoadFails

FatNext ==
  \/ FSInit
  \/ FSOpenFile
  \/ FSOpenFileFails
  \/ FSCloseFile
  \/ \E offset \in Rewinds : FSRewind(offset)
  \/ \E n \in Lengths : FSReadFile(n)
  \/ FSReadFileNothing
  \/ ReadStep

(* The processor keeps running: a call under way takes its next step.      *)
FatFairness == WF_fatVars(ReadStep)
FatSpec == FatInit /\ [][FatNext]_fatVars /\ FatFairness

-----------------------------------------------------------------------------
(* Properties                                                              *)

(* The variables have their types.                                         *)
FatTypeOK ==
  /\ step \in {"off", "idle", "serve", "refill", "group", "load"}
  /\ disk \in Volumes /\ bufLen \in BufferSectors \cup {0}
  /\ file \in [first : Nat, cur : Nat, contig : Nat, addr : Int, bytes : Nat]
  /\ left \in 0 .. SectsPerClust
  /\ bufAt \in Int \cup {Junk}
  /\ cacheSector \in Nat \cup {NoSector} /\ cacheData \in Nat \cup {NoSector}
  /\ need \in Nat /\ walk \in Nat
  /\ result \in BOOLEAN /\ isOpen \in BOOLEAN /\ trust \in BOOLEAN
  /\ faults \in 0 .. MaxFaults
  /\ got \in Nat /\ right \in BOOLEAN

(* The reader takes file.cur = file.first to mean that nothing was read    *)
(* yet.  It is also so after a run that ends just below the first cluster; *)
(* in these volumes at most the last cluster of the file is there.         *)
NoRunEndsBelowFirst ==
  \A i \in 1 .. (Len(disk.chain) - 1) : disk.chain[i] # First - 1

(* "If the current cluster isn't the first cluster in the file, then the   *)
(* value is +1 from the last cluster in the contiguous grouping.  Subtract *)
(* one, follow the link and seek a new grouping" (bldr_fat16.c:425-426):   *)
(* the run a refill seeks starts where the last one's link leads.          *)
SeeksNextGrouping ==
  trust /\ step = "group" /\ file.contig = 0 /\ got < Capacity =>
    walk = disk.chain[(got \div ClusterBytes) + 1]

(* The reader does not know the file's size; its clusters' end mark stops  *)
(* a caller who reads on, after at most one cluster that is not the file's.*)
OverreadBounded ==
  /\ trust /\ disk.end = EofMark
  /\ \A i \in 1 .. Len(disk.chain) : disk.chain[i] # First - 1
  => got <= Capacity + ClusterBytes

(* A refill never writes past the read buffer: the memory above it belongs *)
(* to the BIOS parameter block.  And every variable has its type, and who  *)
(* reads past the end of the file is stopped.                              *)
StaysInBuffer ==
  /\ FatTypeOK
  /\ step = "load" => SectorsToRead <= bufLen
  /\ OverreadBounded

(* However the calls divide the file, whatever runs its clusters form and  *)
(* whichever reads fail: the bytes delivered by successful calls are the   *)
(* file's bytes, in order, each once, and none comes to lie elsewhere.     *)
(* And a read inside the file, on a disk that did not fail since the file  *)
(* was opened, succeeds.                                                   *)
DeliversFile ==
  /\ [](/\ trust /\ NoRunEndsBelowFirst => right
        /\ StaysInBuffer)
  /\ [][/\ step # "idle" /\ step' = "idle" /\ trust /\ faults' = faults
        /\ NoRunEndsBelowFirst /\ disk.end = EofMark
        /\ got + need <= Capacity
        => step = "off" \/ result']_fatVars

(* Every call returns.                                                     *)
InCall == step \in {"serve", "refill", "group", "load"}
CallReturns == InCall ~> step = "idle"
=============================================================================
