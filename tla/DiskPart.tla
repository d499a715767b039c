------------------------------ MODULE DiskPart ------------------------------
(* diskpart.cpp: commands on the partition table of a disk and on the boot    *)
(* sectors of its partitions, one command after another.  The storage manager *)
(* and FatUtil.DLL are external: the store lists and mounts what the table    *)
(* says when it is refreshed, lists nothing while dismounted, and refuses a   *)
(* handle to a partition that it does not list.  Any device call may fail and *)
(* any allocation may fail.                                                   *)
EXTENDS PartTable, Sequences, FiniteSets

CONSTANTS
  SectorsPerMB,   \* (1024 * 1024) / dwBytesPerSector
  Sizes, Starts,  \* what the user gives as size= and offset=, 0 for nothing
  Types,          \* what it gives as the partition type
  RawSectors,     \* sectors that ZERO and BOOTSEC are used on
  Watched,        \* sectors whose boot sector is followed
  InitMBRs,       \* what sector 0 may hold before the first command
  InitBoots,      \* what the watched sectors may hold
  JunkTables      \* what a table reads as after boot code was written over it

VARIABLES
  running,        \* WinMain is in its loop
  hDisk, hPart,   \* g_hDisk is open; the first sector behind g_hPart, or 0
  gPart,          \* g_Partition, an index into the table
  mbr,            \* the table in sector 0
  boot,           \* the watched sectors
  listed,         \* the partitions the storage manager lists, by first sector
  mounted         \* those whose volumes are mounted

dpVars == <<running, hDisk, hPart, gPart, mbr, boot, listed, mounted>>
handles == <<running, hDisk, hPart, gPart>>

BootSector == {"none", "fat", "exfat"}

ASSUME DiskAssumption ==
  /\ SectorsPerMB \in Nat \ {0} /\ Sizes \subseteq Nat /\ Starts \subseteq Nat
  /\ Types \subseteq FileSystem /\ Watched \subseteq Nat /\ RawSectors \subseteq Nat
  /\ InitMBRs \subseteq Table /\ JunkTables \subseteq Table
  /\ InitBoots \subseteq [Watched -> BootSector]

PartitionsOf(t) ==
  LET StartAt(x) == IF InUse(t[x]) THEN <<t[x].start>> ELSE <<>>
  IN StartAt(0) \o StartAt(1) \o StartAt(2) \o StartAt(3)
Listed == {listed[i] : i \in 1 .. Len(listed)}

StartsOf(t) == {t[x].start : x \in {y \in Slot : InUse(t[y])}}

DpInit ==
  /\ running = TRUE /\ hDisk = FALSE /\ hPart = 0 /\ gPart = 0
  /\ mbr \in InitMBRs /\ boot \in InitBoots
  /\ listed = PartitionsOf(mbr) /\ mounted = Listed

\* The program is started (again), on the disk as it is.
WinMain ==
  /\ ~running /\ running' = TRUE
  /\ hDisk' = FALSE /\ hPart' = 0 /\ gPart' = 0
  /\ UNCHANGED <<mbr, boot, listed, mounted>>

\* EXIT, the end of the script, or an empty line.
Leave ==
  /\ running /\ running' = FALSE
  /\ hDisk' = FALSE /\ hPart' = 0 /\ gPart' = 0
  /\ UNCHANGED <<mbr, boot, listed, mounted>>

-----------------------------------------------------------------------------
(* The store. *)

DismountStore == listed' = <<>> /\ mounted' = {}

RefreshNothing(t) == UNCHANGED <<listed, mounted>>

\* MoveFile on the store makes the storage manager read the table again; the
\* name for it may not be had for want of memory.
Refresh(t) ==
  \/ listed' = PartitionsOf(t) /\ mounted' = StartsOf(t)
  \/ DismountStore

\* WriteMBR: the table goes out with the boot code that was read, which is not
\* followed.
WriteMBR(t) == mbr' = t

BootAt(s) == IF s \in Watched THEN boot[s] ELSE "none"

BootSectorPut(s, b) ==
  boot' = IF s \in Watched THEN [boot EXCEPT ![s] = b] ELSE boot

\* Boot code over the end of sector s, behind the parameters of its file system;
\* in sector 0 the table lies there.
WriteBootCode(s) ==
  IF s = 0
  THEN mbr' \in JunkTables /\ UNCHANGED boot
  ELSE UNCHANGED <<boot, mbr>>

-----------------------------------------------------------------------------
(* SELECT, LIST and the commands that only show. *)

\* A newly opened disk closes the partition and the disk in use.
SelectDisk ==
  /\ running /\ hDisk' = TRUE /\ hPart' = 0 /\ gPart' = 0
  /\ UNCHANGED <<running, mbr, boot, listed, mounted>>

\* GetPartition counts through what the storage manager lists.
SelectPartition(n) ==
  /\ running /\ hDisk /\ n + 1 \in 1 .. Len(listed)
  /\ hPart' = listed[n + 1] /\ gPart' = n
  /\ UNCHANGED <<running, hDisk, mbr, boot, listed, mounted>>

SelectObject == SelectDisk \/ \E n \in Slot : SelectPartition(n)

ListObjects == running /\ UNCHANGED dpVars
DumpMBR == running /\ hDisk /\ UNCHANGED dpVars
DumpPartInfo == running /\ hDisk /\ hPart # 0 /\ UNCHANGED dpVars

\* INACTIVE is announced and not done.
DeActivatePartition == running /\ UNCHANGED dpVars

-----------------------------------------------------------------------------
(* CREATE *)

Overflows(size) == size # 0 /\ (DWord - 1) \div size < SectorsPerMB

\* The checks before the store is touched, on the compacted table t.
Acceptable(t, start, total) ==
  /\ MBRIsValid(t) /\ EntriesInUse(t) # MAX_PARTTABLE_ENTRIES
  /\ start < Sectors /\ total < Sectors /\ total + start < Sectors
  /\ start # 0 => SectorIsFree(start, t)
  /\ total <= GetLargestPossiblePartition(t)

StaysMounted == UNCHANGED <<handles, mbr, boot, listed, mounted>>

\* InsertPartition failed, or the write did: the store stays dismounted.
CreateFails ==
  /\ DismountStore /\ UNCHANGED <<handles, mbr, boot>>

CreatePartition(start, size) ==
  LET t == CompactMBR(mbr)
      total == size * SectorsPerMB
  IN /\ running /\ hDisk /\ ~Overflows(size) /\ Acceptable(t, start, total)
     /\ \/ CreateFails
        \/ /\ CanInsert(t, start, total)
           /\ WriteMBR(InsertPartition(t, start, total))
           /\ Refresh(InsertPartition(t, start, total))
           /\ UNCHANGED <<handles, boot>>

-----------------------------------------------------------------------------
(* DELETE and CLEAN *)

\* The table cannot be read, is not valid, or cannot be written.
DeleteFails ==
  /\ running /\ hDisk /\ hPart # 0
  /\ DismountStore /\ UNCHANGED <<handles, mbr, boot>>

DeletePartition ==
  /\ running /\ hDisk /\ hPart # 0 /\ MBRIsValid(mbr)
  /\ LET t == CompactMBR([mbr EXCEPT ![gPart] = NoEntry])
     IN WriteMBR(t) /\ Refresh(t)
  /\ hPart' = 0 /\ gPart' = 0
  /\ UNCHANGED <<running, hDisk, boot>>

ClosePartition ==
  hPart' = 0 /\ gPart' = IF hPart # 0 THEN 0 ELSE gPart

\* The store could not be dismounted (the partition is closed by then), or the
\* empty table not written (the store is dismounted by then).
CleanFails ==
  /\ running /\ hDisk /\ ClosePartition
  /\ UNCHANGED <<listed, mounted>> \/ DismountStore
  /\ UNCHANGED <<running, hDisk, mbr, boot>>

CleanDisk ==
  LET empty == [x \in Slot |-> NoEntry]
  IN /\ running /\ hDisk /\ ClosePartition
     /\ WriteMBR(empty) /\ Refresh(empty)
     /\ hDisk' = FALSE /\ UNCHANGED <<running, boot>>

-----------------------------------------------------------------------------
(* ACTIVE and SETPARTITIONTYPE *)

AlsoActivated(t) == [t EXCEPT ![gPart].active = TRUE]
Activated(t) == [x \in Slot |-> [t[x] EXCEPT !.active = (x = gPart)]]

\* The flags, then the boot sector file over the end of the first sector; that
\* may fail with the flags written.  The boot loader file is copied last and
\* touches no sector followed here.
ActivatePartition ==
  /\ running /\ hDisk /\ hPart # 0 /\ MBRIsValid(mbr)
  /\ \/ WriteMBR(Activated(mbr)) /\ UNCHANGED boot
     \/ mbr[gPart].start = 0 /\ WriteBootCode(0)
  /\ UNCHANGED <<handles, listed, mounted>>

\* The type of the first entry is set, whichever partition is selected.
SetPartitionType(fs) ==
  /\ running /\ hDisk /\ hPart # 0 /\ MBRIsValid(mbr)
  /\ WriteMBR([mbr EXCEPT ![0].fs = fs])
  /\ UNCHANGED <<handles, boot, listed, mounted>>

-----------------------------------------------------------------------------
(* FORMATPARTITION *)

\* FatUtil formats behind the partition handle; then the volume is mounted.  It
\* stays dismounted when either fails.
FormatPartition ==
  /\ running /\ hPart # 0
  /\ \/ hPart \in Listed /\ BootSectorPut(hPart, "fat") /\ mounted' = mounted \cup {hPart}
     \/ hPart \in Listed /\ BootSectorPut(hPart, "fat") /\ mounted' = mounted \ {hPart}
     \/ mounted' = mounted \ {hPart} /\ UNCHANGED boot
  /\ UNCHANGED <<handles, mbr, listed>>

-----------------------------------------------------------------------------
(* Commands that write sectors without regard to the table. *)

ZeroSector(s) ==
  /\ running /\ hDisk /\ s < Sectors
  /\ IF s = 0
     THEN mbr' = [x \in Slot |-> NoEntry] /\ UNCHANGED boot
     ELSE BootSectorPut(s, "none") /\ UNCHANGED mbr
  /\ UNCHANGED <<handles, listed, mounted>>

\* The boot code in front of the table, which stays.
WriteMBRCode == running /\ hDisk /\ UNCHANGED dpVars

WriteBootSector(s) ==
  /\ running /\ hDisk /\ s < Sectors
  /\ WriteBootCode(s) /\ UNCHANGED <<handles, listed, mounted>>

\* The offset in the boot sector that entry gPart starts at, or, of an empty
\* entry, in the boot code of sector 0; both are kept apart from what is followed.
FixPartOffset == running /\ hDisk /\ hPart # 0 /\ UNCHANGED dpVars

\* The checksum over the first eleven sectors of an exFAT volume, to the twelfth.
FixCRC ==
  /\ running /\ hDisk /\ hPart # 0 /\ BootAt(mbr[gPart].start) = "exfat"
  /\ UNCHANGED dpVars

-----------------------------------------------------------------------------
\* What the user may type.
ExecCommand ==
  \/ SelectObject \/ ListObjects \/ DumpMBR \/ DumpPartInfo \/ DeActivatePartition
  \/ \E start \in Starts, size \in Sizes : CreatePartition(start, size)
  \/ DeletePartition \/ DeleteFails \/ CleanDisk \/ CleanFails
  \/ ActivatePartition \/ \E fs \in Types : SetPartitionType(fs)
  \/ FormatPartition \/ WriteMBRCode \/ FixPartOffset \/ FixCRC
  \/ \E s \in RawSectors : ZeroSector(s) \/ WriteBootSector(s)

DpNext == ExecCommand \/ Leave \/ WinMain
DpSpec == DpInit /\ [][DpNext]_dpVars

DpTypes ==
  /\ hPart \in 0 .. DWord - 1 /\ gPart \in Slot
  /\ mbr \in Table
  /\ boot \in [Watched -> BootSector]
  /\ listed \in Seq(0 .. DWord - 1) /\ mounted \subseteq 0 .. DWord - 1
DpTypeOK == DpTypes /\ {running, hDisk} \subseteq BOOLEAN

UsedSlots(t) == {x \in Slot : InUse(t[x])}
Used(t) == {t[x] : x \in UsedSlots(t)}
Before == Used(mbr)
After == Used(mbr')
Grown == Cardinality(UsedSlots(mbr')) - Cardinality(UsedSlots(mbr))

\* A step that wrote over sector 0 without regard to the table: ZERO 0, BOOTSEC
\* on sector 0, or ACTIVE with an empty entry selected.
RawStep ==
  \/ \E s \in RawSectors : ZeroSector(s) \/ WriteBootSector(s)
  \/ ActivatePartition /\ mbr[gPart].start = 0

EntriesKept ==
  /\ ~(StartsOf(mbr') \subseteq StartsOf(mbr)) /\ ~RawStep =>
       Before \subseteq After /\ Grown = 1
  /\ InUse(mbr[gPart]) /\ hPart' # hPart /\ DeletePartition =>
       After \cup {mbr[gPart]} = Before /\ Grown = -1

OrderKept == Ordered(mbr) /\ ~Ordered(mbr') => RawStep

DisjointKept ==
  Disjoint(mbr) /\ ~Disjoint(mbr') =>
    RawStep \/ \E start \in Starts \ {0}, size \in Sizes : CreatePartition(start, size)

\* CREATE loses and changes no partition and adds one; DELETE takes away one: no
\* entry is moved wrongly in the table (MoveMemory, CompactMBR).  Both leave a
\* table whose partitions start one behind the other, as CE demands of it.  And
\* CREATE without an offset finds room of its own: partitions that share no sector
\* share none after it (the gap search of InsertPartition).  The last two on a
\* table whose partitions end on the disk and have a length: behind one that wraps
\* or is empty the gap search measures from a sector in front of it.
PartitionsKept ==
  [][EntriesKept /\ (Proper(mbr) => OrderKept /\ DisjointKept)]_mbr

\* What the disk, or boot code read as a table, must be like for it.
MarkedOnce(t) == \A x, y \in Slot : t[x].active /\ t[y].active => x = y
TablesMarkedOnce == \A t \in InitMBRs \cup JunkTables : MarkedOnce(t)

\* At most one partition is active, whatever is inserted, moved or removed, and
\* every variable has its type.
OneActive ==
  /\ DpTypeOK
  /\ MarkedOnce(mbr)

\* What the storage manager lists and has mounted is in the table.
ListTrue == Listed \subseteq StartsOf(mbr) /\ mounted \subseteq Listed

\* A command that rewrites the table has taken the volumes down before it and
\* refreshes after it, so no volume stays mounted that has no entry any more.
ListKept == [][ListTrue => ListTrue' \/ RawStep]_dpVars

\* The comment in CreatePartition: a place that is given is confirmed to have "a
\* large enough free extent for the size", and without one "the first free area on
\* disk" is found.
CreatedExtentFree ==
  [][\A start \in Starts, size \in Sizes :
       CreatePartition(start, size) /\ Disjoint(mbr) /\ OnDisk(mbr)
         => Disjoint(mbr') /\ OnDisk(mbr')]_dpVars
=============================================================================
