------------------------------ MODULE BiosDisk ------------------------------
(***************************************************************************)
(* NLoader's sector reads through INT 13h: BootDisk_Init, Lba2Chs and      *)
(* BootDisk_Read (core/filesys/FileSys.cpp).  A drive is asked whether it  *)
(* has the extended services, for its geometry, and with the services for  *)
(* its sector size; a read is split into packets of some sectors, or, on a *)
(* drive without them, into single sectors at cylinder, head and sector.   *)
(***************************************************************************)
EXTENDS Integers, Sequences

CONSTANTS
  Drives,        \* [edd, tellsGeometry, tellsSize, cylinders, heads, track]
  ReadAt,        \* first sectors that are read
  ReadCounts,    \* numbers of sectors that are read
  MaxPacket,     \* 8, sectors of a packet
  MaxDiskFaults  \* bound: calls of INT 13h that fail

ASSUME DiskAssumption ==
  /\ MaxPacket \in Nat \ {0} /\ MaxDiskFaults \in Nat
  /\ ReadAt \subseteq Nat /\ ReadCounts \subseteq Nat
  /\ \A d \in Drives :
       /\ d.cylinders \in 1 .. 1024 /\ d.heads \in 1 .. 256
       /\ d.track \in 1 .. 63

VARIABLES
  diskStep,    \* "off", "idle" or "read"
  drive,       \* the drive
  drvInfo,     \* drv_info: [useEdd, cylinders, heads, track, sectorSize]
  from, count, \* the read asked for
  sector, rest,\* place and sectors to go in BootDisk_Read
  copied,      \* the sectors copied to the caller's buffer, one after another
  returned,    \* what the last read returned
  diskFaults   \* calls of INT 13h that failed

diskVars == <<diskStep, drive, drvInfo, from, count, sector, rest, copied,
              returned, diskFaults>>
request == <<from, count>>

(* InitializeFileSys has the number of heads and sectors from the boot     *)
(* sector; the rest of drv_info is 0.                                      *)
DiskInit ==
  /\ diskStep = "off"
  /\ drive \in Drives
  /\ drvInfo = [useEdd |-> FALSE, cylinders |-> 0, heads |-> drive.heads,
                track |-> drive.track, sectorSize |-> 0]
  /\ from = 0 /\ count = 0 /\ sector = 0 /\ rest = 0 /\ copied = <<>>
  /\ returned = TRUE /\ diskFaults = 0

(* A failed question for the geometry ends the routine, a failed one for   *)
(* the sector size leaves 0; TRUE is returned all the same.                *)
BootDisk_Init ==
  /\ diskStep = "off" /\ diskStep' = "idle"
  /\ drvInfo' =
       [useEdd |-> drive.edd,
        cylinders |-> IF drive.tellsGeometry THEN drive.cylinders ELSE 0,
        heads |-> drive.heads, track |-> drive.track,
        sectorSize |-> IF drive.tellsGeometry /\ (drive.edd => drive.tellsSize)
                       THEN 512 ELSE 0]
  /\ UNCHANGED <<drive, request, sector, rest, copied, returned, diskFaults>>

-----------------------------------------------------------------------------
(* Lba2Chs: c and s are bytes, and the two high bits of the cylinder are   *)
(* in s.  The first sector behind the disk is not refused.                 *)
Sectors == drvInfo.track * drvInfo.heads * drvInfo.cylinders
Refuses(lba) == lba > Sectors

(* Bug: the high bits of the cylinder are forgotten.                       *)
Lba2ChsLow(lba) ==
  LET cylinder == lba \div (drvInfo.track * drvInfo.heads)
      inside == lba % (drvInfo.track * drvInfo.heads)
  IN  [c |-> cylinder % 256, h |-> (inside \div drvInfo.track) % 256,
       s |-> (inside % drvInfo.track) + 1]

Lba2Chs(lba) ==
  LET cylinder == lba \div (drvInfo.track * drvInfo.heads)
      inside == lba % (drvInfo.track * drvInfo.heads)
  IN  [c |-> cylinder % 256, h |-> (inside \div drvInfo.track) % 256,
       s |-> (inside % drvInfo.track) + 1 + 64 * ((cylinder \div 256) % 4)]

DiskSectors == drive.cylinders * drive.heads * drive.track

(* The BIOS puts the cylinder together again; -1 for one it does not have. *)
SectorAt(a) ==
  LET cylinder == a.c + 256 * (a.s \div 64)
  IN  IF cylinder < drive.cylinders
      THEN (cylinder * drive.heads + a.h) * drive.track + (a.s % 64) - 1
      ELSE -1

-----------------------------------------------------------------------------
(* BootDisk_Read                                                           *)

BootDisk_Read ==
  /\ diskStep = "idle"
  /\ from' \in ReadAt /\ count' \in ReadCounts
  /\ sector' = from' /\ rest' = count' /\ copied' = <<>>
  /\ diskStep' = "read"
  /\ UNCHANGED <<drive, drvInfo, returned, diskFaults>>

Returns(ok) == diskStep' = "idle" /\ returned' = ok
Blocks == IF rest > MaxPacket THEN MaxPacket ELSE rest

(* What memcpy adds to the buffer: nothing if a sector has no bytes.       *)
Copy(first, n) ==
  copied' = IF drvInfo.sectorSize = 0 THEN copied
            ELSE copied \o [i \in 1 .. n |-> first + i - 1]

PacketRead ==
  /\ diskStep = "read" /\ rest > 0 /\ drvInfo.useEdd
  /\ sector + Blocks <= DiskSectors
  /\ Copy(sector, Blocks)
  /\ sector' = sector + Blocks /\ rest' = rest - Blocks
  /\ UNCHANGED <<diskStep, drive, drvInfo, request, returned, diskFaults>>

SingleRead ==
  /\ diskStep = "read" /\ rest > 0 /\ ~drvInfo.useEdd
  /\ ~Refuses(sector) /\ SectorAt(Lba2Chs(sector)) # -1
  /\ Copy(SectorAt(Lba2Chs(sector)), 1)
  /\ sector' = sector + 1 /\ rest' = rest - 1
  /\ UNCHANGED <<diskStep, drive, drvInfo, request, returned, diskFaults>>

(* INT 13h fails, or the sector is not one of the disk.                    *)
SectorFault ==
  /\ diskStep = "read" /\ rest > 0
  /\ \/ diskFaults < MaxDiskFaults /\ diskFaults' = diskFaults + 1
     \/ /\ diskFaults' = diskFaults
        /\ IF drvInfo.useEdd THEN sector + Blocks > DiskSectors
           ELSE Refuses(sector) \/ SectorAt(Lba2Chs(sector)) = -1
  /\ Returns(FALSE)
  /\ UNCHANGED <<drive, drvInfo, request, sector, rest, copied>>

SectorsRead ==
  /\ diskStep = "read" /\ rest = 0
  /\ Returns(TRUE)
  /\ UNCHANGED <<drive, drvInfo, request, sector, rest, copied, diskFaults>>

DiskNext ==
  \/ BootDisk_Init \/ BootDisk_Read
  \/ PacketRead \/ SingleRead \/ SectorFault \/ SectorsRead

DiskSpec == DiskInit /\ [][DiskNext]_diskVars

-----------------------------------------------------------------------------
(* Properties                                                              *)

Wanted == [i \in 1 .. count |-> from + i - 1]
OnDisk == from + count <= DiskSectors
Answered == drive.tellsGeometry /\ (drive.edd => drive.tellsSize)

(* Inside the disk a read returns TRUE only with every sector asked for,   *)
(* in order, in the buffer, and FALSE only if INT 13h failed, however it   *)
(* is split: on a drive that answered the questions of BootDisk_Init.      *)
DiskReadTrue ==
  diskStep = "idle" /\ OnDisk /\ Answered =>
    IF returned THEN copied = Wanted ELSE diskFaults > 0
=============================================================================
