------------------------------ MODULE BldrStart ------------------------------
(***************************************************************************)
(* The start of biosloader: its boot sector loads BLDR in one stage, hands *)
(* it the first sector of the data area in two registers and jumps to it;  *)
(* the start code (startup.asm) makes one number of them, and FSInit       *)
(* computes from it where the readers look for the directory and the FAT.  *)
(***************************************************************************)
EXTENDS BootSector, BiosParms

CONSTANT BldrSectors     \* sectors of BLDR that must be in memory

(* Boot sector and FSInit round the length of the directory with the same   *)
(* number of entries to a sector.                                           *)
ASSUME BldrAssumption ==
  BldrSectors \in 1 .. READ_LENGTH /\ EntriesPerRootSector = DirEntries

VARIABLES
  DataStartLBA,   \* what the start code has stored
  places          \* g_FATParms: [root, fat]

startVars == <<sectorVars, DataStartLBA, places>>
startData == <<DataStartLBA, places>>

BldrInit ==
  SectorInit /\ DataStartLBA = 0 /\ places = [root |-> 0, fat |-> 0]

-----------------------------------------------------------------------------
(* AX:BX, left by the boot sector with the jump.  FAT32 may have lost what *)
(* a BIOS wrote over.                                                      *)
InRegisters(m) == [ax |-> High(DataLba(m)), bx |-> Low(DataLba(m))]

Jump ==
  /\ link = "load" /\ toLoad = 0 /\ NoChainFault
  /\ link' = IF IsStage(atLoad, BldrSectors) THEN "bldr" ELSE "wild"
  /\ UNCHANGED <<medium, lba, toLoad, atLoad, startData>>

HighDropped(ax, bx) == bx           \* bug: the upper register is lost
Joined(ax, bx) == ax * Word + bx

StartUp ==
  /\ link = "bldr" /\ link' = "main" /\ NoChainFault
  /\ DataStartLBA' = Joined(InRegisters(medium).ax, InRegisters(medium).bx)
  /\ UNCHANGED <<medium, lba, toLoad, atLoad, places>>

(* The parameter block as FSInit finds it at 0xFA03.                       *)
pBPB ==
  [type |-> medium.type, data |-> DataStartLBA, sectsPerClust |-> medium.perCluster,
   fats |-> medium.fats, perFat |-> SectPerFAT(medium), entries |-> medium.entries,
   rootCluster |-> medium.rootCluster, fatOffset |-> medium.fatOffset,
   partition |-> medium.hidden, second |-> medium.second]

InitParms ==
  /\ link = "main" /\ link' = "ready" /\ NoChainFault
  /\ places' = Parms(pBPB)
  /\ UNCHANGED <<medium, lba, toLoad, atLoad, DataStartLBA>>

BldrNext == (SectorStep /\ UNCHANGED startData) \/ Jump \/ StartUp \/ InitParms
BldrSpec == BldrInit /\ [][BldrNext]_startVars

-----------------------------------------------------------------------------
FatStart(m) ==
  m.hidden + (IF m.type = "exFAT" THEN m.fatOffset + (IF m.second THEN m.perFat ELSE 0)
              ELSE m.reserved)

(* Volumes as formatters and installers make them.  BLDR's first sector is *)
(* nowhere else, and a cluster of BLDR that does not fit a word is not     *)
(* made up for by a wrong start of the data area.                          *)
BldrMade(m) ==
  /\ m.loader = "biosloader"
  /\ \A n \in DOMAIN m.files : \A i \in DOMAIN m.files[n].sectors :
       m.files[n].sectors[i] = [stage |-> 1] => n = "BLDR" /\ i = 1
  /\ \A n \in DOMAIN m.files :
       m.type = "FAT32" /\ m.files[n].cluster >= Word =>
         LoaderLba(m, m.files[n].cluster) # FileSector(m, m.files[n], 1)

MediaMade == \A m \in Media : NumbersMade(m) /\ FilesMade(m) /\ BldrMade(m)

(* Two programs, one counting up from the parameter block in registers of  *)
(* 16 bits, the other down from what it is handed, name the same places,   *)
(* which are those of the volume: whenever BLDR runs at all, its readers   *)
(* begin where the directory and the FAT in use are.  And it runs on every *)
(* volume that has what the boot sector needs, unless a read fails.        *)
BldrStarts ==
  /\ SectorRight(BldrSectors)
  /\ link = "ready" =>
       places = [root |-> RootStart(medium), fat |-> FatStart(medium)]
=============================================================================
