------------------------------ MODULE BiosParms ------------------------------
(***************************************************************************)
(* g_FATParms of biosloader: where the root directory and the FAT begin,   *)
(* which FSInit computes backwards from the first sector of the data area. *)
(* That sector is all the boot sector hands over; the rest is read from    *)
(* its copy of the parameter block.  A volume is a record v: [type, data,  *)
(* sectsPerClust, fats, perFat, entries, rootCluster, fatOffset,           *)
(* partition, second].                                                     *)
(***************************************************************************)
EXTENDS Integers

CONSTANT DirEntries    \* directory entries in a sector

ClusterLba(v, c) == v.data + (c - 2) * v.sectsPerClust

(* FAT12 and FAT16: the directory ends where the data begin.               *)
Root16Down(v) == v.data - v.entries \div DirEntries    \* bug: rounded down
Root16(v) ==
  v.data - v.entries \div DirEntries - (IF v.entries % DirEntries # 0 THEN 1 ELSE 0)
Parms16(v) == [root |-> Root16(v), fat |-> Root16(v) - v.fats * v.perFat]

Parms32(v) ==
  [root |-> ClusterLba(v, v.rootCluster), fat |-> v.data - v.fats * v.perFat]

(* exFAT: one of two FATs is in use.                                       *)
ParmsEx(v) ==
  [root |-> ClusterLba(v, v.rootCluster),
   fat |-> v.fatOffset + v.partition + (IF v.second /\ v.fats = 2 THEN v.perFat ELSE 0)]

Parms(v) ==
  CASE v.type = "FAT32" -> Parms32(v)
    [] v.type = "exFAT" -> ParmsEx(v)
    [] OTHER -> Parms16(v)
=============================================================================
