----------------------------- MODULE MCNLoader -----------------------------
(* NLoader's parts, each a program of its own with a client that calls it  *)
(* in every order: the file reader, the boot heap, the parser of BOOT.INI, *)
(* the choice of a video mode, the disk reads; NLoader's boot; and the     *)
(* chain of boot sector and second stage that starts a loader, NLoader,    *)
(* CLoader or wecloader.                                                   *)
EXTENDS FatReader, NLoaderBoot, BootHeap, IniParser, NLoaderScreen, BiosDisk,
        Xldr

CONSTANTS Programs, DiskClusters, MaxChain, Ends, MaxRecords

VARIABLE program

(* Reader: every file of one to three clusters, in any order on the disk.  *)
MCChains ==
  UNION {{c \in [1 .. n -> DiskClusters] :
            \A i, j \in 1 .. n : c[i] = c[j] => i = j} : n \in 1 .. MaxChain}
MCVolumes == [chain : MCChains, end : Ends]

(* Boot: images of no, one or two records at two addresses, cut off        *)
(* anywhere.                                                               *)
MCImages ==
  UNION {[records : {r}, whole : 0 .. (2 * Len(r) + 2), slack : {"zero", "other"}]
           : r \in BoundedSeq(Addresses, MaxRecords)}

(* Heap: an 88 byte arena of four minimal blocks; the other regions leave  *)
(* no heap.  1 needs the minimal block, 13 a larger one, 60 most of the    *)
(* arena; 127 is past the limit and would wrap to less than a header.      *)
MCRegions == {-8, 8, 24, 120}
MCRequests == {1, 13, 60, 127}

(* Ini: files of one or two lines; names that begin with one another,      *)
(* values of every kind, lines without "=", comments, a last line with no  *)
(* end.                                                                    *)
V == <<"V">>
VW == <<"V", "W">>
MCParameters == {V, VW}
MCValues ==
  {<<>>, <<"1">>, <<"1", "9", "x">>, <<"3", "0", "0">>, <<"0", "x", "a", "1">>,
   <<"0", "x">>, <<"o", "n">>, <<"o", "n", "V", "V", "V", "V">>}
MCLines ==
  [lead : {<<>>}, name : {V, VW, <<"W">>}, sep : {<<"=">>}, value : MCValues,
   end : {<<"LF">>}]
  \cup [lead : {<<>>}, name : {V}, sep : {<<"=">>},
        value : {<<>>, <<"1">>, <<"o", "n">>}, end : {<<>>}]
  \cup [lead : {<<"#">>, <<"[">>}, name : {V}, sep : {<<"=">>},
        value : {<<"1">>}, end : {<<"CR", "LF">>}]
  \cup [lead : {<<>>}, name : {V, VW}, sep : {<<>>}, value : {<<>>, <<"1">>},
        end : {<<"CR", "LF">>, <<>>}]
Broken(f) == \E i \in 1 .. Len(f) - 1 : f[i].end = <<>>
MCFiles == {f \in BoundedSeq(MCLines, 2) : f # <<>> /\ ~Broken(f)}
(* For buffers of two bytes, which such a value fills, and of four.        *)
MCPairFiles ==
  {f \in MCFiles : \A i \in DOMAIN f : f[i].end # <<>> /\ Len(f[i].value) = 2}

(* Screen: lists of up to three modes, some of them of no use; wishes      *)
(* smaller and larger than the panel, and none.                            *)
MCSettings ==
  [video : {TRUE}, width : 0 .. 2, height : {1}, physWidth : {0, 1},
   physHeight : {0}, depth : {16}]
  \cup [video : BOOLEAN, width : {2}, height : {0}, physWidth : {0},
        physHeight : {0, 1}, depth : {32}]
Mode(w, h, c) == [width |-> w, height |-> h, colors |-> c, known |-> TRUE,
                  linear |-> TRUE, rgb565 |-> TRUE]
MCModes ==
  {Mode(1, 1, 8), Mode(1, 1, 16), Mode(2, 1, 8), Mode(2, 1, 32),
   [Mode(3, 1, 16) EXCEPT !.rgb565 = FALSE],
   [Mode(3, 1, 16) EXCEPT !.linear = FALSE]}
MCModeLists == BoundedSeq(MCModes, 3)

(* Disk: a drive that ends inside a byte of cylinders, one that needs all  *)
(* ten bits, with and without the services, some questions unanswered.     *)
MCDrives == [edd : BOOLEAN, tellsGeometry : BOOLEAN, tellsSize : BOOLEAN,
             cylinders : {2, 600, 1024}, heads : {1, 3}, track : {2}]

(* Chain: every file system, with directories, data areas, clusters and    *)
(* FATs at and past the limits of a byte and a word; files in pieces; no   *)
(* file, or only one of the two; images with a wrong sum, a record outside *)
(* the range, ranges that wrap, cut off; drives with and without EDD.      *)
Drive(edd, cylinders) ==
  [edd |-> edd, others |-> edd, cylinders |-> cylinders, heads |-> 2, track |-> 6]
GoodImage ==
  [start |-> 5, range |-> [address |-> 4, length |-> 4],
   records |-> <<[at |-> 4, units |-> <<1, 2>>], [at |-> 6, units |-> <<>>],
                 [at |-> 5, units |-> <<3>>]>>, whole |-> TRUE]
Images32 ==
  {[GoodImage EXCEPT !.range.length = 1, !.records = <<[at |-> 4, units |-> <<1, 2>>]>>],
   [GoodImage EXCEPT !.range.address = 3], [GoodImage EXCEPT !.range.length = 1],
   [GoodImage EXCEPT !.range.length = 12],
   [GoodImage EXCEPT !.range = [address |-> 8, length |-> 10],
                     !.records = <<[at |-> 14, units |-> <<1, 2, 3>>]>>]}
Chunks(cells) ==
  [i \in 1 .. CeilDiv(Len(cells), CellsPerSector) |->
     [cells |-> SubSeq(cells, (i - 1) * CellsPerSector + 1,
                       IF i * CellsPerSector <= Len(cells) THEN i * CellsPerSector
                       ELSE Len(cells))]]
LoaderFile(cluster, i, cells, split, gap) ==
  [cluster |-> cluster, split |-> split, gap |-> gap, image |-> i,
   sectors |-> <<[stage |-> 1], [stage |-> 2], [config |-> TRUE]>> \o Chunks(cells)]
Standard32(cluster, i) == LoaderFile(cluster, i, ImageCells(i), 2, 0)
Files32(a, b) == [n \in {"NWECLDR", "NWCELDR"} |-> IF n = "NWECLDR" THEN a ELSE b]
Volume16(type) ==
  [loader |-> "NLoader", type |-> type, label |-> TRUE, overwritten |-> FALSE, backup |-> 0,
   fatOffset |-> 1, second |-> FALSE, hidden |-> 2, reserved |-> 1, fats |-> 2, perFat |-> 1, entries |-> 4,
   perCluster |-> 2, rootCluster |-> 2, small |-> 40, total |-> 0, drive |-> Drive(TRUE, 3),
   files |-> Files32(Standard32(3, GoodImage), Standard32(9, GoodImage))]
Volume32 ==
  [Volume16("FAT32") EXCEPT !.small = 0, !.total = 60, !.entries = 0, !.hidden = 1, !.drive = Drive(TRUE, 10)]
Bad == [GoodImage EXCEPT !.whole = FALSE]
Cut(n) == SubSeq(ImageCells(GoodImage), 1, n)
Wrong == [ImageCells(GoodImage) EXCEPT ![5] = [unit |-> 3]]
Second(m, f) == [m EXCEPT !.files["NWCELDR"] = f]
MCMedia ==
  UNION {{[m EXCEPT !.hidden = h, !.drive = d, !.entries = e] :
            h \in {0, 2, 12}, e \in {3, 4}, d \in {Drive(TRUE, 10), Drive(FALSE, 10), Drive(FALSE, 4)}}
           : m \in {Volume16("FAT12"), Volume16("FAT16")}}
  \cup {[Volume16("FAT16") EXCEPT !.small = s, !.total = 60] : s \in {0, 20, 33, 34, 35}}
  \cup {[Volume32 EXCEPT !.hidden = h, !.rootCluster = r, !.perFat = f,
                         !.files = Files32(Standard32(7, GoodImage), Standard32(11, GoodImage))] :
          h \in {1, 13}, r \in {2, 5, 6}, f \in {1, 16}}
  \cup {[Volume32 EXCEPT !.type = "exFAT", !.perFat = 0]}
  \cup UNION {{Second(m, LoaderFile(9, Bad, c, s, g)) : s \in 2..8, g \in {0, 2}, c \in {Wrong, Cut(3), Cut(6), Cut(9)}} : m \in {Volume16("FAT16")}}
  \cup UNION {{Second(m, LoaderFile(9, GoodImage, ImageCells(GoodImage), s, 2)) : s \in 2..8} : m \in {Volume16("FAT16"), Volume32}}
  \cup {Second(Volume16("FAT16"), Standard32(9, i)) : i \in Images32}
  \cup {[Volume16("FAT16") EXCEPT !.files["NWECLDR"] = LoaderFile(3, GoodImage, ImageCells(GoodImage), s, 2)] : s \in 2..5}
  \cup {[Volume16("FAT16") EXCEPT !.files = [n \in S |-> @[n]]] : S \in SUBSET {"NWECLDR", "NWCELDR"}}
  \cup {[Volume16("FAT16") EXCEPT !.entries = e,
            !.files = Files32(LoaderFile(3, GoodImage, ImageCells(GoodImage), 5, 8), Standard32(5, GoodImage))] : e \in {3, 4}}
  \cup {[Volume16("exFAT") EXCEPT !.files = [n \in {"NWEC"} |-> Standard32(3, GoodImage)]]}

(* CLoader and wecloader: one file; drives with and without packets, whose *)
(* answer has other bits or not, and of more cylinders than a number has;  *)
(* labels without a third letter; a BIOS that writes over the length of    *)
(* the FAT, with the byte saved, saved wrong, and not saved.               *)
TheirDrives ==
  {[Drive(e, c) EXCEPT !.others = o] : e, o \in BOOLEAN, c \in {10, 14}}
Theirs16 ==
  {[Volume16(t) EXCEPT !.hidden = h, !.small = 0, !.total = 150, !.drive = d,
                       !.files = [n \in {"WCELDR"} |-> Standard32(3, GoodImage)]] :
     t \in {"FAT12", "FAT16"}, h \in {2, 100, 126}, d \in TheirDrives}
Theirs32 ==
  {[Volume32 EXCEPT !.perFat = f, !.label = l, !.overwritten = o, !.backup = b, !.drive = d, !.total = 100,
                    !.files = [n \in {"WCELDR"} |-> Standard32(3, GoodImage)]] :
     f \in {1, 4}, l, o \in BOOLEAN, b \in {0, 1, 3}, d \in TheirDrives}
(* A loader at the end of the drive, with fewer or more sectors behind its *)
(* first than are read.                                                    *)
MCLast ==
  {[Volume16(type) EXCEPT !.drive = [Drive(TRUE, 1) EXCEPT !.track = t],
      !.files = [n \in {"NWECLDR"} |->
                   [Standard32(3, Bad) EXCEPT !.sectors = SubSeq(@, 1, 3)]]] :
     type \in {"FAT12", "FAT16"}, t \in {6, 7}}

MCAllMedia ==
  MCMedia \cup MCLast \cup {[m EXCEPT !.loader = l] : m \in {v \in Theirs16 : OnMedium(v, DataStart(v))} \cup Theirs32,
                                        l \in {"CLoader", "wecloader"}}

ASSUME MCMade ==
  /\ \A m \in MCAllMedia : NumbersMade(m) /\ FilesMade(m)
  /\ \E m \in MCAllMedia : ImagesMade(m) /\ ChainLoads(m)

-----------------------------------------------------------------------------
OneOf(S) == CHOOSE x \in S : TRUE
Idle(p) == program # p

ChainOff ==
  /\ link = "off" /\ medium = <<>> /\ lba = 0 /\ toLoad = 0 /\ atLoad = <<>>
  /\ chainFaults = 0 /\ XldrInit

(* The parts that do not run have one state.                               *)
MCInit ==
  /\ program \in Programs
  /\ Idle("reader") => disk = OneOf(Volumes)
  /\ Idle("boot") => volume = OneOf(FileSystems) /\ image = OneOf(Images)
  /\ Idle("ini") => lines = OneOf(Files) /\ junk = OneOf(Behind)
  /\ Idle("screen") => /\ settings = OneOf(Settings) /\ vesa = TRUE
                       /\ modes = OneOf(ModeLists)
  /\ Idle("disk") => drive = OneOf(Drives)
  /\ FatInit /\ BootInit /\ Init /\ IniInit /\ ScreenInit /\ DiskInit
  /\ IF Idle("chain") THEN ChainOff ELSE ChainInit

MCNext ==
  /\ UNCHANGED program
  /\ \/ program = "reader" /\ FatNext
        /\ UNCHANGED <<bootVars, vars, iniVars, screenVars, diskVars, chainVars>>
     \/ program = "boot" /\ BootNext
        /\ UNCHANGED <<fatVars, vars, iniVars, screenVars, diskVars, chainVars>>
     \/ program = "heap" /\ Next
        /\ UNCHANGED <<fatVars, bootVars, iniVars, screenVars, diskVars, chainVars>>
     \/ program = "ini" /\ IniNext
        /\ UNCHANGED <<fatVars, bootVars, vars, screenVars, diskVars, chainVars>>
     \/ program = "screen" /\ ScreenNext
        /\ UNCHANGED <<fatVars, bootVars, vars, iniVars, diskVars, chainVars>>
     \/ program = "disk" /\ DiskNext
        /\ UNCHANGED <<fatVars, bootVars, vars, iniVars, screenVars, chainVars>>
     \/ program = "chain" /\ ChainNext
        /\ UNCHANGED <<fatVars, bootVars, vars, iniVars, screenVars, diskVars>>

MCSpec ==
  /\ MCInit
  /\ [][MCNext]_<<program, fatVars, bootVars, vars, iniVars, screenVars, diskVars,
                chainVars>>
  /\ WF_fatVars(program = "reader" /\ ReadStep)
  /\ WF_bootVars(program = "boot" /\ BootStep)
  /\ WF_chainVars(program = "chain" /\ ChainNext)

(* What has an end, and its end, in the program that runs.                 *)
Working ==
  \/ program = "reader" /\ InCall
  \/ program = "boot" /\ stage # "entry"
  \/ program = "chain"
WorkDone ==
  \/ program = "reader" /\ step = "idle"
  \/ program = "boot" /\ Ended
  \/ program = "chain" /\ ChainEnded

(* Every call of the file reader returns, every boot of NLoader comes to   *)
(* its end, and so does the chain of loaders, whatever read fails: it is   *)
(* CallReturns and BootEnds, each of the program that runs, in one.        *)
ProgramEnds == Working ~> WorkDone
=============================================================================
