---------------------------- MODULE MCBiosloader ----------------------------
(* biosloader's programs: DiskPart and bincompress on the host's side, the  *)
(* boot sector that starts the loader, the loader that boots from the disk, *)
(* and its file readers.                                                    *)
EXTENDS DiskPart, BinCompress, BiosBoot, BiosFat, BldrStart, TLC

CONSTANT Programs
VARIABLE program

OneOf(S) == CHOOSE x \in S : TRUE

(* DiskPart                                                                *)
Part(s, n) == GenerateMBREntry(s, n)
Full(es) == [x \in Slot |-> IF x + 1 \in DOMAIN es THEN es[x + 1] ELSE NoEntry]

MCInitMBRs ==
  {Full(<<NoEntry, Part(2, 3), NoEntry, [Part(5, 1) EXCEPT !.fs = "extended", !.active = TRUE]>>)}
MCInitBoots == {[s \in {5} |-> "exfat"]}
MCJunkTables == {Full(<<NoEntry, NoEntry, Part(5, 1)>>)}

ASSUME MCTables == TablesMarkedOnce

(* The loader: images of one and of two records, once two for one address. *)
Record(a, n) ==
  <<[kind |-> "record", addr |-> a, len |-> n]>> \o [i \in 1 .. n |-> [kind |-> "body"]]
Image(records, start) == <<[kind |-> "head"]>> \o records \o <<LastHeader(start)>>
ImageOne(start) == Image(Record(1, 1), start)
ImageTwo(start) == Image(Record(1, 2) \o Record(2, 1), start)
ImageTwice(start) == Image(Record(2, 1) \o Record(2, 3), start)
Text(n) == [i \in 1 .. n |-> [kind |-> "text"]]

(* On the disk: plain, or packed, every other block to one cell; cut off   *)
(* anywhere, with and without room behind it in its cluster.               *)
InFull(data) == Bytes(0, Len(data))
PackedCells(data) ==
  Packed(Len(data), [k \in 1 .. NumBlocks(Len(data)) |-> IF k % 2 = 1 THEN 1 ELSE MaxBlock])
FileOf(data, cells, n, room) ==
  [data |-> data, cells |-> SubSeq(cells, 1, n), slack |-> room, whole |-> n = Len(cells)]
AsIs(data) == FileOf(data, InFull(data), Len(data), 0)
Pack(data) == FileOf(data, PackedCells(data), Len(PackedCells(data)), 2)
Cuts(data) ==
  UNION {{FileOf(data, cells, n, room) : n \in 0 .. Len(cells), room \in {0, 2}}
           : cells \in {InFull(data), PackedCells(data)}}
Ini(f, images, wait, on) ==
  [data |-> f.data, cells |-> f.cells, slack |-> f.slack, whole |-> f.whole,
   settings |-> [image |-> "nk.bin", backup |-> "back.bin", users |-> images,
                 delay |-> wait, video |-> on]]
ByKey == [k \in {"1"} |-> "user.bin"]

(* One volume with everything on it, and what may be wrong with the image, *)
(* the splash bitmaps, the settings, and the image that a key selects.     *)
Standard ==
  [n \in {NoImage, "boot.ini", "splash.bmx", "splash.bmp", "eboot.bin", "nk.bin",
          "back.bin", "user.bin"} |->
     CASE n = "boot.ini" -> Ini(AsIs(Text(3)), ByKey, 1, TRUE)
       [] n = "splash.bmx" -> Pack(Text(3))
       [] n = "nk.bin" -> Pack(ImageTwo(7))
       [] n = "back.bin" -> AsIs(ImageOne(8))
       [] n = "user.bin" -> Pack(ImageTwice(9))
       [] OTHER -> NoFile]

MCVolumes ==
  {[Standard EXCEPT !["nk.bin"] = f] :
     f \in {NoFile} \cup Cuts(ImageTwo(7)) \cup Cuts(ImageTwice(7))}
  \cup {[Standard EXCEPT !["splash.bmx"] = f, !["splash.bmp"] = g] :
     f \in {NoFile, Pack(Text(6))} \cup Cuts(Text(3)),
     g \in {NoFile, AsIs(Text(4)), AsIs(Text(5))}}
  \cup {[Standard EXCEPT !["boot.ini"] = f, !["eboot.bin"] = g] :
     f \in {NoFile, AsIs(<<>>), Ini(AsIs(Text(3)), <<>>, 2, FALSE),
            Ini(AsIs(Text(5)), ByKey, 0, FALSE), Ini(Pack(Text(3)), ByKey, 2, TRUE)},
     g \in {NoFile, AsIs(ImageOne(7)), Pack(ImageTwo(7))}}
  \cup {[Standard EXCEPT !["user.bin"] = f, !["back.bin"] = g] :
     f \in Cuts(ImageOne(9)), g \in {NoFile, AsIs(ImageTwo(8))}}

ASSUME MCWritten == VolumesWritten

(* Readers: FAT12 with an entry across two sectors; directories and chains *)
(* that go on in another cluster and another sector of the FAT; entries    *)
(* in every place, deleted ones, and ends; every end mark; buffers smaller *)
(* and larger than a cluster.  Chains in which a run ends just below the   *)
(* first cluster are left out: they are read again from their start.       *)
LongName == <<"a", "b", ".", "c">>
ShortName == <<"a">>
MCAsked == {LongName, ShortName, <<"b">>}
OnFat(f) ==
  [kind |-> "file", size |-> f.size, first |-> f.chain[1],
   name |-> IF f.name = ShortName THEN <<"a", " ", " ">> ELSE <<"a", "b", "c">>]
OtherEntry == [kind |-> "other"]
EndEntry == [kind |-> "end"]
FileOn(name, chain, size) == [name |-> name, chain |-> chain, size |-> size, intact |-> TRUE]
Links(chains, mark) ==
  [c \in 2 .. LastData |->
     IF \E s \in chains : \E i \in DOMAIN s : s[i] = c
     THEN LET s == CHOOSE s \in chains : \E i \in DOMAIN s : s[i] = c
              i == CHOOSE i \in DOMAIN s : s[i] = c
          IN  IF i = Len(s) THEN mark ELSE s[i + 1]
     ELSE 0]
InSectors(from, entries) ==
  [k \in from .. from + CeilOf(Len(entries), DirEntries) - 1 |->
     SubSeq(entries, (k - from) * DirEntries + 1,
            Smaller((k - from + 1) * DirEntries, Len(entries)))]

Short16 == FileOn(ShortName, <<6, 4>>, 11)
Longs16 == {FileOn(LongName, <<2, 3, 5>>, 20), FileOn(LongName, <<5, 2, 3>>, 24)}
Dirs16(f) ==
  {<<OnFat(f), OnFat(Short16), OtherEntry, OtherEntry>>, <<OtherEntry, OtherEntry, OnFat(Short16), OnFat(f)>>,
   <<EndEntry, OnFat(Short16), OnFat(f)>>}
OnFat16(kind, f, d, room, mark) ==
  LET data == 1 + 2 * kind.perFat + CeilOf(Len(d), DirEntries)
  IN  [type |-> kind.type, sectsPerClust |-> 2, fats |-> 2, perFat |-> kind.perFat,
       entries |-> Len(d), data |-> data, fatAt |-> 1,
       fat |-> Links({f.chain, Short16.chain}, mark), dir |-> InSectors(1 + 2 * kind.perFat, d),
       files |-> {f, Short16}, buffer |-> room, last |-> data + 12]
Kinds16 == {[type |-> "FAT12", perFat |-> 3], [type |-> "FAT16", perFat |-> 4]}
Volumes16 ==
  LET Long == FileOn(LongName, <<2, 3, 5>>, 20)
      Dir(f) == <<OnFat(f), OnFat(Short16)>>
      Marked(v, m) == [v EXCEPT !.fat[3] = m, !.files = {[Long EXCEPT !.intact = FALSE], Short16}]
      OfType(t) == OneOf({k \in Kinds16 : k.type = t})
  IN  {OnFat16(OfType("FAT12"), Long, d, 3, 10) : d \in Dirs16(Long)}
      \cup {OnFat16(OfType("FAT16"), Long, OneOf(Dirs16(Long)), 3, 10)}
      \cup {OnFat16(k, f, Dir(f), room, 11) : k \in Kinds16, f \in Longs16, room \in {1, 4}}
      \cup {Marked(OnFat16(OfType("FAT12"), Long, Dir(Long), 4, 11), 8),
            Marked(OnFat16(OfType("FAT16"), Long, Dir(Long), 4, 11), 9)}

Long32 == FileOn(LongName, <<3, 4, 6>>, 20)
Short32 == FileOn(ShortName, <<5>>, 7)
Dirs32 ==
  {[at |-> <<OtherEntry, OnFat(Short32), OtherEntry, OtherEntry, OtherEntry, OnFat(Long32), EndEntry, OtherEntry>>,
    has |-> {Short32, Long32}],
   [at |-> <<OnFat(Short32), EndEntry, OnFat(Long32), EndEntry, EndEntry, EndEntry, EndEntry, EndEntry>>, has |-> {Short32}],
   [at |-> <<OtherEntry, OtherEntry, OtherEntry, OtherEntry, OnFat(Long32), OtherEntry, OtherEntry, OnFat(Short32)>>,
    has |-> {Short32, Long32}]}
InRoot(data, entries) ==
  InSectors(data, SubSeq(entries, 1, 4)) @@ InSectors(data + 10, SubSeq(entries, 5, 8))
On32(d, room, mark) ==
  [type |-> "FAT32", sectsPerClust |-> 2, fats |-> 2, perFat |-> 8, rootCluster |-> 2,
   data |-> 17, fatAt |-> 1, fat |-> Links({<<2, 7>>, Long32.chain, Short32.chain}, mark),
   dir |-> InRoot(17, d.at), files |-> d.has, buffer |-> room, last |-> 29]
Volumes32 ==
  {On32(d, 4, 10) : d \in Dirs32}
  \cup {On32(OneOf(Dirs32), room, m) : room \in {1, 3}, m \in {11, Ones}}

(* exFAT: files with a chain and without, names of files that are gone,    *)
(* either FAT in use.                                                      *)
LongEx(fatless) ==
  [name |-> LongName, chain |-> <<3, 4, 5>>, size |-> 20, intact |-> TRUE, fatless |-> fatless]
ShortEx == [name |-> ShortName, chain |-> <<6>>, size |-> 7, intact |-> TRUE, fatless |-> FALSE]
Records(f, used) ==
  <<[kind |-> "stream", used |-> used, first |-> f.chain[1], size |-> f.size,
     contiguous |-> f.fatless],
    [kind |-> "name", used |-> used, name |-> f.name \o [i \in 1 .. RecordLength - Len(f.name) |-> " "]]>>
DirsEx(f) ==
  {<<OtherEntry>> \o Records(f, TRUE) \o Records(ShortEx, FALSE) \o <<OtherEntry>> \o Records(ShortEx, TRUE),
   Records(ShortEx, TRUE) \o <<OtherEntry>> \o Records(f, TRUE) \o Records(ShortEx, FALSE) \o <<OtherEntry>>}
OnEx(f, d, room, mark, second) ==
  [type |-> "exFAT", sectsPerClust |-> 2, fats |-> 2, perFat |-> 8, rootCluster |-> 2,
   second |-> second, fatOffset |-> 1, partition |-> 2, data |-> 20,
   fatAt |-> IF second THEN 11 ELSE 3,
   fat |-> Links({<<2, 7>>, ShortEx.chain} \cup (IF f.fatless THEN {} ELSE {f.chain}), mark),
   dir |-> InRoot(20, d), files |-> {f, ShortEx}, buffer |-> room, last |-> 32]
VolumesEx ==
  {OnEx(LongEx(TRUE), d, 4, 11, TRUE) : d \in DirsEx(LongEx(TRUE))}
  \cup {OnEx(LongEx(FALSE), d, 3, Ones, FALSE) : d \in DirsEx(LongEx(FALSE))}
  \cup {OnEx(LongEx(b), OneOf(DirsEx(LongEx(b))), 1, 11, FALSE) : b \in BOOLEAN}

MCFatVolumes == Volumes16 \cup Volumes32 \cup VolumesEx

(* Start: every file system, with directories, data areas, clusters and    *)
(* FATs at and past the limits of a byte and a word; directories that do   *)
(* not fill their sectors; either FAT of exFAT; a file in pieces, too      *)
(* short, or missing; drives with and without packets.                     *)
BldrFile(n, split) ==
  [cluster |-> 3, split |-> split, gap |-> 2, sectors |-> [i \in 1 .. n |-> [stage |-> i]]]
BldrMedium(type) ==
  [loader |-> "biosloader", type |-> type, hidden |-> 2, reserved |-> 1, fats |-> 2, perFat |-> 1,
   entries |-> IF type \in {"FAT12", "FAT16"} THEN 4 ELSE 0, perCluster |-> 2, rootCluster |-> 2,
   label |-> TRUE, overwritten |-> FALSE, backup |-> 0, fatOffset |-> 0, second |-> FALSE,
   drive |-> [edd |-> TRUE, others |-> TRUE, cylinders |-> 10, heads |-> 2, track |-> 6],
   files |-> [n \in {"BLDR"} |-> BldrFile(4, 9)]]
MCBldrMedia ==
  {[BldrMedium(t) EXCEPT !.hidden = h, !.entries = e, !.fats = f, !.perFat = p, !.drive.edd = b] :
     t \in {"FAT12", "FAT16"}, h \in {0, 12, 18}, e \in {3, 4}, f \in {1, 2}, p \in {1, 5},
     b \in BOOLEAN}
  \cup {[BldrMedium("FAT32") EXCEPT !.hidden = h, !.fats = f, !.perFat = p, !.rootCluster = r,
                                    !.overwritten = o] :
          h \in {1, 12}, f \in {1, 2}, p \in {1, 6, 16}, r \in {2, 5, 6}, o \in BOOLEAN}
  \cup {[BldrMedium("exFAT") EXCEPT !.hidden = h, !.reserved = 6, !.fats = f, !.perFat = 2,
                                    !.second = f = 2, !.fatOffset = 2, !.rootCluster = r] :
          h \in {0, 12}, f \in {1, 2}, r \in {2, 7}}
  \cup {[BldrMedium(t) EXCEPT !.files = g] :
          t \in {"FAT12", "FAT16", "FAT32", "exFAT"},
          g \in {<<>>} \cup {[n \in {"BLDR"} |-> BldrFile(k, s)] : k \in {1, 4}, s \in {2, 4}}}
  \cup {[BldrMedium(t) EXCEPT !.files = [n \in {"BLDR"} |-> [BldrFile(4, 9) EXCEPT !.cluster = 19]]] :
          t \in {"FAT32", "exFAT"}}

ASSUME MCMade == MediaMade

-----------------------------------------------------------------------------
Idle(p) == program # p

(* The programs that do not run have one state.                            *)
MCInit ==
  /\ program \in Programs
  /\ Idle("bincompress") => inSize = 0
  /\ Idle("loader") => vol = Standard
  /\ Idle("files") => fatVol = OneOf(FatVolumes)
  /\ Idle("start") => medium = OneOf(Media)
  /\ DpInit /\ ToolInit /\ BiosInit /\ BiosFatInit /\ BldrInit

MCNext ==
  /\ UNCHANGED program
  /\ \/ program = "diskpart" /\ DpNext
        /\ UNCHANGED <<toolVars, biosVars, biosFatVars, startVars>>
     \/ program = "bincompress" /\ ToolNext
        /\ UNCHANGED <<dpVars, biosVars, biosFatVars, startVars>>
     \/ program = "start" /\ BldrNext
        /\ UNCHANGED <<dpVars, toolVars, biosVars, biosFatVars>>
     \/ program = "loader" /\ BiosNext
        /\ UNCHANGED <<dpVars, toolVars, biosFatVars, startVars>>
     \/ program = "files" /\ BiosFatNext
        /\ UNCHANGED <<dpVars, toolVars, biosVars, startVars>>

MCSpec ==
  /\ MCInit
  /\ [][MCNext]_<<program, dpVars, toolVars, biosVars, biosFatVars, startVars>>
  /\ WF_biosVars(program = "loader" /\ BiosStep)
  /\ WF_biosFatVars(program = "files" /\ FatCallStep)

(* The boot ends, and so does every call of a file reader: BiosEnds and    *)
(* FatCallEnds in one, as the program that does not run is at its start    *)
(* and satisfies neither side.                                             *)
LoaderEnds == (stage # "entry" \/ InFatCall) ~> (BootOver \/ FatCallOver)
=============================================================================
