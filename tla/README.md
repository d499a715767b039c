# Verification of the Windows CE boot loaders

TLA+ models of WINCELOADER, the TLC runs that check them on small instances,
and TLAPS proofs of what matters most about them.  Module
names follow the source files; `PROJECT.json` maps every definition to the lines it models
and lists runs, mutants, findings, hazards and theorems.

## 1. The system

The repository holds several generations of programs that start a Windows CE
kernel image on a PC.  None of them is multi-threaded: each is a single
processor that runs from reset (or from DOS) to the jump into the image.  What
makes them hard is failure (any disk read, any byte on a cable), reuse of
buffers and handles along many exit paths, and arithmetic at limits.

| Part | State it keeps | Operations | Talks to |
|---|---|---|---|
| NLoader boot heap (`NLoader/core/common/heap.c`) | headers threaded through RAM, the start pointer | BootHeapInit, BootAlloc, BootFree | INI loader and splash code allocate from it |
| NLoader FAT reader (`core/filesys/bldr_fat16.c`, `bldr_fat32.c`) | open file, read buffer, one cached FAT sector | FSInit, FSOpenFile, FSReadFile, FSRewind, FSCloseFile | BootDisk_Read below, BOOT.INI / splash / image above |
| NLoader boot sequence (`core/common/main.c`, `nldr/main.c`, `args.c`, `download.c`, `core/display/Splash.cpp`) | which file is open, heap buffers, image in RAM, launch address | BootMain, InitializeFileSys, LoadIniFile, SetDisplayMode, DrawSplashImage, LoadBINFile, jump | FAT reader, heap, BIOS |
| NLoader INT 13h access (`core/filesys/FileSys.cpp`) | drive geometry, boot parameter block | BootDisk_Init, Lba2Chs, BootDisk_Read | BIOS |
| INI parser (`iniparser/parser.c`, the same text in NLoader, CLoader and biosloader) | where the text of BOOT.INI lies | GetIniString, GetIniWord, GetIniLong, GetIniBool, ... | boot sequence |
| NLoader display (`core/display/display.cpp`, `nldr/args.c`, `nldr/main.c`) | the mode list's best entry, the boot arguments | SetUserBootArgs, SetDisplayMode, FinalBootArgsSet | BIOS, BOOT.INI |
| Boot sectors of NLoader, CLoader, wecloader and biosloader | a sector number in two 16-bit registers | compute the places, find the loader, read it, jump | BIOS |
| Second stage (`xldr` of NLoader, CLoader and wecloader) | one sector buffer, the place in the image | FileSystemInit, FileSystemRead, XldrMain's checks | BIOS, the boot sector's copy of the parameter block |
| log, BIOS thunks, pci, hardware query | local | sequential helpers | boot sequence |
| CLoader | as NLoader | as NLoader | as NLoader |
| wecloader (`wecloader/bldr`) | driver handles, saved settings, download type | POWERON, CONFIG, DOWNLOAD, PRELOAD, LOAD_ULDR, LOAD_OS, RUN | KITL/Ethernet, partition driver, RTC |
| UEFI loader file reads (`UEFIloader/.../bootfilesystem.c`) | file handle, 2 MB read buffer with index, length, position | BootFileSystemInit, Open, Rewind, Read, Close | EFI_FILE_PROTOCOL below, NK.BIN's loader above |
| UEFI loader (`UEFIloader/.../CELoader.c`, `main.c`, `config.c`, `loados.c`, `run.c`, ...) | settings in a firmware variable, pages, boot arguments, launch address | as wecloader, less DOWNLOAD and the menu | firmware |
| biosloader start (`startup.asm`, FSInit) | first data sector, places of directory and FAT | StartUp, FSInit | boot sector, FAT readers |
| biosloader FAT readers (`FAT16`, `FAT32`, `exFAT`, `Floppy/bldr_floppy.c`) | open file, read buffer, one FAT sector | FSInit, FSOpenFile, FSReadFile, FSRewind, FSCloseFile | BIOS below, decoder above |
| biosloader decoder (`Main/decoder.c`) | block in hand, rest of it, place in the file | OpenFile, ReadFile, CloseFile | FAT readers below, settings / bitmap / image above |
| biosloader loader (`Main/main.c`, `ini.c`, `splash.c`) | settings, up to three image names, launch address | blMain to the jump | decoder, keyboard |
| DiskPart (`biosloader/utilities/DiskPart`) | open disk and partition, index of the partition; on the disk the table and boot sectors | SELECT, CREATE, DELETE, ACTIVE, FORMAT, CLEAN, ZERO, ... | the storage manager of Windows CE |
| bincompress (`biosloader/utilities/bincompress`) | two open files, a block | `/C` packs, `/D` unpacks | C library, cecompress; its files are the decoder's |
| cesys | none | write a boot sector, keep the parameter block | disks |
| loadcepc link (`loadcepc/ppfs.c`, `mdppfs.c`) | NoPPFS, bLastOpWasWrite | request/reply over the parallel port | host file server |
| loadcepc tool and image load (`ppfstool.c`, `main.c`, `xmsapi.c`) | local files, XMS block, section pointer | get / refresh files, load, Ctrl-C, start | link, DOS, XMS driver |

### Interactions

A boot sector reads a stretch of sectors and jumps to them: to the second stage of NLoader, CLoader
and wecloader, which reads the BIN image of the loader from the same file, or to biosloader itself,
which is handed the first data sector in registers.  `BootMain` finds the image's table of
contents, sets up the heap between `ulRAMFree` and the boot stack, and
calls `OEMBootInit` and `OEMBootMain`.  These open BOOT.INI, the splash bitmap
and the BIN image one after another through the one open-file record of the
FAT reader; BOOT.INI and the bitmap use heap buffers, the image goes to its own
addresses.  The last record holds the start address.

### Hard behaviours, and what makes each part correct

- *Boot heap*: first fit cut from the top of a block, merging on free through
  `prevSize`, stale cookies, `size_t` wrap.  Correct: owned blocks never
  overlap each other or a header, no memory is stranded, a refusal means there
  is no room, a second free is harmless, even with a header overwritten.
- *FAT reader*: the file is read by runs of contiguous clusters, a run by
  buffer-fulls, a buffer-full by calls of any length; a read may fail in any of
  them.  Correct: the bytes delivered are the file's, in order, once; nothing
  is written past the read buffer; every call returns.
- *Boot sequence*: thirteen early exits share one open file and three heap
  buffers.  Correct: only a whole image is started, no file is opened over an
  open one, buffers are returned, the boot ends.
- *wecloader*: handles and settings across states, downloads in chunks.
  Correct: only a whole and placed image is run; each state releases what it
  opened; the countdown ends.
- *loadcepc link*: lost host, corrupt byte, echoed byte.  Correct: a call that
  does not fail returns what the host answered.
- *loadcepc tool / image load*: failure and Ctrl-C anywhere.  Correct: the XMS
  block is given back on every way to DOS; a file said to be up to date is.
- *UEFI loader*: any firmware call may fail, headers lie across the end of the
  read buffer, memory behind the image is cleared, power fails and a loader that returned
  is started again.  Correct: the buffer is a plain stream; only a whole image is
  entered; nothing is written outside allocated pages; a boot stops only for a cause.
- *DiskPart*: entries are inserted, shifted and compacted by hand, and the disk is seen
  through two lists.  Correct: partitions in order, disjoint, none lost or changed
  by another one's command; no volume mounted that has no entry.
- *INI parser*: every question scans the bytes again, and only some loops look where the file
  ends.  Correct: the value of the first line with that name, cut to the buffer, and nothing else.
- *Display*: the mode wished for may be missing or refused.  Correct: the best other one is
  tried, and the image is told the mode the screen is in; a mode the BIOS refuses to set is told all
  the same, and no other is tried.
- *INT 13h access*: ten bits of cylinder in two bytes, packets of a few sectors, one of which
  may fail.  Correct: what a read says it delivered is the sectors asked for.
- *Boot sectors and second stage*: two programs compute the same places from the parameter block, in
  registers of 8, 16 and 32 bits; headers of the image lie across sectors; numbers wrap.
  Correct: on every volume that has what a stage needs the stage starts the next one; what
  is jumped to is a whole image.
- *biosloader*: an entry of the FAT may lie across two sectors, directories and files go on in other clusters,
  end marks differ by file system, files are packed in blocks and read in pieces that cross them,
  up to three images are tried one over another.  Correct: the right file and bytes; only a whole image
  is jumped to; every call and boot ends.
- *bincompress*: any call fails, `fclose` is not looked at.  Correct: when packing and
  unpacking both say they succeeded, the result is the original.

## 2. Modules

| Module | Models | Composed with |
|---|---|---|
| `BootSector` | the boot sectors of all four loaders on volumes of every file system | extended by `Xldr` and `BldrStart` |
| `Xldr` | the second stage, from the jump into it to the jump into the loader | extends `BootSector` |
| `BlockAllocator` | what a heap promises (abstract) | refined by `BootHeap` |
| `BootHeap` | `heap.c` at the level of headers and addresses | `BlockAllocator` |
| `FatReader` | `bldr_fat16.c` from FSInit to FSCloseFile, the FAT cache, failing reads | |
| `NLoaderBoot` | BootMain to the jump, relying on what the two above promise | |
| `NLoaderProofs` | TLAPS proofs about `BootHeap`, `NLoaderBoot`, `FatReader`, `BiosDisk` and `NLoaderScreen` | |
| `IniParser` | `parser.c`: every question over the bytes of BOOT.INI | |
| `NLoaderScreen` | the video mode from BOOT.INI to the boot arguments | |
| `BiosDisk` | `FileSys.cpp`: reads split into packets or single sectors | |
| `PpfsLink` | one call of `ppfs.c` over `mdppfs.c`, the host and the cable as environment | its calls are the ones `CepcTool` makes |
| `CepcTool` | the -g, -r and -u commands of loadcepc over the files of host and DOS | |
| `CepcLoad` | loadcepc loading an image: XMS block, sections, Ctrl-C | |
| `CepcProofs` | TLAPS proofs about `CepcLoad`, `CepcTool` and `PpfsLink` | |
| `RtcClock` | OEMBootGetTickCount of wecloader on a clock that ticks while it is read | extended by `WecConfig` |
| `WecConfig` | wecloader's settings on disk, the countdown, the menu | extends `RtcClock`, extended by `WecBoot` |
| `WecBoot` | wecloader's boot states, downloads and loads, OEMBootRun | the whole program, one boot |
| `WecBootProofs` | TLAPS proofs about `WecBoot` and `WecConfig` | |
| `ByteStream` | what reading an open file promises (abstract) | refined by `UefiFile` within `UefiBoot`, and by `BiosDecoder` |
| `UefiFile` | `bootfilesystem.c`: the buffered file of the UEFI loader | extended by `UefiBoot` |
| `UefiBoot` | the UEFI loader from UefiMain to the jump, switched off and started again | `UefiFile`, `ByteStream` |
| `UefiProofs` | TLAPS proofs about `UefiBoot`, the refinement of `ByteStream` among them | |
| `PartTable` | the functions of `diskpart.cpp` on a partition table in memory | extended by `DiskPart` |
| `DiskPart` | DiskPart's commands over the table on the disk and the storage manager | `PartTable` |
| `DiskPartProofs` | TLAPS proofs about `PartTable` and `DiskPart` | |
| `BldrStart` | biosloader from its boot sector to the places its readers begin with | `BootSector`, `BiosParms` |
| `ChainProofs` | TLAPS proofs about `BootSector`, `BldrStart` and `Xldr` | |
| `BiosParms` | FSInit's computation of those places | extended by `BldrStart` and `BiosFat` |
| `BiosFat` | the FAT12, FAT16, FAT32 and exFAT readers of biosloader | `BiosParms` |
| `XpressFile` | the format of packed files | extended by `BinCompress` and `BiosDecoder` |
| `BinCompress` | bincompress, packing and unpacking | `XpressFile` |
| `BinCompressProofs` | TLAPS proofs about `BinCompress` | |
| `BiosDecoder` | `decoder.c`, plain and packed files through one interface | extended by `BiosBoot`, refines `ByteStream` |
| `BiosBoot` | blMain to the jump | `BiosDecoder` |
| `BiosProofs` | TLAPS proofs about `BiosBoot` and `BiosDecoder`, the refinement of `ByteStream` among them | extends `BinCompressProofs` |
| `MCNLoader` | reader, boot, heap, parser, screen, disk and chain side by side; `Programs` says which run | all seven |
| `MCCepc` | `CepcLoad`, `CepcTool` and `PpfsLink` side by side | all three |
| `MCBiosloader` | DiskPart, bincompress, start, loader and readers side by side | all five |
| `MCWecBoot`, `MCUefi` | constants for TLC | |

CLoader's sources are NLoader's under other directory names, the floppy loader of biosloader
repeats the fixed disk's, and the four loaders' boot sectors come in identical pairs.
A definition models all copies of the text it translates; where one copy
is covered by several definitions, the map names another copy for some of them, so that it shows which files
a definition speaks for.

### BootHeap

`hdr` maps the address of every header whose cookie is intact to its fields, so
writing a cookie adds to its domain and clearing one removes from it.  A block's
size includes its header, as in the code.  `BootHeapInit`, `BootAllocRefused`,
`BootAllocBegin / Next / Split / Whole / Fail` and `BootFree`, `BootFreeAgain`,
`BootFreeNull` are the three functions; BootAlloc's loop advances one header per
step with `cursor` as `pBlock`.  `Overrun` is a client that writes past its
block and destroys the next header (Splash.cpp:127 can).  `live` is what clients
own, `released` what they may free again.  Assumptions: payload bytes never spell
a header cookie where a stale pointer looks for one; a heap region is not
between one and two headers long.

### FatReader

A byte of the disk is named by its place.  `disk.chain` is the file's clusters,
`disk.end` the mark after them.  `FSReadFile` is split at its loop: serve from
the buffer, drain it, decide which run comes next, walk the FAT, load.  Each
FAT lookup and each load may fail; the cache keeps the code's flaw that a failed
FAT read leaves the old sector under the new number.  `got` and `right` record
what the client received and whether it was the file's; `trust` is
dropped when a call fails, so a property may say "as far as calls succeed".

### NLoaderBoot

`stage` names the place in `BootMain` and its callees.  The file system is what
FatReader establishes (one open file; a read delivers or fails; the end
of a file is found only after the slack of its last cluster), the heap what
BootHeap establishes.  An image is records, the number of items the file really
holds (so it may be cut off anywhere), and what lies behind it.  Ways to end:
`jumped`, `halted` (OEMBootPowerOff) and `wild` (a call through an unset pointer).

### IniParser, NLoaderScreen, BiosDisk

`IniParser` has the file twice: `lines` as its author sees it, `text` as the parser does, byte by
byte with the 0 that LoadIniFile puts behind it.  A call scans `text` with the loops of
`parser.c`; `ParserRight` compares its answer with the one read off `lines`, a string's zeros with the bytes that are left
but for the last, which `StringFillsBuffer` is about.  `NLoaderScreen` follows the six video
settings through SetUserBootArgs, the search over a list of modes that may be unusable or
refused, main's second attempt and FinalBootArgsSet; a refused mode is told to the image all the same, while the screen stays
in text, and `ScreenTrue` says so.  `BiosDisk` reads through a drive with or without
the extended services; a read is a sequence of INT 13h calls, each of which may fail, and
`DiskReadTrue` says which sectors lie in the buffer when it returns TRUE.  It is stated for drives that answered
BootDisk_Init's questions.

### BootSector, Xldr, BldrStart, BiosParms

A volume is what a formatter makes, and the true places follow from its parameter block; a
sector number is a pair of registers of `ByteSize^2`.  `SectorLoads` lists what a boot sector silently
needs of a volume: the loader in the first sector of the directory and in one piece as far as it is read, as many
sectors behind its first on the drive as the boot sector asks for (`READ_LENGTH`, whatever the loader's
length: a loader at the very end of a drive is not booted), packets or a directory and a loader in reach of
the ten bits of a cylinder and of a division whose quotient must fit a word, and on FAT32 and exFAT
what the registers can hold.  `ChainLoads` is what the second stage needs besides, and the properties say that
this is all: with it a stage starts the next one unless a read fails.  `link` is the place in the chain; `wild` is a jump to what is not a stage, or a stage written over.
An image is cells, a few to a sector, so a header may lie across two.  In
`BldrStart` the boot sector counts up from the parameter block and FSInit down from the first data
sector: `BldrStarts` says that they name the same places.

### PpfsLink

`pc` is the field of the reply that is read next.  A symbol of the model is a
field of a message: signature, opcode, length, value, one unit of data, sum,
stop.  Numbers count modulo `Byte`, so the sum of a reply with one damaged field
is always wrong, as an 8-bit sum of bytes is.  `NoPPFS` is sticky: once set,
every `OEMParallelPortGetByte` returns -1 (`FF`).  The host answers a request,
or rejects it with bit 15 in the opcode, or says nothing; the last byte sent may come
back first.  `wild` is entered when `read_data` passes the end of the caller's
buffer, which only a damaged length can do.  `answer`, `start` and `hurt` are
history.  Assumptions: data never spells the stop signature; the host drops
the rest of a reply when the next request comes.

### CepcTool and CepcLoad

A program ends at the DOS prompt (`tpc` or `lpc` = `"dos"`) with its variables
gone; what stays is the disk, the host's files and searches, and the XMS
driver's block.  `CepcTool` follows `GetFile`'s loop and `GetOneFile` through
`check`, `create`, `ropen`, `read`, `next` and `close`; each call to the host
may fail, for once or for good.  The content of a file is the time the host
wrote it, or `Cut`.  The DOS clock is arbitrary.  `CepcLoad` follows
`LoadImage` with the XMS block byte by byte; a byte names the section that was moved
there.  The parallel and serial transports differ from a file in which steps
may fail.

### RtcClock, WecConfig, WecBoot

Three layers of one program, composed by EXTENDS.  `RtcClock` has a step per CMOS register; between
any two of them the clock may tick, once per attempt, because an attempt takes microseconds.  The
clock is followed only during the countdown: before and after it, its
variables rest.  `WecConfig` keeps the data sectors and the sector behind them; a sector is a
configuration, the loader's image, or unsigned.  Boot device and update flag stand for all settings.
`pc` is the value OEMBootLoad is called with, or a place inside the state.  In
`WecBoot` each handler is one action per driver call, with a failing alternative, and `held` is the
set of handles that are open, so a way out that forgets one is seen.  `rc` is what the state
will return.  `placed`, `saved`, `waited` and `unseen` are history.
Assumptions about the libraries that are not in the repository: a BINFS or .bin
image loads only if it is whole; formatting empties every partition and may clear the data
sectors; deinitialising the download driver also closes its transport.  The host
asks for a jump only to an image still in memory.  The disk functions of
the settings open and close within one step.

### UefiFile, ByteStream, UefiBoot

`UefiFile` names a byte by its offset in the file.  `bufAt` is the byte at the start of
`gpFileBuffer`, and a read's loop is two steps, `CopyFromBuffer` and `FillBuffer`, so that the buffer can
run out anywhere in a header.  Each firmware call may fail; at the end of the
file Read succeeds with no bytes, which is what lets the loop spin.
`ByteStream` is the promise: each call hands out the bytes that follow those handed out before.
The refinement maps its place to `gCurFilePosition` less what the buffer still holds.

In `UefiBoot` `stage` is the boot state and the place in its handler.  A byte of RAM holds a
byte of the file, zero or `Junk`; `owned` is the set of pages the loader allocated, `written`
the addresses it wrote to.  `PowerCycle` may come between any two steps and leaves only
the firmware variable; `StartedAgain` runs a loader that returned, over the pages it left.
As in the code: only the first byte of the signature decides (`SignRight`), a NULL handle is
closed when nothing was opened (`"lost"`), settings of another version set nothing
and the loader spins, a loader without the page of its arguments goes on with them at
an address it does not own and the GDT at 0, ExitBootServices is not tried again.
Abstractions: a record's sum is right exactly if its bytes are the file's and the file has
the right sum; the search for a display mode is left out; the menu is unreachable (`FASTBOOT_NOMENU`).
`Physical` clears bits 31 and 29 of an address and keeps bit 30, as `BootImageVAtoPA` does.  `PagesFor` adds an
image's length and its place in the page in 32 bits, as `init.c:255` does, so that a sum that wraps asks for too few
pages; `BufferAt` leaves a start in page 0 as it was (`init.c:268`).

### PartTable, DiskPart

A table is a function from four slots to entries; `GapAfter`, `InsertAt`, `NewEntry`,
`CompactRound` and `CompactMBR` are the loops of `diskpart.cpp` in their order, with
32-bit sector numbers (`DWord`).  `DiskPart` has an action per command.  `listed` and `mounted` are
the storage manager's view: dismounting empties them, a refresh reads the table
again.  `gPart` is the index `SELECT` counted in that list and the commands use in the
table.  So, as in the code, with a hole in the table `DELETE`, `ACTIVE` and the FIX commands act on
another entry than the one selected, and on an empty one they address sector 0; `INACTIVE` does
nothing; the partition type is always written to entry 0; a failing `CREATE` or `DELETE` leaves the
store dismounted.  Boot code over sector 0 makes the table any of `JunkTables`.

### XpressFile, BinCompress, BiosDecoder, BiosBoot, BiosFat

A cell stands for a byte of the original, a number, or a byte of a compressed block; the compressor is
external and makes one to `MaxBlock` cells of a block.  `BinCompress` has every call of the C library fail, a
failing write leaving some of what it was given.  `BiosDecoder` is the loader's file access over a
FAT reader that promises what FatReader shows; its work area, the block in hand and what is left of it persist
from file to file, as in the code.  `BiosBoot` adds blMain: hook, settings, splash bitmap, keyboard and up to three
images.  `BiosFat` names sectors by their place and an entry of the FAT by its half bytes, so that
a FAT12 entry may be split.  The readers of FAT12 and FAT16 go through all entries of the root directory without looking at the
mark of its end, so their volumes may have a file behind that mark and it is found; formatters leave none there.  What a read brings into the reader's buffer is part of it (`Arrived`): all of it
for FAT32, whose buffer is that of the BIOS calls, and one sector for the others (finding 2).  `FilesRight` therefore
speaks of the bytes that arrived, and says that all do on FAT32 and where a read takes one sector; the
reader below `BiosDecoder` is one of these.  Chains with a run that ends just below the file's first cluster are left out of
its volumes: the flaw of finding 1 is in these readers too.

## 3. Runs

| Run | Shows | Bounds |
|---|---|---|
| `nloader` | reader: right bytes in order, bounded over-read, no buffer overflow, calls return; boot: only a whole image is started, one file at a time, buffers returned, the boot ends; heap: layout, no leak, merging, refusals justified, double free harmless, refinement of `BlockAllocator`; parser: right values; screen: the best mode, and the image is told; disk: right sectors; chain: every stage starts the next | reader: files of 1-3 clusters on 3 clusters in every order (so one to three runs, forward and backward), 2 sectors per cluster, buffers of 1, 3 and 4 sectors (smaller than, unaligned with, as large as two clusters), reads of 3 and 8 bytes with a rewind of 2, one failure anywhere, `MaxRead` 17 past the end of the longest file. Boot: five kinds of volume; images of up to two records over two addresses (same or different), cut off at every item, zero or other slack; two failed reads, two slack reads, two bitmap reads. Heap: regions with no heap, one minimal block and an 88-byte arena of four minimal blocks, so a block has free or owned neighbours on either side and both merges and both splits happen; requests of a minimal, a middle, a nearly full and a wrapping size; one destroyed header. Parser: files of one and two lines, names that begin one another, comments, no `=`, no line end. Screen: lists of up to three modes, some of no use. Disk: drives with and without EDD, with 2, 600 and 1024 cylinders, packets of two sectors. Chain: every file system, three loaders, FATs, clusters, hidden sectors and data areas at and past the limits of a byte (`ByteSize` 4) and of a cylinder number (10, on drives of 10 and 14), labels, a FAT length a BIOS wrote over, names missing, images with a wrong sum, out of range, wrapping, cut; one failing read |
| `ini_string` (violation) | a string and its zeros fill the buffer | parser alone; values of two bytes, buffers of two and four |
| `fat_reader_runs` (violation) | a run that ends just below the first cluster restarts the file | reader alone, no failures |
| `cepc` | load: the XMS block is given back, a whole image is started; tool: a command that met no failure delivers, no search left open; link: a call returns the host's answer or fails, fails only if hurt; a load and a call to a lost host end | load: block of 6 bytes, chunks of 2, all images of up to two sections of 0 to 3 bytes at six addresses in, astride and outside it, and a size whose end wraps. Tool: two files and a plain name; four host times, two in one pair of seconds, so a file is rewritten before, during and after a copy. Link: a file of 3 units read in chunks of 2, so rread takes one chunk, two, or meets the end of the file; ropen answers two handles; one damaged field, a disconnect anywhere |
| `cepc_tool_whole` (violation) | a cut copy is called up to date | tool alone |
| `wec_boot` | what runs is whole, handles are returned, a store download fills every segment, saving keeps the image sector, clock and countdown are right, the boot ends | six layouts of two data sectors (with, without, with an old configuration, image first, last or absent); two segments of one and two sectors, in order and by turns; RAM images of two records; a countdown of two; hours of four seconds, so that minute and hour end between any two reads |
| `wec_boot_saved` (violation) | settings said to be saved are not found again | as above |
| `biosloader` | DiskPart: order, entries, disjointness kept by CREATE and DELETE, one active partition, no stale mount; bincompress: a success is the original; start: two computations name the same places; loader: right bytes, what is jumped to is whole; readers: right file, and right bytes of what arrives in the buffer; every boot and call ends | DiskPart: six sectors, a table with a hole and an extended, active partition, sizes 0 and 1, places in a partition or free; `Types` is one type, so the code's check for two extended partitions finds nothing. bincompress: files of 0 to 5 cells, blocks of 2. Start: volumes of every file system at the limits of their numbers. Loader: image, bitmap, settings and user's image varied one at a time, plain and packed, cut anywhere with zeros or other cells behind, one failing read, buffers of 4. Readers: FAT12 with an entry across two sectors, FAT16, FAT32 with a root of two clusters, exFAT chained and contiguous with either FAT, every end mark, bad and reserved marks, buffers of 1, 3 and 4 sectors against clusters of 2, reads of 3 and 17 bytes, a rewind of 3, one failing read |
| `disk_part_extent` (violation) | CREATE makes an entry that lies behind the disk or overlaps | DiskPart alone, without the raw commands |
| `fat_sectors_lost` (violation) | of several sectors read at once only the first reaches the reader's buffer | readers alone |
| `uefi_boot` | only a whole image is entered, memory respected, RAM's top, stops only for a cause, a whole file is read to its end, the buffer is a stream | 5 good and 8 bad images (wrong sign and sum, records below, above, across the end and wrapping, images over the arguments, above RAM, wrapping) and no file; a buffer of 3 bytes against headers scaled to 2 and records of 0 to 4, so each header is split somewhere; 8 pages of 4 bytes, images that start inside a page; memory maps of three regions in every order; four stored settings; two failing calls, two starts |
| `uefi_short_file` (violation) | a file cut off anywhere keeps the loader reading | good images cut at every byte, no failing call |

In the three runs that join programs the variable `program` chooses one at the start
and the others rest, so a state is a state of one program; the join saves nothing but a
configuration.  Each property of a passing run has a mutant: a change to one mapped
definition that a plausible bug in the code would make, under which TLC finds the property
violated.

Type invariants are conjuncts of a property of their module: `FatTypeOK` of `DeliversFile`, `BootTypeOK` of
`BuffersReturned`, `LinkTypeOK` of `AnswersTrue`, `LoadTypeOK` of `LoadRight`, the `ToolTypeOK`s of `SearchClosed`
and `RoundTrip`, `WecTypeOK` of `BootEnds`, `DpTypeOK` of `OneActive`, `UefiTypeOK` with `FileTypes` of `StartedWhole`,
`DecoderTypeOK` and `BiosTypeOK` of `BootsRight`, `FatTypesOK` of `FilesRight`; `BootHeap`'s `TypeOK` is
proved.  Some properties join what one mutant run can check together:
`DeliversFile` holds `StaysInBuffer`, `OverreadBounded` and `ReadInsideSucceeds`; `ClockTrue == TickTrue /\ CountdownFull`;
`PartitionsKept == EntriesKept /\ OrderKept /\ DisjointKept`; `LoadRight == XmsGivenBack /\ MemoryAtLaunch`;
`ChainBoots == ImageRight /\ StagesWork`; and the liveness of joined programs is `ProgramEnds` (reader, boot, chain),
`CommandEnds` (load, link) and `LoaderEnds` (loader, readers), one leads-to for all where only one can run.

`MemoryRespected` is stated for a loader that got the page of its arguments (`args.valid`), since without it it is
false by what the code does (the GDT goes to address 0).  `StartedWhole` says the memory behind the image is
clear up to a page and a word below the 4 MB of `ExtraLength`: the length to clear is rounded up to a
page from the image's start and then down to words, so that is all the code promises.  Both hold for
images whose length, place in the page and memory to clear add up in 32 bits, since the code asks for
too few pages when they do not, and that `BootImageVAtoPA` maps to themselves (`Layout`), the first of them also for images whose records overlap; that an image is whole in
memory needs `RecordsApart`.  `MCUefi` has TLC check that its files satisfy both.
`RamTopClear` is stated for a top that was read from the map, not made up.

### Findings

1. `bldr_fat16.c:428`: "nothing read yet" is told by `CurCluster ==
   FirstCluster`; a run that ends in the cluster before the first one looks the
   same, and the file is read again from its start.
2. `Fixed/Main/bios.asm:120` (biosloader): a read goes to 0xD000, and one sector of it is copied to the
   reader's buffer when that lies elsewhere, as FAT12's, FAT16's and exFAT's does; of the sectors they read at
   once only the first arrives.
3. `ppfstool.c:401`: a destination truncated before `ropen` failed, or by
   Ctrl-C, or by a full disk, is later "Up to date".
4. `config.c:447` (wecloader): saving on a disk without a configuration sector writes one
   sector past the data sectors, without the signature, and reports success.
5. `diskpart.cpp:972`: CREATE on a full disk with a free entry makes a partition that starts behind the
   disk; at a given place only the first sector is looked up.
6. `bootfilesystem.c:437` (UEFI): a short file is read for ever; the messages for
   it cannot appear.

7. `parser.c:225`: a value exactly as long as its buffer makes GetIniString write zeros over all memory behind it
   (the trace TLC prints); `parser.c:219`: after a shorter one the last byte of the buffer, which the comment promises as a 0,
   is not written, so a value one shorter than the buffer gets no 0 at all.  One invariant, `StringFillsBuffer`, states
   the comment, and each of the two breaks it.

Seen while modelling and not a run, mostly because no text of the repository says otherwise:

- loadcepc: the time out of WaitForStatus (`mdppfs.c:130`) reads a counter that nothing advances, so a host that
  stays connected and falls silent is waited for without end.
- NLoader: a splash bitmap whose `biClrUsed` is over 256 makes the colours' conversion run past its table
  (`Splash.cpp:127`).
- NLoader: InitializeFileSys fails on FAT12, exFAT and unknown volumes and the boot goes on to open BOOT.INI
  through unset pointers (`FileSys.cpp:112`, `wild`).  A rewind across a refill (`bldr_fat16.c:553`) would
  move the read pointer out of the buffer; no caller does that.  BootDisk_Init leaves a sector
  size of 0 when its questions are not answered (`FileSys.cpp:210`).
- NLoader's boot sector looks for `NWECLDR` and its second stage for `NWCELDR` (`xldr/filesystem.c:18`): a volume
  needs the file under both names.  The exFAT boot sector accepts only the four characters `NWEC`,
  and the second stage refuses exFAT.
- Boot sectors: on FAT32 the data area's high word is added twice and the root cluster taken as a byte;
  the length of the FAT is multiplied with a stale AH.  CLoader and wecloader set
  `Int13Ext` when the bit that allows packets is clear, so such disks are read by cylinders; past
  1023 the cylinder spoils the sector number, past 65535 the division traps.  On FAT32 they look for the flag
  in the volume's label.  CLoader leaves CX nonzero when it patches the diskette table's segment after
  it has restored the byte a BIOS overwrote.
- Second stage: the directory's length is rounded down, sectors of the disk are compared with the length
  of the volume, the file must be contiguous, sums wrap, a header of zeros is a jump to 0.
- biosloader: a boot.ini that is too long puts its 0 on the decoder's work area; a packed boot.ini is read
  raw; an image cut off with zeros behind it is taken for whole with address 0, and the backup is not tried.
- biosloader's readers: exFAT's NextSector tests the absolute sector number (`bldr_exfat.c:102`), it knows one
  end mark, so other files are read past their end without failing; a long exFAT name's second record can
  match another name; FAT16 does not skip directories and labels; FAT32 does not mask the top bits of
  a link; an extension longer than three overruns the name buffer; a failing FAT read is not noticed
  and may loop a FAT32 directory search; the FSInfo search and FAT32's deletion are dead code.
- bincompress does not look at what `fclose` returns.

### Fairness

All fairness is weak and is given to the program's own steps, since one processor
runs the program and nothing else.  `FatReader`: WF(ReadStep), a call in progress
runs on; clients need not make calls.  `NLoaderBoot`: WF(BootStep), the loader
runs until it halts or jumps.  `PpfsLink`: WF(CallStep), and nothing of the host.
`CepcLoad`: WF(LoadStep) for a load from a file; the load does not need a
read to fail in order to end.  `CepcTool`, `DiskPart`, the parser, screen, disk, bincompress and start
programs use no liveness.  Chain: WF(ChainNext).  `BiosBoot`: WF(BiosStep).  `BiosFat`: WF(FatCallStep).  `WecBoot`: the loader's
own steps and the clock go on, each weakly fair; the user may
stay in the menu for ever, so `BootEnds` counts the menu as an end, and a download call is assumed
to return.  `UefiBoot`: WF(LoaderStep); being switched off and being started again need not
happen.  `BootHeap` has no liveness property; that its search stops is part of `SearchInv` (the
cursor only moves forward over headers).

In a run that joins programs each condition is guarded by `program`.

### Deadlock

All runs say `CHECK_DEADLOCK FALSE`: a boot ends in the image or in a halt, a file can be read to
`MaxRead`, a call may wait for a silent host.  That the programs do not stop elsewhere is what
the liveness properties say.

## 4. Proofs

`NLoaderProofs` has the theorems about `BootHeap`, for every header size, request set, region set, limit and
number of destroyed headers that `HeapAssumption` allows (sizes multiple of 4,
the allocation limit well below the word size, regions as linked):

| Theorem | States |
|---|---|
| `TypeOKHolds` | `[]TypeOK` |
| `HeapInvHolds` | `[]HeapInv`, the layout |
| `NoLeakHolds` | `[]NoLeak` |
| `LiveDisjointHolds` | `[]LiveDisjoint` |
| `FailOnlyWhenFullHolds` | the action property |
| `DoubleFreeHarmlessHolds` | the action property |
| `CoalescedHolds` | `[]Coalesced` |
| `ImplementsAllocator` | `Spec => AllocatorSpec` |

The argument is one inductive invariant, `IInv == TypeOK /\ HeapInv /\ NoLeak`.
`LiveDisjoint` alone is not inductive: that a freed block may be merged with its
neighbours depends on the two sizes kept for each block agreeing (`ForwardLinks`
and `BackLinks`), that owned payloads end before the next header (`Owned`) and
that no live block is marked free; that a refusal is justified depends on the
search having passed no usable block (`SearchInv`).  `HeapInv` says these with
`Starts`, the addresses of intact and destroyed headers, as the one index set:
a destroyed header still ends the blocks before it, which is why the layout
survives.  Three lemmas carry the weight: `AbsorbLayout` (merging a free
successor), `CutLayout` (cutting from the top) and `FlagLayout` (changing
`free`).  Each action then has one lemma, and `IInvNext` combines them.
`ImplementsAllocator` maps the owned blocks to themselves: the two hand-out
steps are `Alloc`, `BootFree` is `Free`, all else stutters.  `Coalesced` is inductive given `IInv`:
BootFree marks the block, which may leave two pairs of free neighbours (`MarkApart`), and each Absorb removes
one and makes none (`AbsorbApart`); a split leaves a used block between the free rest and what follows.

`WecBootProofs` is about one boot of wecloader, for every disk, menu choice, store content, order of
records and number of RAM records that `BootAssumption` and `ConfigAssumption` allow
(the host sends each sector of each segment):

| Theorem | States |
|---|---|
| `RunsWhatIsPlacedHolds` | `[]RunsWhatIsPlaced` |
| `HandlesReturnedHolds` | `[]HandlesReturned` |
| `StoreWholeHolds` | `[]StoreWhole` |
| `ImageKeptHolds` | the action property `ImageKept` |
| `ClockTrueHolds` | the action property `ClockTrue` |

The first three follow from one invariant, `IInv == HeldInv /\ ResultInv /\ PlacedInv /\
StoreInv`.  What is open when a state returns depends on where in it the code was,
so `HeldInv` says it for every place; what the next state is depends on `rc`, so `ResultInv` says which
results each way out can carry; `PlacedInv` ties a result RUN to memory; and `StoreInv`
says that the first `next` records lie in their segments and that the handle in use is the one of
the record in hand.  `ImageKept` rests on the lemma that a search which stops at an image is not
written to, and on `SectorInv`: the sector behind the data sectors, where a fruitless search
ends, holds no image.  `ClockTrue` has an invariant of its own, `ClockInv`: no tick is lost between two calls
(`CountInv`), and a register that was read agrees with the clock as long as no tick came (`ReadInv`), so that
two equal readings of the second enclose a minute that belongs to them.  The arithmetic, over an hour of
any length, is in `SecondAdvances`, `SinceIsElapsed` and `SuccMod`.

`CepcProofs` is about loadcepc, for every image, memory block, set of files, call over the link and moment of a failure:

| Theorem | States |
|---|---|
| `LoadRightHolds` | `[]LoadRight` |
| `SearchClosedHolds` | `[]SearchClosed` |
| `UpdateDeliversHolds` | the action property `UpdateDelivers` |
| `AnswersTrueHolds` | `AnswersTrue`, an invariant and two action properties |

The XMS block is back in DOS (`XmsGivenBack`) because at every place `BlockInv` relates the handle the
cleanup tests to the state of the block.  That memory is right at the launch is said of every byte
at every moment: `RamInv` says that the last section that has reached a byte, or the
byte behind an odd one, is what lies there, `PlaceInv` how far the section in hand is.
`UpdateDelivers` compares the command's end with its beginning; `ProgressInv` says that a file asked for is
still to come, in hand or delivered, and `VersionInv` that the time a copy bears is never newer than
what is in it, although the host may rewrite the file between the calls.
`AnswersTrue` rests on `TalkInv`: while the call reads and the host is there, some message `m` the host may
have sent (`Sent`: its answer, that with one symbol changed, or a rejection) is such that what lies on the
line is the rest of `m` behind the place the call has reached, and what its locals hold is what the code
took from the part before (`Stands`).  A call that hears the stop signature has therefore checked `Accepted`,
and `NotAccepted` shows that no message with one changed symbol passes: the stop signature occurs at one place only, so the
length is right, and one changed field changes the sum of every prefix behind it (`SumDiffers`; the
induction over the sequence is by the least element of a set of numbers, `LeastElement`).  A rejection bears another
opcode.  `ChunkInv` says that rread's chunks are the file's bytes from where it began, and that a gap is left only
behind the end of the file.  Conversely, if nothing went wrong `m` is the answer itself, and none of the
tests can fail (`FailsForReason`).  It uses of the constants: every opcode and its rejection is a field other than 0xFF.., a reply's length
with overhead fits a field, and the opcodes of fixed replies, searches and rread differ (`LinkAssumption`).

`NLoaderProofs` is also about BootMain, the reader of FAT files, the reads of the disk and the choice of a video mode, for every
image, volume, chain of clusters, geometry, list of modes and order of failures:

| Theorem | States |
|---|---|
| `JumpsOnlyToWholeImageHolds` | `[]JumpsOnlyToWholeImage` |
| `BuffersReturnedHolds` | `[]BuffersReturned` |
| `DeliversFileHolds` | `DeliversFile`, an invariant and an action property |
| `DiskReadTrueHolds` | `[]DiskReadTrue` |
| `ScreenTrueHolds` | `ScreenTrue`, an invariant and an action property |

`KeepInv` says for each place which buffers may be held and whether a file is open.  `PlaceInv` says
that between two records an odd number of items was read and inside one an even number, and that the first
of them lie in memory if the file is whole.  That a file cut off at any item is not taken for whole
rests on the number of items alone, so it holds for images of any length.

The invariant of the reader is `FatIInv`: as long as no read of the FAT failed, the reader stands `q` clusters into the file
(`Standing`), and what it has loaded since the file was opened comes to `q` clusters and the part of the next it has begun.
There it looks for a run (`Grouping`), has some of one left to load (`InRun`) or none (`AfterRun`), and the
clusters of the run are the file's next (`RunFrom`).  `Buffered` says that the read buffer holds the file's bytes in front of
those to come, as far as the file reaches.  The end mark counts as one cluster more, which is how a reader past the end
of the file is shown to stop within a cluster.  All of this is said under `NoRunEndsBelowFirst`, for without it the
code does not do it (the finding of `nloader_runs`); the shape of the state (`FatShape`) and the bounds of the buffer are
not conditional.  `FatAssumption` asks that the marks lie above the data clusters and that the end mark is none of the others, as with FAT16.

The invariant of the disk reads is `DiskIInv`: between two calls of INT 13h what is copied is the sectors from the
first asked for up to the place of the next.  That a sector comes back from the cylinder, head and sector it is packed into is
`SectorIs`, for up to 1024 cylinders, 256 heads and 63 sectors, the ranges `DiskAssumption` states.

The search for a mode keeps the best of those it has seen.  `BestGrows` says of one more mode that the best is
still one of the list (`BestOf`) and that none that can be used is wider, and `BestIs` says it of the whole list, by induction over its length.  So main's
second attempt finds what it asks for unless the list has nothing of use, and what it finds is widest.  `ScreenIInv` adds that
until then nothing was set, and that from then on the mode found, the one drawn for and, unless the BIOS refused it, the one
on the screen are one.  `ScreenAssumption` asks that a mode has a width, a height and colors.

`UefiProofs` is about the UEFI loader, for every size of buffer, page and header that `FileAssumption` and
`UefiAssumption` allow, every memory map and every file:

| Theorem | States |
|---|---|
| `ReadsAsStream` | `Spec => StreamSpec`, the refinement of `ByteStream` |
| `MemoryRespectedHolds` | under `Layout`: `[]MemoryRespected` |
| `StartedWholeHolds` | under `Layout` and `RecordsApart`: `[]StartedWhole` |
| `RamTopClearHolds` | `[]RamTopClear` |
| `StopsOnlyIfHurtHolds` | under `Layout`: `[]StopsOnlyIfHurt` |

The first three invariants contain one another.  `StreamInv` says that the buffer holds the bytes before
the file's position and that what the call in progress handed out ends where the abstract place is; each
copy from the buffer is then a step `Hand` of the stream and each fill, failing or not, a stutter.
`RespectInv` adds that the pages of the image with the memory behind it are the loader's from
AllocatePages on, across a return and a second start.  `BootInv` adds that
the records read so far are in place: a record is written only inside the image (`Fits`), so it neither
overwrites an earlier one (`RecordsApart`) nor the cleared memory, and the boot arguments
lie in another allocation.  `StopInv` turns this round: `ReadInv` says for each call where in the file it began and
how much it asked for, so that an answer is a short one only after a failure, and `CalmInv` that with nothing in the
way (`Smooth`) no place before a stop is reached.  The top of RAM (`TopStep`) and the places of the records
(`RecordAtIs`) are computed by recursive functions: that such a function exists, and what it returns, is proved by
induction over the naturals, which the lemma `Induction` derives from the well-foundedness of `<`.  Page arithmetic with a page size that is a constant is in lemmas of its own
(`PagesForIs`, `InPages`, `RoundDownAbove`).  Four statements were wrong before they were proved and
model-checking had not shown it: the end of the cleared memory, for words of more than one
byte; the antecedent of `MemoryRespected`, which an image over the arguments' page could satisfy; `GoodFile`, which let a
record of no bytes lie outside the image, where the loader refuses it; and a CASE of `CleanUp` with two true arms.

`DiskPartProofs` is about every disk, table and sequence of commands that `TableAssumption` and
`DiskAssumption` allow:

| Theorem | States |
|---|---|
| `OneActiveHolds` | under `TablesMarkedOnce`: `[]OneActive` |
| `PartitionsKeptHolds` | the action property `PartitionsKept` |
| `ListKeptHolds` | the action property `ListKept` |

The type invariant is all the induction needs; the work is in the table functions.  Each round of
CompactMBR keeps a map from the slots to the entries of the old table they hold, increasing and leaving
none in use out (`RoundKeeps`), so that the result has the old entries in the old order with the
used ones in front (`CompactIs`, `CompactKeeps`).  `InsertMoves` says where InsertPartition puts each
of them, `InsertBetween` what lies on both sides of the place it finds.  The last was false as first stated, for a
partition behind the end of the disk (its end wraps) and for one of no sectors, which CREATE makes when one sector is
left: `OrderKept` and `DisjointKept` therefore speak of `Proper` tables.

`BinCompressProofs` is about bincompress, for every length of a file, every size of a block and whatever the
compressor makes of each block:

| Theorem | States |
|---|---|
| `RoundTripHolds` | `ToolSpec => []RoundTrip` |

`Packing` says how a packed file grows, block by block, and the lemmas on it where each block lies and that
writing more leaves it there (`PackingBlock`, `PackingGrows`).  The inductive invariant (`ToolInv`, `FileInv`) then is that
a file /C wrote, in whatever state it left it, is a beginning of a packed file of the
original (a write cut short, an end lost in fclose), and that /D stands behind its k-th block and has written the original up to
where k blocks reach.  A block that is all there is restored (`NextRestored`), so that the only way to a
success with other bytes is a length /D compares.  That the recursive function `Packed` is the last of
those files (`PackedIs`) needs an induction of its own.

`BiosProofs` is about the BIOS loader, for every set of volumes, size of a block, number of failing reads
and size of the loader's buffers, under one assumption, `VolumesWritten`:

| Theorem | States |
|---|---|
| `BootsRightHolds` | under `VolumesWritten`: `[]BootsRight` |
| `ReadsThrough` | under `VolumesWritten`: the loader over its decoder implements `ByteStream` |

`VolumesWritten` says what the disk comes with: every file is the plain cells of its content or what
bincompress makes of them, or the first cells of that; an image is a header, records whose bodies hold no
header, and a last header; the settings name images, or names that no file has.  It restricts the constant `Volumes`
only, and TLC evaluates it for the volumes of its run (`MCWritten` in `MCBiosloader`).

The inductive invariant `BiosInv` has three parts.  `BootTypes` is the type invariant with the volume fixed.
`StageInv` says what each stage relies on.  While a file is read (`ReadsIn`), the decoder of a packed
file stands behind its k-th block with the rest of that block to be delivered (`BehindBlock`) or, of a file that was
cut off, behind everything there is (`BehindAll`); what it has given since the file was opened is the
content, with a zero where the file ends too soon (`CellsTrue`).  A read that breaks off in a whole file is due to a fault, or
to a settings file so long that its end was written over the decoder's work area.  While an image is loaded, the records before the header at
hand are in memory, of two for one address the later (`Placed`); a body delivered is that of this record because
it begins with the place behind this header.  `OrderInv` says which names of the order were tried, and that none that could be
loaded was passed over without a fault (`Excused`).  The format is `BinCompressProofs`' `Packing`: what the
decoder reads as the next header is the header of the next block (`HeadRead`), of a file that was cut off the beginning of it with zeros behind,
and what it unpacks is that block's part of the content (`BlockGot`).

`ChainProofs` is about the chain of loaders, for every set of volumes and drives under a hypothesis on the constant
`Media`:

| Theorem | States |
|---|---|
| `BldrStartsHolds` | under `MediaMade`: `[]BldrStarts` |
| `ChainBootsHolds` | under `Made`: `[](ImagesMade(medium) => ChainBoots)` |

`MediaMade` says that the volumes are as formatters and installers make them (`NumbersMade`,
`FilesMade`, `BldrMade`): the fields of the parameter block have the widths of the disk, the volume lies on its drive and
in 32 bits, no sector of a file is where the directory or another file's is, and biosloader's file begins as its build makes it.
TLC evaluates it for the volumes of its run (`MCMade`).

The invariant of the boot sector, `SectorInv`, says where the reads ask and what they brought.  That the registers come
to the same places as the rules of the file system is arithmetic: the bytes and words of a FAT's length (`FirstProduct`, `SumOf32`, `DataLba32Is`),
sums that lose what lies above 32 bits (`DoubleWordSum`), cylinder, head and sector taken apart and put together (`ChsOf`,
`ChsPlaceIs`, `WecChsPlaceIs`).  On FAT32 the computation goes wrong for large FATs, and `StartFound` shows that the
loader is then not found at all unless the places agree: the sector that says it is the loader's first can lie in
no other place, so BLDR never runs with a wrong one.  `SectorRight` was stronger than the code when the
proof began: a loader whose file ends closer to the end of the drive than `READ_LENGTH` is refused, and
`SectorLoads` now says so.

`ChainBootsHolds` is about the two stages together, for the same volumes (`Made`: their numbers and files, without
biosloader's) with images as the tools make them (`ImagesMade`): a sector with the signature begins its file's image, which
lies in one piece on sectors that are read, no sector of a file looks like a directory, and no record or start is address 0,
which marks the last header.  Of the 608 volumes of the run 533 are such, with images that fit memory and some that
do not; on the rest, with images cut off or damaged, `ChainBoots` is only model-checked.  The inductive invariant is
`ChainInv == SectorInv /\ (ImagesMade(medium) => XldrInv)`.  `XldrInv` says of each step of the second stage where
the next read is to go: of the search, that no sector of the file before had the signature (`InScanning`); of the image, which header,
record and unit of it are at hand and that all before are in memory (`InHeader`, `InRecord`, `InBody`); of the ends, why
the stage got there (`AtJump`, `AtWild`, `AtSpin`).  That the places the second stage computes go on, sector by sector,
from where the image was found is `XldrPlaceOn`: where a read succeeded, so does one a few sectors on that is in reach.

Only model-checked, because nobody has found the induction yet: `FilesRight` of
`BiosFat`.  Only
model-checked, because the prover cannot reach them: liveness under fairness (`ProgramEnds`, `CommandEnds`,
`BootEnds`, `LoaderEnds`, `UefiEnds`); what folds compute (`ParserRight`).

## 5. Plan

Order is by importance of the behaviour.

| Step | Module | Abstract specification / key properties | Run and bounds | Proofs |
|---|---|---|---|---|
| A (done) | BootHeap | BlockAllocator | nloader | done |
| B (done) | FatReader | bytes in order | nloader, 1 violation | done |
| C (done) | NLoaderBoot | only whole images | nloader | done |
| D (done) | PpfsLink | a call returns the host's answer or fails; NoPPFS is permanent | cepc | done |
| E (done) | CepcLoad, CepcTool | XMS block given back on every way to DOS; only whole images; a refresh delivers | cepc, 1 violation | done |
| F (done) | WecBoot | states release what they open; run only what was placed | wec_boot, 1 violation | done |
| G (done) | RtcClock, WecConfig | the clock grows by the ticks; the countdown is full | in wec_boot's run | done |
| H (done) | PartTable, DiskPart | order, entries, disjointness kept | biosloader, 1 violation | done |
| I (done) | BinCompress, BiosDecoder, BiosBoot | decode(encode(x)) = x; `ByteStream`; only whole images | biosloader | done |
| J (done) | BiosDisk | a read that succeeds has the sectors asked for | nloader | done |
| K (done) | IniParser, NLoaderScreen | the right value; the image is told the mode | nloader, 1 violation | NLoaderScreen done; IniParser - (folds over data) |
| L (done) | UefiFile, UefiBoot | ByteStream; only whole images; memory respected | uefi_boot, 1 violation | done |
| M (done) | BootSector, Xldr, BldrStart | each stage starts the next | nloader, biosloader | done |
| N (done) | BiosFat | the right file and bytes from four file systems | biosloader, 1 violation | - |
| O | NLoader's FAT32 reader; loadcepc's options; wecloader's menus; cesys | as BiosFat; option strings; settings | with the runs above | - |

Every module keeps its parameters as CONSTANTS with a named assumption, one
action per operation, and no RECURSIVE operator where theorems are to follow.

## 6. Not modelled, and why

Log formatting, serial output, register shuffling between real and protected mode, PCI enumeration and
VESA calls are I/O or data movement without a protocol.  FAT12 and exFAT readers of NLoader
are not part of any build at this commit (the first is not in the sources list, the second does
not compile).  Colours and coordinates of the splash bitmap and the boot arguments that are only copied are data no
property here distinguishes.  wecloader's menus for network, display and debug port change settings
and nothing else; those of the UEFI loader cannot be reached (`FASTBOOT_NOMENU`).  loadcepc's options, video and Ethernet
parts parse strings and call the BIOS.  cesys is one read and one write.
