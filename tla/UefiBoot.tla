------------------------------ MODULE UefiBoot ------------------------------
(***************************************************************************)
(* The UEFI loader from UefiMain to the jump: boot arguments, settings in  *)
(* a firmware variable, NK.BIN read record by record into allocated pages, *)
(* the end of boot services.  The machine may be switched off at any time; *)
(* a loader that returned may be started again by the firmware.            *)
(***************************************************************************)
EXTENDS UefiFile, FiniteSets

CONSTANTS
  Variables,     \* what the firmware variable BootConfigData may hold
  NoVariable,
  MemoryMaps,    \* sequences of [kind, start, pages] of the firmware
  FirmwarePages, \* sets of pages that are not free
  Pages,         \* pages of RAM: 0 .. Pages - 1
  PageSize, DWordSize, Word,   \* 4096, 4, 2^32
  ExtraLength,   \* IMAGE_EXTRA_MEM_LENGTH
  ArgsAt,        \* IMAGE_SHARE_BOOT_ARGS_PA
  SignSize, HeaderSize, RecordHeaderSize,   \* 7, 8, 12
  DefaultRamTop, \* 0x3f500000
  PhysicalSpan,  \* 2^29: BootImageVAtoPA clears bits 29 and 31
  GdtSize,
  MaxStarts      \* bound: how often the loader is started

ASSUME UefiAssumption ==
  /\ {Pages, PageSize, DWordSize, Word, ExtraLength, ArgsAt, SignSize, HeaderSize,
      RecordHeaderSize, DefaultRamTop, PhysicalSpan, GdtSize, MaxStarts} \subseteq Nat \ {0}
  /\ Pages * PageSize <= Word /\ PageSize % DWordSize = 0
  /\ \A kept \in FirmwarePages : kept \subseteq 0 .. Pages - 1
ASSUME SpanAssumption == Word = 8 * PhysicalSpan

(* Every field of a header is an unsigned word.                            *)
ASSUME ImageAssumption ==
  \A f \in Files \ {NoFile} :
    /\ {f.start, f.size, f.launch} \subseteq 0 .. Word - 1
    /\ Len(f.records) \in Nat
    /\ \A i \in 1 .. Len(f.records) :
         {f.records[i].address, f.records[i].length} \subseteq 0 .. Word - 1
ASSUME MapAssumption ==
  MemoryMaps \subseteq Seq([kind : {"ram", "keep", "other"}, start : Nat, pages : Nat])
ASSUME SettingsAssumption ==
  \A v \in Variables :
    v.device \in {"store", "edbg"} /\ {v.current, v.update} \subseteq BOOLEAN /\ ~v.ours

VARIABLES
  stage,     \* BootState and the place in its handler
  var,       \* BootConfigData: NoVariable or [current, device, update, ours]
  loader,    \* the part of BootLoader_t that decides: [device, update, run]
  args,      \* [valid, launch]: the boot arguments in RAM
  pAvailMem, \* the pages allocated for them, 0 for NULL
  map,       \* the firmware's memory map
  ramTop,
  taken,     \* pages the firmware keeps
  owned,     \* pages allocated to the loader
  written,   \* history: addresses the loader wrote to since its start
  mem,       \* what RAM holds: Junk, zero (-1) or a byte of the file
  next,      \* the record being read
  address,   \* where OEMBootRun will jump
  services,  \* boot services are there
  starts,    \* how often the loader was started
  plain      \* history: started on a machine it had not returned to before

bootVars == <<stage, var, loader, args, pAvailMem, map, ramTop, taken, owned, written, mem,
              next, address, services, starts, plain>>
ram == <<owned, written, mem>>
load == <<loader, ram, next, address>>
machine == <<map, taken, services, starts, plain>>
vars == <<fileVars, bootVars>>

Zero == -1
Ended == {"spin", "returned", "lost", "kernel"}
NoLoader == [device |-> "none", update |-> FALSE, run |-> 0]
NoArgs == [valid |-> FALSE, launch |-> 0]

-----------------------------------------------------------------------------
(* The image                                                               *)
Record == image.records[next]
Records == Len(image.records)

RecordAt ==
  LET at[i \in 1 .. Records + 1] ==
        IF i = 1 THEN SignSize + HeaderSize
        ELSE at[i - 1] + RecordHeaderSize + image.records[i - 1].length
  IN at
WholeSize == RecordAt[Records + 1] + RecordHeaderSize
Whole == image # NoFile /\ image.cut = WholeSize

Top(base, length) == (base + length) % Word
PageOf(a) == a \div PageSize
RoundDown(a, unit) == a - (a % unit)
Bytes(start, length) == start .. start + length - 1

(* AllocateImageBuffer: the pages at that very address, from the start of  *)
(* the first page on, or none.  The length and the place in the page are   *)
(* added in 32 bits, and the caller goes on with the start of the page     *)
(* unless that is address 0.                                               *)
SizeToPages(length) == (length \div PageSize) + IF length % PageSize = 0 THEN 0 ELSE 1
PagesFor(start, length) ==
  PageOf(start) .. PageOf(start) + SizeToPages(((start % PageSize) + length) % Word) - 1
BufferAt(start) ==
  IF RoundDown(start, PageSize) = 0 THEN start ELSE RoundDown(start, PageSize)

AllocateImageBuffer(start, length) ==
  /\ PagesFor(start, length) \subseteq (0 .. Pages - 1) \ (taken \cup owned)
  /\ owned' = owned \cup PagesFor(start, length)
NotAllocated(start, length) ==
  /\ \/ /\ ~(PagesFor(start, length) \subseteq (0 .. Pages - 1) \ (taken \cup owned))
        /\ UNCHANGED faults
     \/ Fault
  /\ UNCHANGED owned

(* GetRamTop goes through the memory map once, in the map's order.         *)
EndOf(d) == d.start + d.pages
FirstKept(was, d) == IF was.found THEN was.top ELSE d.start   \* bug: not the lowest
KeepsFrom(was, d) ==
  IF was.top >= d.start \/ ~was.found THEN d.start ELSE was.top
TopAfter(was, d) ==
  CASE d.kind = "ram" ->
         IF ~was.found /\ was.top <= EndOf(d) THEN [was EXCEPT !.top = EndOf(d)] ELSE was
    [] d.kind = "keep" -> [top |-> KeepsFrom(was, d), found |-> TRUE]
    [] OTHER -> was
RamTopOf(m) ==
  LET f[n \in 0 .. Len(m)] ==
        IF n = 0 THEN [top |-> 0, found |-> FALSE] ELSE TopAfter(f[n - 1], m[n])
  IN f[Len(m)].top

-----------------------------------------------------------------------------
Init ==
  /\ FileInit
  /\ stage = "init" /\ var \in Variables \cup {NoVariable}
  /\ loader = NoLoader /\ args = NoArgs /\ pAvailMem = 0
  /\ map \in MemoryMaps /\ ramTop = 0 /\ taken \in FirmwarePages
  /\ owned = {} /\ written = {} /\ mem = [a \in 0 .. Pages * PageSize - 1 |-> Junk]
  /\ next = 1 /\ address = 0 /\ services = TRUE /\ starts = 1 /\ plain = TRUE

Goes(s) == stage' = s
NoFileCall == UNCHANGED <<image, hFile, efiPos, bufAt, buffer, need, broke, given>>
Settled == UNCHANGED <<var, args, pAvailMem, ramTop, machine>>

(* BootArgsInit: arguments that are still valid are kept as they are; when *)
(* their page is not to be had the old bytes stay and the loader goes on.  *)
BootArgsInit ==
  /\ stage = "init" /\ Goes("protocols")
  /\ \/ args.valid /\ UNCHANGED <<args, pAvailMem, owned, written, faults>>
     \/ /\ ~args.valid /\ AllocateImageBuffer(ArgsAt, PageSize)
        /\ args' = [valid |-> TRUE, launch |-> 0]
        /\ pAvailMem' = BufferAt(ArgsAt)
        /\ written' = written \cup {ArgsAt} /\ UNCHANGED faults
     \/ /\ ~args.valid /\ NotAllocated(ArgsAt, PageSize)
        /\ UNCHANGED <<args, pAvailMem, written>>
  /\ NoFileCall /\ UNCHANGED <<var, loader, ramTop, mem, next, address, machine>>

(* The rest of OEMBootInit: two protocols without which there is no boot,  *)
(* and the top of RAM, made up when the map cannot be read.                *)
OEMBootInit ==
  /\ stage = "protocols"
  /\ \/ Goes("acpi") /\ ramTop' = RamTopOf(map) /\ UNCHANGED faults
     \/ Goes("acpi") /\ ramTop' = DefaultRamTop /\ Fault
     \/ Goes("spin") /\ UNCHANGED ramTop /\ Fault
  /\ NoFileCall /\ UNCHANGED <<var, args, pAvailMem, load, machine>>

(* The address of the ACPI table goes to the last word of a page's length  *)
(* behind the arguments; BootLoaderPowerOn does nothing.                   *)
FindAcpiTable ==
  /\ stage = "acpi" /\ Goes("config")
  /\ \/ written' = written \cup {ArgsAt + PageSize - 1} /\ UNCHANGED faults
     \/ UNCHANGED written /\ Fault
  /\ NoFileCall /\ UNCHANGED <<loader, owned, mem, next, address>> /\ Settled

-----------------------------------------------------------------------------
(* BootLoaderConfig                                                        *)

(* bug: the settings made up are those of the kernel debugger's device     *)
EdbgConfig == [current |-> TRUE, device |-> "edbg", update |-> FALSE, ours |-> TRUE]
DefaultVariable == [current |-> TRUE, device |-> "store", update |-> FALSE, ours |-> TRUE]

(* Settings of another version count as read and set nothing.              *)
ReadConfigFromGlobalVar ==
  /\ var # NoVariable
  /\ loader' = IF var.current
               THEN [loader EXCEPT !.device = var.device, !.update = var.update]
               ELSE loader
  /\ UNCHANGED <<var, faults>>

(* Whether the defaults could be written does not matter to this boot.     *)
(* The services that fail to read the variable may fail to write it.       *)
DefaultConfig ==
  /\ \/ var = NoVariable /\ var' = DefaultVariable /\ UNCHANGED faults
     \/ var' \in {var, DefaultVariable} /\ Fault
  /\ loader' = [loader EXCEPT !.device = "store"]

UpdateMode(l) == args.valid /\ l.update

(* The menu cannot be reached: FASTBOOT_NOMENU leaves the key unread.      *)
BootLoaderConfig ==
  /\ stage = "config"
  /\ ReadConfigFromGlobalVar \/ DefaultConfig
  /\ stage' = IF UpdateMode(loader') THEN "uldr"
              ELSE IF loader'.device = "store" THEN "preload" ELSE "spin"
  /\ NoFileCall
  /\ UNCHANGED <<args, pAvailMem, ramTop, ram, next, address, machine>>

BootLoaderPreLoad ==
  /\ stage = "preload"
  /\ Goes(IF UpdateMode(loader) THEN "uldr" ELSE "os")
  /\ NoFileCall /\ UNCHANGED <<load, faults>> /\ Settled

BootLoaderLoadUldr ==
  /\ stage = "uldr" /\ Goes("os")
  /\ NoFileCall /\ UNCHANGED <<load, faults>> /\ Settled

-----------------------------------------------------------------------------
(* BootLoaderLoadOs                                                        *)
BootFileSystemInit ==
  /\ stage = "os"
  /\ \/ Goes("open") /\ UNCHANGED faults
     \/ Goes("close") /\ Fault
  /\ NoFileCall /\ UNCHANGED load /\ Settled

OpenImage ==
  /\ stage = "open"
  /\ \/ \E length \in {0, Size} :
          BootFileSystemOpen(length) /\ Goes(IF length = 0 THEN "close" ELSE "seek")
     \/ BootFileSystemOpenFails /\ Goes("close")
  /\ UNCHANGED load /\ Settled

(* CleanUp closes the handle also when it is NULL.                         *)
CleanUp ==
  /\ stage \in {"close", "close.run"}
  /\ BootFileSystemClose
  /\ stage' = IF stage = "close.run" THEN "run" ELSE IF hFile = "null" THEN "lost" ELSE "spin"
  /\ UNCHANGED load /\ Settled

(* BootFileSystemReadBinFile                                               *)
Seek ==
  /\ stage = "seek" /\ Goes("ask")
  /\ BootFileSystemRewind(0) /\ UNCHANGED load /\ Settled

AskSign ==
  /\ stage = "ask" /\ Goes("sign")
  /\ Asks(SignSize) /\ UNCHANGED load /\ Settled

Reading == {"sign", "header", "record", "data"}
Arrived(n) == Answered /\ Len(given) = n

(* BootImageVAtoPA keeps the bits below 29, and bit 30.                    *)
Bit30(a) == (a \div (2 * PhysicalSpan)) % 2
Physical(a) == (a % PhysicalSpan) + IF Bit30(a) = 1 THEN 2 * PhysicalSpan ELSE 0
Placed == Physical(Record.address)

(* A record's bytes go straight to their place in memory.                  *)
CopyBytes ==
  /\ stage \in Reading /\ CopyFromBuffer
  /\ LET here == IF stage = "data" THEN Bytes(Placed + Len(given), CopyLength) ELSE {}
     IN /\ mem' = [a \in DOMAIN mem |->
                     IF a \in here THEN Copied(CopyLength)[a - Placed - Len(given) + 1]
                     ELSE mem[a]]
        /\ written' = written \cup here
  /\ UNCHANGED <<stage, loader, owned, next, address>> /\ Settled

Fill ==
  /\ stage \in Reading
  /\ FillBuffer \/ FillFails
  /\ UNCHANGED <<stage, load>> /\ Settled

Refused == Goes("close") /\ UNCHANGED <<fileVars, load>> /\ Settled

(* Only the first of the seven bytes is compared.                          *)
SignRight == Arrived(SignSize) /\ image.sign # "wrong"

ReadSign ==
  /\ stage = "sign" /\ SignRight
  /\ Goes("header") /\ Asks(HeaderSize) /\ UNCHANGED load /\ Settled
BadSign == stage = "sign" /\ Answered /\ ~SignRight /\ Refused

HeaderRight ==
  Arrived(HeaderSize) /\ Top(image.start, image.size) >= image.start
ImageLength == image.size         \* bug: no room for the cleared memory
AllocatedLength == (image.size + ExtraLength) % Word

(* The memory behind the image is cleared, counted from the buffer.        *)
Cleared ==
  Bytes(RoundDown(BufferAt(image.start) + image.size, DWordSize), ExtraLength)

ReadHeader ==
  /\ stage = "header" /\ HeaderRight
  /\ AllocateImageBuffer(image.start, AllocatedLength)
  /\ mem' = [a \in DOMAIN mem |-> IF a \in Cleared THEN Zero ELSE mem[a]]
  /\ written' = written \cup Cleared
  /\ Goes("record") /\ Asks(RecordHeaderSize)
  /\ UNCHANGED <<loader, next, address>> /\ Settled

BadHeader == stage = "header" /\ Answered /\ ~HeaderRight /\ Refused

NoRoom ==
  /\ stage = "header" /\ HeaderRight
  /\ NotAllocated(image.start, AllocatedLength)
  /\ Goes("close")
  /\ NoFileCall /\ UNCHANGED <<loader, written, mem, next, address>> /\ Settled

RecordIn == Arrived(RecordHeaderSize) /\ given[1] = RecordAt[next]
LastRecord == next = Records + 1
InRange ==
  LET top == Top(Record.address, Record.length)
  IN /\ top >= Record.address /\ Record.address >= image.start
     /\ top <= Top(image.start, image.size)

ReadRecord ==
  /\ stage = "record" /\ RecordIn /\ ~LastRecord /\ InRange
  /\ Goes("data") /\ Asks(Record.length) /\ UNCHANGED load /\ Settled

BadRecord ==
  /\ stage = "record" /\ Answered
  /\ RecordIn => ~LastRecord /\ ~InRange
  /\ Refused

ReadLastRecord ==
  /\ stage = "record" /\ RecordIn /\ LastRecord
  /\ Goes("close.run")
  /\ loader' = [loader EXCEPT !.run = Physical(image.launch)]
  /\ UNCHANGED <<fileVars, ram, next, address>> /\ Settled

(* A sum that is right by accident is left out.                            *)
InPlace(i) ==
  \A k \in 0 .. image.records[i].length - 1 :
    mem[Physical(image.records[i].address) + k] = RecordAt[i] + RecordHeaderSize + k
SumNotCompared == TRUE          \* bug
SumRight == Record.right /\ InPlace(next)
DataRight == Arrived(Record.length) /\ SumRight

ReadData ==
  /\ stage = "data" /\ DataRight
  /\ next' = next + 1
  /\ Goes("record") /\ Asks(RecordHeaderSize)
  /\ UNCHANGED <<loader, ram, address>> /\ Settled

BadData == stage = "data" /\ Answered /\ ~DataRight /\ Refused

-----------------------------------------------------------------------------
(* OEMBootRun: an image without a start address takes the one of the boot  *)
(* arguments, whatever they hold when they were never initialised.         *)
LastLaunch == IF args.valid THEN {args.launch} ELSE {0, Junk}

OEMBootRun ==
  /\ stage = "run" /\ Goes("gdt")
  /\ address' \in IF loader.run = 0 THEN LastLaunch ELSE {loader.run}
  /\ args' = [args EXCEPT !.launch = address']
  /\ written' = written \cup {ArgsAt}
  /\ UNCHANGED <<fileVars, var, loader, pAvailMem, ramTop, owned, mem, next, machine>>

RelocateGDT ==
  /\ stage = "gdt" /\ Goes("map")
  /\ written' = written \cup Bytes(pAvailMem, GdtSize)
  /\ UNCHANGED <<fileVars, loader, owned, mem, next, address>> /\ Settled

GetMemoryMap ==
  /\ stage = "map"
  /\ \/ Goes("exit") /\ UNCHANGED faults
     \/ Goes("returned") /\ Fault
  /\ NoFileCall /\ UNCHANGED load /\ Settled

(* Not tried again; with no address to jump to the loader returns to a     *)
(* firmware whose boot services have ended.                                *)
ExitBootServices ==
  /\ stage = "exit"
  /\ \/ services' = FALSE /\ Goes(IF address = 0 THEN "returned" ELSE "kernel")
        /\ UNCHANGED faults
     \/ services' = services /\ Goes("returned") /\ Fault
  /\ NoFileCall
  /\ UNCHANGED <<var, args, pAvailMem, ramTop, load, map, taken, starts, plain>>

-----------------------------------------------------------------------------
Restarts(keep) ==
  /\ starts < MaxStarts /\ starts' = starts + 1
  /\ Goes("init") /\ loader' = NoLoader /\ pAvailMem' = 0 /\ ramTop' = 0
  /\ next' = 1 /\ address' = 0 /\ services' = TRUE
  /\ hFile' = "null" /\ efiPos' = 0 /\ bufAt' = Junk /\ FreshBuffer
  /\ plain' = ~keep
  /\ UNCHANGED <<image, faults, var, map, taken>>

PowerCycle ==
  /\ Restarts(FALSE)
  /\ args' = NoArgs /\ owned' = {} /\ written' = {}
  /\ mem' = [a \in DOMAIN mem |-> Junk]

(* The firmware runs the loader again; pages it left allocated stay so.    *)
StartedAgain ==
  /\ stage = "returned" /\ services
  /\ Restarts(TRUE) /\ written' = {} /\ UNCHANGED <<args, owned, mem>>

LoaderStep ==
  \/ BootArgsInit \/ OEMBootInit \/ FindAcpiTable
  \/ BootLoaderConfig \/ BootLoaderPreLoad \/ BootLoaderLoadUldr
  \/ BootFileSystemInit \/ OpenImage \/ CleanUp \/ Seek \/ AskSign
  \/ CopyBytes \/ Fill \/ ReadSign \/ BadSign \/ ReadHeader \/ BadHeader \/ NoRoom
  \/ ReadRecord \/ BadRecord \/ ReadLastRecord \/ ReadData \/ BadData
  \/ OEMBootRun \/ RelocateGDT \/ GetMemoryMap \/ ExitBootServices

Next == LoaderStep \/ PowerCycle \/ StartedAgain
Spec == Init /\ [][Next]_vars /\ WF_vars(LoaderStep)

-----------------------------------------------------------------------------
(* What an image must be like for the loader to respect memory: image, the *)
(* memory to clear and the place of the image in its page add up in 32     *)
(* bits, or AllocateImageBuffer asks for too few pages; and the image lies *)
(* in the lowest part of the address space, which BootImageVAtoPA maps to  *)
(* itself, or all RAM does.                                                *)
Layout ==
  /\ ArgsAt + PageSize < Word /\ GdtSize <= PageSize
  /\ \A f \in Files \ {NoFile} :
       /\ (f.start % PageSize) + f.size + ExtraLength < Word
       /\ Pages * PageSize <= PhysicalSpan \/ f.start + f.size <= PhysicalSpan

(* And for it to be whole when it is started: no record over another.      *)
RecordsApart ==
  \A f \in Files \ {NoFile} : \A i, j \in 1 .. Len(f.records) :
    i # j => Bytes(f.records[i].address, f.records[i].length)
               \cap Bytes(f.records[j].address, f.records[j].length) = {}

UefiTypes ==
  /\ FileTypes
  /\ stage \in Ended \cup Reading \cup {"init", "protocols", "acpi", "config", "preload",
       "uldr", "os", "open", "seek", "ask", "close", "close.run", "run", "gdt", "map", "exit"}
  /\ var \in Variables \cup {NoVariable, DefaultVariable}
  /\ loader.device \in {"none", "store", "edbg"}
  /\ owned \subseteq 0 .. Pages - 1 /\ owned \cap taken = {}
  /\ next \in 1 .. (IF image = NoFile THEN 1 ELSE Records + 1)
  /\ starts \in 1 .. MaxStarts
UefiTypeOK == UefiTypes /\ {broke, services, loader.update} \subseteq BOOLEAN

(* The kernel is entered, after the end of boot services, only when every  *)
(* byte of every record is where its header says, every sum was right and  *)
(* 4 MB less a page and a word behind the image are clear, at the image's  *)
(* start address or, when it names none, at that of the boot arguments.    *)
(* And every variable has its type.                                        *)
ClearAbove == Bytes(image.start + image.size, ExtraLength - PageSize - DWordSize)
StartedWhole ==
  /\ UefiTypeOK
  /\ stage = "kernel" =>
       /\ ~services /\ image.cut >= WholeSize
       /\ \A i \in 1 .. Records : InPlace(i) /\ image.records[i].right
       /\ \A a \in ClearAbove : mem[a] = Zero
       /\ address = IF Physical(image.launch) = 0 THEN args.launch
                    ELSE Physical(image.launch)

(* Every address the loader wrote to lies in a page it was allocated: the  *)
(* cleared memory and the records whatever the page offset of the image,   *)
(* if Layout holds of it; and, when they were given their page, arguments, *)
(* ACPI pointer and GDT.                                                   *)
ArgsPages == PagesFor(ArgsAt, PageSize)
MemoryRespected == args.valid => \A a \in written : PageOf(a) \in owned

(* RAM reported to the kernel ends at the lowest region that stays the     *)
(* firmware's, or where RAM ends, in whatever order the map lists them.    *)
Kept == {i \in DOMAIN map : map[i].kind = "keep"}
RamTopClear ==
  stage = "acpi" /\ ramTop # DefaultRamTop =>
    /\ \A i \in Kept : ramTop <= map[i].start
    /\ \/ \E i \in Kept : ramTop = map[i].start
       \/ Kept = {} /\ \A i \in DOMAIN map : map[i].kind = "ram" => EndOf(map[i]) <= ramTop

(* A loader stops, or returns, only because a firmware call failed, the    *)
(* file or its place in memory is bad, someone else's settings name no     *)
(* disk, or it had returned before; never because of settings it made up.  *)
GoodFile ==
  /\ Whole /\ image.sign # "wrong" /\ Physical(image.launch) # 0
  /\ Top(image.start, image.size) >= image.start
  /\ \A i \in 1 .. Records :
       LET r == image.records[i]
       IN /\ r.right /\ r.address >= image.start
          /\ r.address + r.length <= image.start + image.size
RoomForFile ==
  PagesFor(image.start, AllocatedLength)
    \subseteq (0 .. Pages - 1) \ (taken \cup ArgsPages)
OtherSettings ==
  var # NoVariable /\ ~var.ours /\ (~var.current \/ var.device # "store")

StopsOnlyIfHurt ==
  stage \in Ended \ {"kernel"} =>
    faults > 0 \/ ~GoodFile \/ ~RoomForFile \/ OtherSettings \/ ~plain

(* A whole file is read to its end, and the boot ends one way or another.  *)
UefiEnds ==
  stage = "ask" /\ Whole /\ efiPos = gCurFilePosition ~> stage \in Ended \cup {"init"}

(* filesystemreadbinfile.c: a read that comes back short ends the load.    *)
ShortFileRefused ==
  stage = "ask" /\ ~Whole ~> stage \in Ended \cup {"init"}
=============================================================================
