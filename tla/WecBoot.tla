------------------------------- MODULE WecBoot -------------------------------
(***************************************************************************)
(* One boot of wecloader: BootMain hands the state each OEMBootLoad        *)
(* returns to the next call, until an image is run or the power goes off.  *)
(* The settings and the menu are WecConfig's.  The block, partition and    *)
(* download drivers are libraries: each of their calls may fail; a BINFS   *)
(* or .bin image loads only when it is whole.                              *)
(***************************************************************************)
EXTENDS WecConfig, Sequences

CONSTANTS
  Need,        \* the sectors of each segment of a store image
  Orders,      \* the orders in which the host may send them
  Stores,      \* what the partitions and nk.bin may hold at power on
  RamRecords   \* records of a RAM image

Segment == DOMAIN Need               \* partitions 0x20 "uldr" and 0x23 "os"
Absent == {0}                        \* sectors count from 1

ASSUME BootAssumption ==
  /\ Segment = {"uldr", "os"} /\ RamRecords \in Nat \ {0}
  /\ \A s \in Segment : Need[s] \subseteq Nat \ {0}
  /\ Stores \subseteq [part : [Segment -> SUBSET Nat], nk : BOOLEAN]
  /\ Orders \subseteq Seq([segment : Segment, sector : Nat])
  /\ \A o \in Orders : \A i \in 1 .. Len(o) : o[i].sector \in Need[o[i].segment]
  /\ \A o \in Orders, s \in Segment : \A n \in Need[s] :
       \E i \in 1 .. Len(o) : o[i] = [segment |-> s, sector |-> n]

VARIABLES
  part,        \* the sectors each partition holds of its image, or Absent
  nk,          \* a whole nk.bin is on the FAT volume
  rc,          \* what the running state is going to return
  runAddress,  \* pLoader->runAddress, by the image that is there; "0" unset
  launch,      \* dwLaunchAddr of the boot arguments, kept over a reset
  placed,      \* history: the image that is whole in memory, or "none"
  order,       \* what the host sends, once a store download goes on
  next,        \* records received
  segment, open,   \* the segment being written, and the one hSegment is for
  sectors      \* sectors written, of imageInfo.sectors

storeVars == <<part, nk>>
runVars == <<runAddress, launch, placed>>
downVars == <<order, next, segment, open, sectors>>
loadVars == <<storeVars, runVars, downVars>>
vars == <<clockVars, configVars, menuVars, pc, held, rc, loadVars>>

Whole(s) == part[s] = Need[s]
Fails == rc' = "FAILURE"

(* Nothing but the place, the handles and the result changes.              *)
Quiet == UNCHANGED <<clockVars, configVars, menuVars, loadVars>>
(* Nothing of the configuration changes.                                   *)
Loading == UNCHANGED <<clockVars, configVars, menuVars>>

-----------------------------------------------------------------------------
PowerOn == pc = "POWERON" /\ Goes("CONFIG") /\ UNCHANGED rc /\ Quiet

Configure ==
  /\ ConfigStep \/ User \/ TimePasses
  /\ UNCHANGED <<rc, loadVars>>

(* BootLoaderPreLoad: byte 56 of the ULDR's first sector decides.          *)
PreLoad ==
  /\ pc = "PRELOAD"
  /\ IF settings.update THEN rc' = "LOAD_ULDR" /\ Goes("pre.clean")
     ELSE rc' = "LOAD_OS" /\ (Opens("block", "pre.part") \/ Goes("pre.clean"))
  /\ Quiet

PreLoadPartition ==
  /\ pc = "pre.part"
  /\ \/ part["uldr"] # Absent /\ Opens("partition", "pre.read")
     \/ Goes("pre.clean")
  /\ UNCHANGED rc /\ Quiet

PreLoadRead ==
  /\ pc = "pre.read" /\ Goes("pre.clean")
  /\ rc' \in {rc, "LOAD_ULDR"}
  /\ Quiet

KeepsBlock == {"partition"}          \* bug: the block driver stays open
PreLoadCloses == {"partition", "block"}

PreLoadCleanUp ==
  /\ pc = "pre.clean"
  /\ held' = held \ PreLoadCloses /\ pc' = rc /\ rc' = "FAILURE"
  /\ Quiet

(* An image is loaded: memory holds it whole, or what was there is lost.   *)
Placed(image, then) ==
  /\ runAddress' = image /\ placed' = image /\ rc' = "RUN"
  /\ Goes(then) /\ UNCHANGED <<launch, storeVars, downVars>> /\ Loading

LoadFails(then) ==
  /\ placed' \in {placed, "none"} /\ Fails
  /\ Goes(then) /\ UNCHANGED <<runAddress, launch, storeVars, downVars>>
  /\ Loading

(* BootLoaderLoadUldr does not close its partition.                        *)
LoadUldr ==
  /\ pc = "LOAD_ULDR"
  /\ Opens("block", "uldr.part") \/ Goes("uldr.clean")
  /\ Fails /\ Quiet

LoadUldrPartition ==
  /\ pc = "uldr.part"
  /\ \/ part["uldr"] # Absent /\ Opens("uldr partition", "uldr.load")
     \/ Goes("uldr.clean")
  /\ UNCHANGED rc /\ Quiet

LoadUldrImage ==
  /\ pc = "uldr.load"
  /\ (Whole("uldr") /\ Placed("uldr", "uldr.clean")) \/ LoadFails("uldr.clean")

LoadUldrCleanUp ==
  /\ pc = "uldr.clean" /\ held' = held \ {"block"} /\ pc' = rc
  /\ Fails /\ Quiet

(* BootLoaderLoadOs: partition 0x23 if there is one, else nk.bin.          *)
LoadOs ==
  /\ pc = "LOAD_OS"
  /\ Opens("block", "os.part") \/ Goes("os.clean")
  /\ Fails /\ Quiet

LoadOsPartition ==
  /\ pc = "os.part"
  /\ \/ part["os"] # Absent /\ Opens("partition", "os.load")
     \/ Goes("os.fat")
  /\ UNCHANGED rc /\ Quiet

LoadOsImage ==
  /\ pc = "os.load"
  /\ (Whole("os") /\ Placed("os", "os.clean")) \/ LoadFails("os.clean")

LoadOsFat ==
  /\ pc = "os.fat" /\ (Opens("fat", "os.file") \/ Goes("os.clean"))
  /\ UNCHANGED rc /\ Quiet

LoadOsFile ==
  /\ pc = "os.file" /\ (Opens("file", "os.nk") \/ Goes("os.clean"))
  /\ UNCHANGED rc /\ Quiet

LoadOsNk ==
  /\ pc = "os.nk"
  /\ (nk /\ Placed("nk", "os.clean")) \/ LoadFails("os.clean")

LoadOsCleanUp ==
  /\ pc = "os.clean" /\ pc' = rc
  /\ held' = held \ {"file", "fat", "partition", "block"}
  /\ Fails /\ Quiet

-----------------------------------------------------------------------------
(* BootLoaderDownload.  A transport whose download driver does not start   *)
(* is never closed.  The host asks for a jump only to an image that is     *)
(* still in memory.                                                        *)
Download ==
  /\ pc = "DOWNLOAD"
  /\ \/ settings.boot = "edbg" /\ nic /\ Opens("transport", "down.init")
     \/ Goes("down.clean")
  /\ Fails /\ Quiet

DownloadInit ==
  /\ pc = "down.init"
  /\ \/ Opens("download", "down.type")
     \/ Goes("down.clean")
  /\ UNCHANGED rc /\ Quiet

Jump ==
  /\ pc = "down.type" /\ launch # "0" /\ placed = launch
  /\ rc' = "RUN" /\ Goes("down.clean") /\ Quiet

(* Nothing behind the type the host announced.                             *)
UnknownType ==
  /\ pc = "down.type" /\ Goes("down.clean") /\ UNCHANGED rc /\ Quiet

(* RamImage: the image fits, and its records come one by one.              *)
RamImage ==
  /\ pc = "down.type" /\ Goes("ram.data")
  /\ next' = 0 /\ UNCHANGED <<rc, storeVars, runVars, order, segment, open, sectors>>
  /\ Loading

RamData ==
  /\ pc = "ram.data" /\ next < RamRecords
  /\ next' = next + 1 /\ placed' = "none"
  /\ UNCHANGED <<pc, held, rc, storeVars, runAddress, launch, order, segment,
                 open, sectors>>
  /\ Loading

EndsEarly == TRUE                    \* bug: no more data is taken for the end
LastRecord == next = RamRecords

RamDone ==
  /\ pc = "ram.data" /\ LastRecord
  /\ runAddress' = "host" /\ placed' = IF next = RamRecords THEN "host" ELSE "none"
  /\ rc' = "RUN" /\ Goes("down.clean")
  /\ UNCHANGED <<launch, storeVars, downVars>> /\ Loading

RamFails ==
  /\ pc = "ram.data" /\ Goes("down.clean") /\ UNCHANGED rc /\ Quiet

-----------------------------------------------------------------------------
(* StoreImage.  Formatting makes every partition anew and empty; it may    *)
(* also clear the data sectors and with them what was saved.               *)
StoreImage ==
  /\ pc = "down.type"
  /\ Opens("block", "store.format") \/ Goes("down.clean")
  /\ UNCHANGED rc /\ Quiet

Formatted ==
  /\ part' = [s \in Segment |-> {}] /\ nk' = FALSE
  /\ \/ UNCHANGED <<sector, saved>>
     \/ /\ sector' = [i \in 0 .. DataSectors |->
                        Plain(IF i = DataSectors THEN "fat" ELSE "other")]
        /\ saved' = Unsaved

StoreFormat ==
  /\ pc = "store.format" /\ Formatted
  /\ \/ order' \in Orders /\ Goes("store.data")
     \/ UNCHANGED order /\ Goes("store.clean")
  /\ next' = 0 /\ sectors' = 0 /\ segment' = "-1" /\ open' = "-1"
  /\ UNCHANGED <<rc, clockVars, menuVars, settings, nic, runVars>>

FormatFails ==
  /\ pc = "store.format" /\ Goes("store.clean") /\ UNCHANGED rc /\ Quiet

Total == Len(order)                  \* imageInfo.sectors
Record == order[next]

StoreData ==
  /\ pc = "store.data" /\ sectors < Total
  /\ \/ next' = next + 1 /\ Goes("store.segment")
     \/ UNCHANGED next /\ Goes("store.clean")
  /\ UNCHANGED <<rc, storeVars, runVars, order, segment, open, sectors>>
  /\ Loading

FirstOnly == segment = "-1"          \* bug: only the first segment is opened
NewSegment == segment # Record.segment

(* The handle of the segment before is closed, also when the next does     *)
(* not open.                                                               *)
StoreSegment ==
  /\ pc = "store.segment"
  /\ IF NewSegment
     THEN /\ segment' = Record.segment
          /\ \/ /\ open' = Record.segment
                /\ Opens("segment", "store.write")
             \/ /\ open' = "-1"
                /\ held' = held \ {"segment"} /\ pc' = "store.clean"
     ELSE UNCHANGED <<segment, open>> /\ Goes("store.write")
  /\ UNCHANGED <<rc, storeVars, runVars, order, next, sectors>> /\ Loading

StoreWrite ==
  /\ pc = "store.write"
  /\ \/ /\ part' = [part EXCEPT ![open] = @ \cup {Record.sector}]
        /\ sectors' = sectors + 1 /\ Goes("store.data")
     \/ UNCHANGED <<part, sectors>> /\ Goes("store.clean")
  /\ UNCHANGED <<rc, nk, runVars, order, next, segment, open>> /\ Loading

(* A copy of the settings is read, and made up and written when it cannot  *)
(* be; the loader's own settings stay, and a failed write is not noticed.  *)
StoreDone ==
  /\ pc = "store.data" /\ sectors >= Total
  /\ \/ UNCHANGED sector
     \/ /\ Writable(sector)
        /\ sector' = WriteConfigToDisk(sector, DefaultConfig(settings))
  /\ rc' = "PRELOAD" /\ Goes("store.clean")
  /\ UNCHANGED <<clockVars, menuVars, settings, nic, saved, loadVars>>

StoreCleanUp ==
  /\ pc = "store.clean"
  /\ held' = held \ {"segment", "block"} /\ pc' = "down.clean"
  /\ UNCHANGED rc /\ Quiet

DownloadCleanUp ==
  /\ pc = "down.clean" /\ pc' = rc /\ Fails
  /\ held' = IF "download" \in held THEN held \ {"download", "transport"}
             ELSE held
  /\ order' = << >> /\ next' = 0 /\ sectors' = 0
  /\ segment' = "-1" /\ open' = "-1"
  /\ UNCHANGED <<storeVars, runVars>> /\ Loading

-----------------------------------------------------------------------------
(* OEMBootRun: an address nobody set is the last image's.                  *)
Run ==
  /\ pc = "RUN" /\ Goes("running")
  /\ runAddress' = IF runAddress = "0" THEN launch ELSE runAddress
  /\ launch' = runAddress'
  /\ UNCHANGED <<rc, placed, storeVars, downVars>> /\ Loading

(* Power on and reset button: over a reset an image may stay in memory.    *)
Init ==
  /\ ConfigInit
  /\ \E s \in Stores : part = s.part /\ nk = s.nk
  /\ rc = "FAILURE" /\ runAddress = "0"
  /\ launch \in {"0", "host"} /\ placed = IF launch = "0" THEN "none" ELSE launch
  /\ order = << >> /\ next = 0 /\ segment = "-1" /\ open = "-1" /\ sectors = 0

Loads ==
  \/ PreLoad \/ PreLoadPartition \/ PreLoadRead \/ PreLoadCleanUp
  \/ LoadUldr \/ LoadUldrPartition \/ LoadUldrImage \/ LoadUldrCleanUp
  \/ LoadOs \/ LoadOsPartition \/ LoadOsImage \/ LoadOsFat \/ LoadOsFile
  \/ LoadOsNk \/ LoadOsCleanUp

Downloads ==
  \/ Download \/ DownloadInit \/ Jump \/ UnknownType \/ RamImage \/ RamData
  \/ RamDone \/ RamFails \/ StoreImage \/ StoreFormat \/ FormatFails
  \/ StoreData \/ StoreSegment \/ StoreWrite \/ StoreDone \/ StoreCleanUp
  \/ DownloadCleanUp

Boots == PowerOn \/ Loads \/ Downloads \/ Run

Next == Configure \/ Boots

(* The loader runs on and the clock ticks; the user may stay in the menu.  *)
Spec ==
  /\ Init /\ [][Next]_vars
  /\ WF_vars(Boots \/ (ConfigStep /\ UNCHANGED <<rc, loadVars>>))
  /\ WF_vars(TimePasses /\ UNCHANGED <<rc, loadVars>>)

-----------------------------------------------------------------------------
States == {"POWERON", "CONFIG", "DOWNLOAD", "PRELOAD", "LOAD_ULDR", "LOAD_OS",
           "RUN", "FAILURE", "running"}
Handles == {"terminal", "block", "partition", "uldr partition", "fat", "file",
            "transport", "download", "segment"}

WecTypeOK ==
  /\ ConfigTypeOK
  /\ held \subseteq Handles /\ rc \in States
  /\ part \in [Segment -> SUBSET UNION {Need[s] : s \in Segment} \cup {Absent}]
  /\ nk \in BOOLEAN
  /\ {runAddress, launch} \subseteq {"0", "host", "uldr", "os", "nk"}
  /\ placed \in {"none", "host", "uldr", "os", "nk"}
  /\ {segment, open} \subseteq Segment \cup {"-1"}
  /\ sectors \in 0 .. next

(* The processor is sent only to an image that is whole in memory, whatever*)
(* failed on the way and whichever state placed it (run.c:104).            *)
RunsWhatIsPlaced == pc = "running" => runAddress # "0" /\ runAddress = placed

(* Each boot state starts with nothing open of the states before: not a    *)
(* block driver under another, not a partition of a disk that has been     *)
(* formatted.  The exceptions are a transport without download driver and  *)
(* the partition of LOAD_ULDR, after which no driver is opened.            *)
HandlesReturned ==
  pc \in States =>
    held \subseteq
      (IF pc \in {"RUN", "FAILURE", "running"}
       THEN {"transport", "uldr partition"} ELSE {})

(* A store download that reports success has filled every segment, also    *)
(* when the host sends them by turns (download.c:127-197).                 *)
StoreWhole == pc = "store.clean" /\ rc = "PRELOAD" => \A s \in Segment : Whole(s)

(* The boot ends or the user is in the menu; every variable keeps its type *)
(* on the way.                                                             *)
BootEnds == []WecTypeOK /\ <>(pc \in {"running", "FAILURE", "menu"})
=============================================================================
