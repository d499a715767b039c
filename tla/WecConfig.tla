------------------------------ MODULE WecConfig ------------------------------
(***************************************************************************)
(* The settings of wecloader (config.c): read from the configuration       *)
(* sector or made up, changed in a menu that the user enters with a space  *)
(* during a countdown on the CMOS clock, written back to the disk.  Boot   *)
(* device and update flag stand for all settings, which travel together.   *)
(***************************************************************************)
EXTENDS RtcClock

CONSTANTS
  DataSectors,  \* data sectors in front of the file system
  Disks,        \* what the data sectors, and the sector after them, may hold
  Count         \* the countdown starts here

Device == {"none", "store", "edbg"}
Settings == [boot : Device, update : BOOLEAN]
Unsaved == [boot |-> "none", update |-> TRUE]     \* never written

(* A sector: a configuration (of this version or another), the loader's    *)
(* image, the file system's first sector, something without a signature.   *)
Config(s) == [kind |-> "config", current |-> TRUE, is |-> s]
Plain(k) == [kind |-> k, current |-> FALSE, is |-> Unsaved]
Sector == {Plain(k) : k \in {"image", "fat", "other"}} \cup
          [kind : {"config"}, current : BOOLEAN, is : Settings]

ASSUME ConfigAssumption ==
  /\ DataSectors \in Nat \ {0} /\ Count \in Nat \ {0}
  /\ Disks \subseteq [0 .. DataSectors -> Sector]
  /\ \A d \in Disks : \A i \in 0 .. DataSectors :
       d[i].kind = "fat" <=> i = DataSectors

VARIABLES
  pc,          \* the boot state, or the place inside it
  held,        \* the driver handles that are open
  sector,      \* the disk
  settings,    \* the fields of BootLoader_t
  nic,         \* a supported network adapter is on the bus
  saved,       \* history: the settings the user was last told are saved
  count, time, key,   \* locals of TerminalMenu
  waited       \* history: ticks since the countdown began, up to Count

clockVars == <<clockHw, clockSw>>
configVars == <<sector, settings, nic, saved>>
menuVars == <<count, time, key, waited>>

(* A driver's handle; where the code goes on.                              *)
Opens(h, then) == held' = held \cup {h} /\ pc' = then
Goes(then) == pc' = then /\ UNCHANGED held

-----------------------------------------------------------------------------
(* The search for the configuration sector ends at the first sector with   *)
(* either signature, or one past the data sectors.                         *)
FoundAt(d) ==
  LET Signed == {i \in 0 .. (DataSectors - 1) : d[i].kind # "other"}
  IN  IF Signed = {} THEN DataSectors
      ELSE CHOOSE i \in Signed : \A j \in Signed : i <= j

Readable(d) ==
  /\ FoundAt(d) < DataSectors
  /\ d[FoundAt(d)].kind # "image" /\ d[FoundAt(d)].current

ReadConfigFromDisk(d) == d[FoundAt(d)].is

DefaultConfig(s) == IF nic THEN [s EXCEPT !.boot = "edbg"] ELSE s

(* The signature is not among what is written: a sector that had none is   *)
(* still unsigned.                                                         *)
OverImage(d) == TRUE                 \* bug: an image sector ends the search
Writable(d) == FoundAt(d) = DataSectors \/ d[FoundAt(d)].kind # "image"

WriteConfigToDisk(d, s) ==
  [d EXCEPT ![FoundAt(d)] =
     IF FoundAt(d) = DataSectors THEN Plain("other")
     ELSE Config([s EXCEPT !.update = FALSE])]

-----------------------------------------------------------------------------
(* BootLoaderConfig.  Every step of the two disk functions can fail, and   *)
(* they close what they opened.                                            *)
ConfigState ==
  /\ pc = "CONFIG"
  /\ \/ Readable(sector) /\ settings' = ReadConfigFromDisk(sector)
     \/ settings' = DefaultConfig(settings)
  /\ Goes(IF settings'.update THEN "LOAD_ULDR" ELSE "menu.open")
  /\ UNCHANGED <<clockVars, sector, nic, saved, menuVars>>

ByDevice ==
  CASE settings.boot = "edbg" -> "DOWNLOAD"
    [] settings.boot = "store" -> "PRELOAD"
    [] OTHER -> "FAILURE"

OpenTerminal ==
  /\ pc = "menu.open"
  /\ \/ Opens("terminal", "menu.time") /\ count' = Count
        /\ UNCHANGED <<clockVars, configVars, time, key, waited>>
     \/ Goes(ByDevice) /\ ClockRests /\ UNCHANGED <<configVars, menuVars>>

(* The countdown: time passes and the clock is read register by register.  *)
Counting == pc \in {"menu.time", "menu.poll"}

TimePasses ==
  /\ Counting
  /\ \/ Announce /\ UNCHANGED waited
     \/ Tick /\ waited' = IF waited < Count THEN waited + 1 ELSE waited
  /\ UNCHANGED <<pc, held, configVars, count, time, key>>

ReadClock ==
  /\ Counting /\ (CallClock \/ ClockStep)
  /\ UNCHANGED <<pc, held, configVars, menuVars>>

TakeTime ==
  /\ pc = "menu.time" /\ ClockReturns
  /\ time' = tick' /\ Goes("menu.poll")
  /\ UNCHANGED <<configVars, count, key, waited>>

CountsOn(c) == c                     \* bug: the countdown does not go down
Less(c) == c - 1
Left(c) == c > 0

SameSecond ==                        \* a key is looked for
  /\ pc = "menu.poll" /\ ClockReturns /\ tick' = time
  /\ \/ key' = "space" /\ count' = Less(count) /\ Goes("menu.end")
     \/ UNCHANGED <<key, count, pc, held>>
  /\ UNCHANGED <<configVars, time, waited>>

Round == "menu.time"

NextSecond ==
  /\ pc = "menu.poll" /\ ClockReturns /\ tick' # time
  /\ count' = Less(count)
  /\ Goes(IF Left(count') THEN Round ELSE "menu.end")
  /\ UNCHANGED <<configVars, time, key, waited>>

CountdownEnds ==
  /\ pc = "menu.end" /\ ClockRests
  /\ Goes(IF key = "space" THEN "menu" ELSE "menu.close")
  /\ count' = 0 /\ time' = 0 /\ key' = "none" /\ waited' = 0
  /\ UNCHANGED configVars

(* The menu.                                                               *)
SelectDevice ==
  /\ pc = "menu"
  /\ \E d \in {"store"} \cup (IF nic THEN {"edbg"} ELSE {}) :
       settings' = [settings EXCEPT !.boot = d]
  /\ UNCHANGED <<pc, held, clockVars, sector, nic, saved, menuVars>>

SaveSettings ==
  /\ pc = "menu" /\ Writable(sector)
  /\ sector' = WriteConfigToDisk(sector, settings)
  /\ saved' = [settings EXCEPT !.update = FALSE]
  /\ UNCHANGED <<pc, held, clockVars, settings, nic, menuVars>>

LeaveMenu ==
  /\ pc = "menu" /\ Goes("menu.close")
  /\ UNCHANGED <<clockVars, configVars, menuVars>>

CloseTerminal ==
  /\ pc = "menu.close"
  /\ held' = held \ {"terminal"} /\ pc' = ByDevice
  /\ UNCHANGED <<clockVars, configVars, menuVars>>

ConfigInit ==
  /\ ClockInit
  /\ pc = "POWERON" /\ held = {}
  /\ sector \in Disks /\ nic \in BOOLEAN /\ saved = Unsaved
  /\ settings = [boot |-> "none", update |-> FALSE]
  /\ count = 0 /\ time = 0 /\ key = "none" /\ waited = 0

ConfigStep ==
  \/ ConfigState \/ OpenTerminal \/ ReadClock \/ TakeTime \/ SameSecond
  \/ NextSecond \/ CountdownEnds \/ CloseTerminal

User == SelectDevice \/ SaveSettings \/ LeaveMenu

-----------------------------------------------------------------------------
ConfigTypeOK ==
  /\ ClockTypeOK
  /\ sector \in [0 .. DataSectors -> Sector]
  /\ settings \in Settings /\ nic \in BOOLEAN
  /\ saved \in Settings \cup {Unsaved}
  /\ count \in 0 .. Count /\ time \in 0 .. (Wrap - 1)
  /\ key \in {"none", "space"} /\ waited \in 0 .. Count

(* From one call of OEMBootGetTickCount to the next the result grows by the*)
(* ticks that came, also when one falls between two registers and when an  *)
(* hour begins (init.c:376-407).  Before the first call there is no base.  *)
(* And an untouched countdown leaves the user its full time, however the   *)
(* ticks fall between the reads of the clock (config.c:1346-1359).         *)
ClockTrue ==
  /\ [][rpc = "again" /\ rpc' = "idle" /\ (count < Count \/ pc = "menu.poll")
        => tick' = (tick + unseen) % Wrap]_<<clockVars, menuVars, pc>>
  /\ [](pc = "menu.end" /\ key = "none" => waited = Count)

(* Only formatting changes the sector where the image of the loader itself *)
(* begins; saving, by the user or after a download, does not (config.c:441).*)
ImageKept ==
  [][pc # "store.format" =>
       \A i \in 0 .. DataSectors :
         sector[i].kind = "image" => sector'[i] = sector[i]]_sector

(* What the user was told is saved is what the next boot reads             *)
(* (config.c:1235).                                                        *)
SavedSettingsAreRead ==
  saved # Unsaved => Readable(sector) /\ ReadConfigFromDisk(sector) = saved
=============================================================================
