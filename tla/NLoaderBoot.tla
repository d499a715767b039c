----------------------------- MODULE NLoaderBoot -----------------------------
(***************************************************************************)
(* NLoader from its entry to the jump into the image: BootMain             *)
(* (core/common/main.c), OEMBootMain (nldr/main.c) and the calls they make *)
(* for BOOT.INI, the splash bitmap and the BIN image.  The file system is  *)
(* what FatReader promises: one open file, reads that fail or deliver the  *)
(* file's next bytes, and at the end of the file at most a cluster of      *)
(* slack; the heap is what BootHeap promises.                              *)
(*                                                                         *)
(* A BIN file is a sequence of items: the image header, then for every     *)
(* record its header and its body, then the last header, whose address and *)
(* checksum are 0 and whose length is the address to start at.             *)
(***************************************************************************)
EXTENDS Integers, Sequences

CONSTANTS
  FileSystems,  \* kinds the boot sector's parameter block may name
  Images,       \* [records, whole, slack]: the address of each record, how
                \*   many items the file really holds, what follows its end
  Addresses,    \* load addresses
  ImageStart,        \* the start address the last header holds
  MaxSlack,     \* bound: reads that end in the slack after the file
  MaxRows,      \* bound: reads of splash bitmap data
  MaxReadFaults     \* bound: reads that fail inside a file

ASSUME BootAssumption ==
  /\ {MaxSlack, MaxRows, MaxReadFaults} \subseteq Nat
  /\ ImageStart # 0
  /\ \A i \in Images :
       /\ i.records \in Seq(Addresses) /\ i.slack \in {"zero", "other"}
       /\ i.whole \in 0 .. (2 * Len(i.records) + 2)

VARIABLES
  stage,       \* place in BootMain and its callees; "jumped", "halted" and
            \*   "wild" (a call through an unset pointer, or memory
            \*   overwritten) end it
  volume,   \* the file system of the boot volume
  image,    \* the BIN file
  fsReady,  \* the file system's FSInit has run
  open,     \* the file in g_FileInfo: "none", "ini", "splash" or "image"
  buffers,  \* heap blocks not given back, by what they were allocated for
  modeSet,  \* how often SetDisplayMode was tried
  rows,     \* bitmap reads done
  item,     \* items of the BIN file read
  target,   \* RecordHdr.RecordAddr while a body is read
  slackUsed,\* reads that ended in the slack
  ram,      \* what each load address holds: Old, Garbage or a record
  launch,   \* *pImageLoc
  readFaults    \* reads that failed inside a file

bootVars == <<stage, volume, image, fsReady, open, buffers, modeSet, rows, item,
          target, slackUsed, ram, launch, readFaults>>
given == <<volume, image>>
bin == <<item, target, slackUsed, ram, launch>>
display == <<modeSet, rows>>

Old == 0
Garbage == -1

BootInit ==
  /\ stage = "entry"
  /\ volume \in FileSystems /\ image \in Images
  /\ fsReady = FALSE /\ open = "none" /\ buffers = {}
  /\ modeSet = 0 /\ rows = 0
  /\ item = 0 /\ target = 0 /\ slackUsed = 0 /\ launch = 0 /\ readFaults = 0
  /\ ram = [a \in Addresses |-> Old]

-----------------------------------------------------------------------------
(* BootMain: without a table of contents there is nothing to run.          *)
BootMain ==
  /\ stage = "entry"
  /\ stage' \in {"filesys", "halted"}
  /\ UNCHANGED <<given, fsReady, open, buffers, display, bin, readFaults>>

(* InitializeFileSys, called by OEMBootInit, which ignores its result:     *)
(* FAT12 and exFAT are left without FSInit, any other type has no FSInit.  *)
InitializeFileSys ==
  /\ stage = "filesys"
  /\ fsReady' = (volume \in {"FAT16", "FAT32"})
  /\ stage' = IF volume = "other" THEN "wild" ELSE "ini"
  /\ UNCHANGED <<given, open, buffers, display, bin, readFaults>>

(* FSOpenFile finds the file or not, or jumps through an unset pointer.    *)
OpenFile(name, found, notFound) ==
  \/ /\ ~fsReady /\ stage' = "wild" /\ open' = open
  \/ /\ fsReady /\ stage' = found /\ open' = name
  \/ /\ fsReady /\ stage' = notFound /\ open' = open

(* A read inside a file that is whole delivers its bytes or fails.         *)
ReadFails == readFaults < MaxReadFaults /\ readFaults' = readFaults + 1
ReadWorks == readFaults' = readFaults

-----------------------------------------------------------------------------
(* BootArgsLoadIniFileData and LoadIniFile; no failure of theirs stops the *)
(* boot.                                                                   *)

IgnoreIni ==
  /\ stage = "ini" /\ stage' = "display"
  /\ UNCHANGED <<given, fsReady, open, buffers, display, bin, readFaults>>

OpenIni ==
  /\ stage = "ini"
  /\ OpenFile("ini", "ini alloc", "display")
  /\ UNCHANGED <<given, fsReady, buffers, display, bin, readFaults>>

AllocIni ==
  /\ stage = "ini alloc"
  /\ \/ /\ stage' = "ini read" /\ buffers' = buffers \cup {"ini"} /\ open' = open
     \/ /\ stage' = "display" /\ buffers' = buffers /\ open' = "none"
  /\ UNCHANGED <<given, fsReady, display, bin, readFaults>>

(* The settings are parsed and the buffer is freed; after a failed read it *)
(* is not: the caller never sees it.  A value as long as its buffer makes  *)
(* the parser fill memory without end (IniParser).                         *)
ReadIni ==
  /\ stage = "ini read"
  /\ \/ ReadWorks /\ stage' = "display" /\ buffers' = buffers \ {"ini"}
     \/ ReadWorks /\ stage' = "wild" /\ buffers' = buffers
     \/ ReadFails /\ stage' = "display" /\ buffers' = buffers
  /\ open' = "none"
  /\ UNCHANGED <<given, fsReady, display, bin>>

-----------------------------------------------------------------------------
(* SetDisplayMode: once for the wanted mode, once for the best one; then   *)
(* the image is loaded with or without a splash screen.                    *)

Headless ==
  /\ stage = "display" /\ modeSet = 0
  /\ stage' = "load"
  /\ UNCHANGED <<given, fsReady, open, buffers, display, bin, readFaults>>

SetDisplayMode ==
  /\ stage = "display"
  /\ modeSet' = modeSet + 1
  /\ stage' \in {"splash", IF modeSet = 0 THEN "display" ELSE "load"}
  /\ UNCHANGED <<given, fsReady, open, buffers, rows, bin, readFaults>>

(* DrawSplashImage                                                         *)
OpenSplash ==
  /\ stage = "splash"
  /\ OpenFile("splash", "splash head", "splash end")
  /\ UNCHANGED <<given, fsReady, buffers, display, bin, readFaults>>

(* Both headers; any other kind of file ends the routine, as a failed read *)
(* does.  An 8-bit bitmap has a color table.                               *)
SplashHeaders ==
  /\ stage = "splash head"
  /\ \/ ReadWorks /\ stage' \in {"splash end", "splash colors", "splash bits"}
     \/ ReadFails /\ stage' = "splash end"
  /\ UNCHANGED <<given, fsReady, open, buffers, display, bin>>

SplashColors ==
  /\ stage = "splash colors"
  /\ \/ stage' = "splash end" /\ ReadWorks /\ buffers' = buffers
     \/ /\ buffers' = buffers \cup {"colors"}
        /\ \/ ReadWorks /\ stage' = "splash bits"
           \/ ReadFails /\ stage' = "splash end"
  /\ UNCHANGED <<given, fsReady, open, display, bin>>

(* The row buffer is allocated; then the mode may turn out to be unknown.  *)
SplashBits ==
  /\ stage = "splash bits"
  /\ \/ stage' = "splash end" /\ buffers' = buffers
     \/ /\ buffers' = buffers \cup {"bits"}
        /\ stage' \in {"splash rows", "splash end"}
  /\ UNCHANGED <<given, fsReady, open, display, bin, readFaults>>

(* The bitmap's data in parts; a part may run past the end of the file.    *)
SplashRows ==
  /\ stage = "splash rows"
  /\ \/ ReadWorks /\ rows < MaxRows /\ rows' = rows + 1 /\ stage' = "splash rows"
     \/ ReadFails /\ rows' = rows /\ stage' = "splash end"
     \/ ReadWorks /\ rows' = rows /\ stage' = "splash end"
  /\ UNCHANGED <<given, fsReady, open, buffers, modeSet, bin>>

(* Bug: a buffer is left behind.                                           *)
SplashReturnColors ==
  /\ stage = "splash end" /\ stage' = "load"
  /\ open' = "none" /\ buffers' = buffers \ {"bits"}
  /\ UNCHANGED <<given, fsReady, display, bin, readFaults>>

SplashReturn ==
  /\ stage = "splash end" /\ stage' = "load"
  /\ open' = "none" /\ buffers' = buffers \ {"bits", "colors"}
  /\ UNCHANGED <<given, fsReady, display, bin, readFaults>>

-----------------------------------------------------------------------------
(* LoadBINFile                                                             *)

OpenImage ==
  /\ stage = "load"
  /\ OpenFile("image", "image head", "halted")
  /\ UNCHANGED <<given, fsReady, buffers, display, bin, readFaults>>

(* A read of the next item: its bytes, slack in their place, or a failure. *)
ReadItem(outcome) ==
  /\ item' = item + 1
  /\ CASE outcome = "data"  -> item < image.whole /\ ReadWorks
                               /\ slackUsed' = slackUsed
       [] outcome = "slack" -> item >= image.whole /\ slackUsed < MaxSlack
                               /\ slackUsed' = slackUsed + 1 /\ ReadWorks
       [] outcome = "fail"  -> /\ \/ ReadFails
                                  \/ item >= image.whole /\ ReadWorks
                               /\ slackUsed' = slackUsed

ImageHeader ==
  /\ stage = "image head"
  /\ \/ ReadItem("data") /\ stage' = "record"
     \/ ReadItem("slack") /\ stage' = "record"
     \/ ReadItem("fail") /\ stage' = "halted"
  /\ UNCHANGED <<given, fsReady, open, buffers, display, target, ram, launch>>

Records == image.records
AtRecord == (item + 1) \div 2      \* the record whose header or body is next
IsLastHeader == item = 2 * Len(Records) + 1

RecordHeader ==
  /\ stage = "record"
  /\ ReadItem("data") /\ ~IsLastHeader
  /\ target' = Records[AtRecord] /\ stage' = "body"
  /\ UNCHANGED <<given, fsReady, open, buffers, display, ram, launch>>

(* Slack of zeros looks like the last header; any other slack like a       *)
(* record for some address.                                                *)
SlackHeader ==
  /\ stage = "record" /\ image.slack = "other"
  /\ ReadItem("slack")
  /\ target' \in Addresses /\ stage' = "body"
  /\ UNCHANGED <<given, fsReady, open, buffers, display, ram, launch>>

LastHeader ==
  /\ stage = "record"
  /\ \/ ReadItem("data") /\ IsLastHeader /\ launch' = ImageStart
     \/ ReadItem("slack") /\ image.slack = "zero" /\ launch' = 0
  /\ stage' = "jump" /\ open' = "none"
  /\ UNCHANGED <<given, fsReady, buffers, display, target, ram>>

HeaderFails ==
  /\ stage = "record" /\ ReadItem("fail")
  /\ stage' = "halted"
  /\ UNCHANGED <<given, fsReady, open, buffers, display, target, ram, launch>>

(* The body goes straight to its address; the checksum is not looked at.   *)
RecordBody ==
  /\ stage = "body" /\ ReadItem("data")
  /\ ram' = [ram EXCEPT ![target] = AtRecord]
  /\ stage' = "record"
  /\ UNCHANGED <<given, fsReady, open, buffers, display, target, launch>>

SlackBody ==
  /\ stage = "body" /\ ReadItem("slack")
  /\ ram' = [ram EXCEPT ![target] = Garbage]
  /\ stage' = "record"
  /\ UNCHANGED <<given, fsReady, open, buffers, display, target, launch>>

(* Bug: the result of FSReadFile is not looked at.                         *)
BodyFailsUnseen ==
  /\ stage = "body" /\ ReadItem("fail")
  /\ ram' \in {ram, [ram EXCEPT ![target] = Garbage]}
  /\ stage' = "record"
  /\ UNCHANGED <<given, fsReady, open, buffers, display, target, launch>>

BodyFails ==
  /\ stage = "body" /\ ReadItem("fail")
  /\ ram' \in {ram, [ram EXCEPT ![target] = Garbage]}
  /\ stage' = "halted"
  /\ UNCHANGED <<given, fsReady, open, buffers, display, target, launch>>

(* FinalBootArgsSet and BootJumpTo.                                        *)
BootJumpTo ==
  /\ stage = "jump" /\ stage' = "jumped"
  /\ UNCHANGED <<given, fsReady, open, buffers, display, bin, readFaults>>

-----------------------------------------------------------------------------
(* Everything after BootMain's look at the table of contents.              *)
BootStep ==
  \/ InitializeFileSys
  \/ IgnoreIni \/ OpenIni \/ AllocIni \/ ReadIni
  \/ Headless \/ SetDisplayMode
  \/ OpenSplash \/ SplashHeaders \/ SplashColors \/ SplashBits \/ SplashRows
  \/ SplashReturn
  \/ OpenImage \/ ImageHeader
  \/ RecordHeader \/ SlackHeader \/ LastHeader \/ HeaderFails
  \/ RecordBody \/ SlackBody \/ BodyFails
  \/ BootJumpTo

BootNext == BootMain \/ BootStep

(* One processor runs the loader and nothing else.                         *)
BootFairness == WF_bootVars(BootStep)
BootSpec == BootInit /\ [][BootNext]_bootVars /\ BootFairness

-----------------------------------------------------------------------------
(* Properties                                                              *)

Ended == stage \in {"jumped", "halted", "wild"}

(* The variables have their types.                                         *)
BootTypes ==
  /\ stage \in {"entry", "filesys", "ini", "ini alloc", "ini read", "display",
             "splash", "splash head", "splash colors", "splash bits",
             "splash rows", "splash end", "load", "image head", "record",
             "body", "jump", "jumped", "halted", "wild"}
  /\ volume \in FileSystems /\ image \in Images
  /\ open \in {"none", "ini", "splash", "image"}
  /\ buffers \subseteq {"ini", "colors", "bits"}
  /\ modeSet \in 0 .. 2 /\ rows \in 0 .. MaxRows
  /\ item \in Nat /\ target \in Addresses \cup {0}
  /\ slackUsed \in 0 .. MaxSlack /\ readFaults \in 0 .. MaxReadFaults
  /\ ram \in [Addresses -> Int] /\ launch \in {0, ImageStart}
BootTypeOK == BootTypes /\ fsReady \in BOOLEAN

(* What the image's records make of the memory, the last one winning.      *)
Loaded ==
  [a \in Addresses |->
     LET here == {k \in 1 .. Len(Records) : Records[k] = a}
     IN  IF here = {} THEN Old
         ELSE CHOOSE k \in here : \A j \in here : j <= k]

Whole == image.whole = 2 * Len(Records) + 2

(* The processor is sent to the image's start address only when every      *)
(* record is in memory as the file has it, whichever reads failed on the   *)
(* way.  Of an image that was cut off none is started, unless the slack    *)
(* after it is zero and is taken for a last header that starts address 0.  *)
JumpsOnlyToWholeImage ==
  stage \in {"jump", "jumped"} =>
    IF Whole THEN launch = ImageStart /\ ram = Loaded
    ELSE image.slack = "zero" /\ launch = 0

(* The file system has room for one open file: no file is opened while     *)
(* another one is, although every routine has several ways out.            *)
OneFileAtATime == stage \in {"ini", "splash", "load"} => open = "none"

(* When the image takes over, the heap has all its memory back but for     *)
(* the buffer of a BOOT.INI that could not be read.  And every variable    *)
(* has its type, and one file at most is open.                             *)
BuffersReturned ==
  /\ BootTypeOK /\ OneFileAtATime
  /\ stage \in {"load", "jump"} => buffers \subseteq {"ini"} /\ (buffers # {} => readFaults > 0)

(* The boot comes to an end: in the image, or in OEMBootPowerOff's halt.   *)
BootEnds == stage # "entry" ~> Ended
=============================================================================
