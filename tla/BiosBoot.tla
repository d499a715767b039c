------------------------------ MODULE BiosBoot ------------------------------
(***************************************************************************)
(* The BIOS loader of biosloader/loader/Fixed from blMain to the jump:     *)
(* main.c, and the files it reads in ini.c and splash.c.  The floppy       *)
(* loader has the same text, without the hook and with a silent halt.      *)
(*                                                                         *)
(* The content of a BIN file is a sequence of cells: the image header;     *)
(* for every record its header and the cells of its body; the last header, *)
(* with address and checksum 0 and the address to start at.                *)
(***************************************************************************)
EXTENDS BiosDecoder

CONSTANTS
  Addresses,       \* load addresses
  INI_RAW_DATA_LENGTH,
  BMP_RAW_DATA_LENGTH,
  Keys,            \* keys with a character other than blank
  NoImage          \* the empty name

ASSUME BiosAssumption ==
  /\ INI_RAW_DATA_LENGTH \in Nat \ {0} /\ BMP_RAW_DATA_LENGTH \in Nat
  /\ \A v \in Volumes :
       {NoImage, "boot.ini", "splash.bmx", "splash.bmp", "eboot.bin"} \subseteq DOMAIN v

VARIABLES
  stage,      \* place in blMain and its callees; "jumped" and "halted" end it
  ready,      \* BINCOMPRESS_INIT succeeded
  IniParams,  \* [image, backup, users, delay, video]
  delay,      \* polls of the keyboard left
  chosen,     \* szUserSelectableImage, or NoImage
  untried,    \* images still to be tried, in their order
  loading,    \* the image that is being loaded
  target,     \* RecordAddr of the record whose body is read
  ram,        \* what each address holds: [image, record], Old or Spoiled
  ImgAddr

bin == <<loading, target, ram, ImgAddr>>
bootParams == <<ready, IniParams, delay, chosen, untried>>
biosVars == <<stage, bootParams, bin, decoderVars>>

Old == [image |-> NoImage, record |-> 0]
Spoiled == [image |-> NoImage, record |-> 1]

(* SetDefaultBootArgs; szBackupImage is empty as the loader starts.        *)
SetDefaultBootArgs ==
  [image |-> "eboot.bin", backup |-> NoImage, users |-> <<>>, delay |-> 0,
   video |-> TRUE]

BiosInit ==
  /\ stage = "entry" /\ ready = FALSE
  /\ IniParams = SetDefaultBootArgs
  /\ delay = 0 /\ chosen = NoImage /\ untried = <<>>
  /\ loading = NoImage /\ target = 0 /\ ImgAddr = 0
  /\ ram = [a \in Addresses |-> Old]
  /\ DecoderInit

-----------------------------------------------------------------------------
(* blMain: CopyDataSections, then CeCompressInit with FSInit and the       *)
(* decoder's creation; FSPreHook returns TRUE on every file system.        *)
CopyDataSections ==
  /\ stage = "entry"
  /\ stage' \in {"init", "halted"}
  /\ UNCHANGED <<bootParams, bin, decoderVars>>

CeCompressInit ==
  /\ stage = "init"
  /\ \/ ready' = TRUE /\ stage' = "ini"
     \/ ready' = FALSE /\ stage' = "halted"
  /\ UNCHANGED <<IniParams, delay, chosen, untried, bin, decoderVars>>

(* LoadIniFile: boot.ini is opened through the decoder.                    *)
OpenIni ==
  /\ stage = "ini"
  /\ \/ OpenWorks("boot.ini") /\ stage' = "ini read"
     \/ OpenFails("boot.ini") /\ stage' = "splash"
  /\ UNCHANGED <<bootParams, bin>>

(* But it is read past it: of a packed file come the packed cells.  A file *)
(* that does not fit is cut to the buffer's length, and the 0 behind its   *)
(* text falls outside the buffer, on the decoder's work area.              *)
TooLong == originalFileLength > INI_RAW_DATA_LENGTH - 1
IniFileLen == IF TooLong THEN INI_RAW_DATA_LENGTH ELSE originalFileLength

(* SetUserBootArgs; the settings lie within the buffer, and may be found   *)
(* in packed cells or not.  Where nothing is said of the video it is off.  *)
NothingSet == [IniParams EXCEPT !.video = FALSE]
SetUserBootArgs == {File.settings} \cup (IF compressedFile THEN {NothingSet} ELSE {})

ReadIni ==
  /\ stage = "ini read" /\ stage' = "splash"
  /\ \/ FSReads(IniFileLen) /\ IniParams' \in SetUserBootArgs
        /\ workHit' = (workHit \/ TooLong)
     \/ FSReadFails(IniFileLen) /\ UNCHANGED <<IniParams, workHit>>
  /\ FSCloseFile /\ NoCall
  /\ UNCHANGED <<ready, delay, chosen, untried, bin, vol, originalFileLength,
                 compressedFile, block>>

-----------------------------------------------------------------------------
(* InitSplashScreen and ShowSplashImage.                                   *)

ToKeys == stage' = "keys" /\ delay' = IniParams.delay

(* No video at all, or no mode for it, or none that can be set.            *)
NoSplash ==
  /\ stage = "splash" /\ ToKeys
  /\ UNCHANGED <<ready, IniParams, chosen, untried, bin, decoderVars>>

(* The packed bitmap, else the plain one, else a splash screen without.    *)
OpenSplash(name, otherwise) ==
  /\ stage = (IF name = "splash.bmx" THEN "splash" ELSE "splash plain")
  /\ stage = "splash" => IniParams.video
  /\ \/ OpenWorks(name) /\ stage' = "splash size" /\ UNCHANGED delay
     \/ OpenFails(name) /\ stage' = otherwise
        /\ delay' = IF otherwise = "keys" THEN IniParams.delay ELSE delay
  /\ UNCHANGED <<ready, IniParams, chosen, untried, bin>>

(* A bitmap that is too long is left open.                                 *)
SplashTooLong ==
  /\ stage = "splash size" /\ originalFileLength > BMP_RAW_DATA_LENGTH
  /\ ToKeys
  /\ UNCHANGED <<ready, IniParams, chosen, untried, bin, decoderVars>>

AskSplash ==
  /\ stage = "splash size" /\ originalFileLength <= BMP_RAW_DATA_LENGTH
  /\ Asks(originalFileLength) /\ stage' = "splash read"
  /\ UNCHANGED <<bootParams, bin>>

SplashRead ==
  /\ stage = "splash read" /\ Answered
  /\ CeCompressCloseFile /\ ToKeys
  /\ UNCHANGED <<ready, IniParams, chosen, untried, bin>>

-----------------------------------------------------------------------------
(* SetUserSelectableBinFile: the last key pressed since the last poll.     *)

UserImage(key) ==
  IF key \in DOMAIN IniParams.users THEN IniParams.users[key] ELSE NoImage

ToLoad(image) ==
  /\ chosen' = image
  /\ untried' = (IF image = NoImage THEN <<>> ELSE <<image>>)
                   \o <<IniParams.image, IniParams.backup>>
  /\ stage' = "open"

KeyPressed ==
  /\ stage = "keys" /\ \E key \in Keys : ToLoad(UserImage(key))
  /\ UNCHANGED <<ready, IniParams, delay, bin, decoderVars>>

(* The space bar, or no key within the time.  Keys without a character do  *)
(* not count.                                                              *)
NoSelection ==
  /\ stage = "keys" /\ ToLoad(NoImage)
  /\ UNCHANGED <<ready, IniParams, delay, bin, decoderVars>>

PollAgain ==
  /\ stage = "keys" /\ delay > 1 /\ delay' = delay - 1
  /\ UNCHANGED <<stage, ready, IniParams, chosen, untried, bin, decoderVars>>

-----------------------------------------------------------------------------
(* LoadBINFile for one image after the other.                              *)

GiveUpAll == stage' = "halted"      \* bug: the images after this one are not tried
GiveUp == stage' = IF untried = <<>> THEN "halted" ELSE "open"

OpenImage ==
  /\ stage = "open"
  /\ loading' = untried[1] /\ untried' = Tail(untried) /\ ImgAddr' = 0
  /\ \/ OpenWorks(untried[1]) /\ stage' = "opened"
     \/ OpenFails(untried[1])
        /\ stage' = IF Len(untried) = 1 THEN "halted" ELSE "open"
  /\ UNCHANGED <<ready, IniParams, delay, chosen, target, ram>>

AskHeader ==
  /\ stage = "opened" /\ Asks(1) /\ stage' = "image header"
  /\ UNCHANGED <<bootParams, bin>>

(* Whatever the image header says.                                         *)
AskRecord ==
  /\ stage = "image header" /\ Answered /\ ~broke
  /\ Asks(1) /\ stage' = "record header"
  /\ UNCHANGED <<bootParams, bin>>

HeaderUnread ==
  /\ stage \in {"image header", "record header"} /\ Answered /\ broke
  /\ GiveUp /\ UNCHANGED <<bootParams, bin, decoderVars>>

(* What a cell is in the image; zeros make a header with address 0.        *)
LastHeader(start) == [kind |-> "last", start |-> start]
Item == IF given[1] = Zero THEN LastHeader(0) ELSE File.data[given[1].offset + 1]

LastRecord ==
  /\ stage = "record header" /\ Answered /\ ~broke /\ Item.kind = "last"
  /\ ImgAddr' = Item.start
  /\ CeCompressCloseFile /\ stage' = "loaded"
  /\ UNCHANGED <<bootParams, loading, target, ram>>

AskBody ==
  /\ stage = "record header" /\ Answered /\ ~broke /\ Item.kind = "record"
  /\ target' = Item.addr
  /\ Asks(Item.len) /\ stage' = "body"
  /\ UNCHANGED <<bootParams, loading, ram, ImgAddr>>

(* The record whose body was delivered, if all of it was.                  *)
BodyRecords ==
  {r \in 1 .. Len(File.data) :
     /\ File.data[r].kind = "record" /\ File.data[r].len = Len(given)
     /\ \A i \in 1 .. Len(given) : given[i] = Byte(r + i - 1)}
Delivered ==
  IF BodyRecords = {} THEN Spoiled
  ELSE [image |-> loading, record |-> CHOOSE r \in BodyRecords : TRUE]

RecordBody ==
  /\ stage = "body" /\ Answered /\ ~broke
  /\ ram' = [ram EXCEPT ![target] = Delivered]
  /\ Asks(1) /\ stage' = "record header"
  /\ UNCHANGED <<bootParams, loading, target, ImgAddr>>

(* Part of the body may be in memory.  The file is left open.              *)
BodyFails ==
  /\ stage = "body" /\ Answered /\ broke
  /\ ram' = [ram EXCEPT ![target] = Spoiled]
  /\ GiveUp /\ UNCHANGED <<bootParams, loading, target, ImgAddr, decoderVars>>

(* The video mode is set, or a fallback, and the interrupts are masked.    *)
AnyAddress == TRUE             \* bug: what no image was loaded from is jumped to
HasAddress == ImgAddr # 0

JumpToImage ==
  /\ stage = "loaded"
  /\ stage' = IF HasAddress THEN "jumped" ELSE "halted"
  /\ UNCHANGED <<bootParams, bin, decoderVars>>

Read == DecoderStep /\ UNCHANGED <<stage, bootParams, bin>>

-----------------------------------------------------------------------------
BiosStep ==
  \/ CeCompressInit \/ OpenIni \/ ReadIni
  \/ NoSplash \/ OpenSplash("splash.bmx", "splash plain")
  \/ OpenSplash("splash.bmp", "keys") \/ SplashTooLong \/ AskSplash \/ SplashRead
  \/ KeyPressed \/ NoSelection \/ PollAgain
  \/ OpenImage \/ AskHeader \/ AskRecord \/ HeaderUnread \/ LastRecord
  \/ AskBody \/ RecordBody \/ BodyFails \/ JumpToImage
  \/ Read

BiosNext == CopyDataSections \/ BiosStep

(* One processor runs the loader and nothing else.                         *)
BiosFairness == WF_biosVars(BiosStep)
BiosSpec == BiosInit /\ [][BiosNext]_biosVars /\ BiosFairness

-----------------------------------------------------------------------------
Order ==
  (IF chosen = NoImage THEN <<>> ELSE <<chosen>>)
    \o <<IniParams.image, IniParams.backup>>
Tried ==
  LET first == CHOOSE k \in DOMAIN Order :
                 Order[k] = loading /\ \A j \in 1 .. k - 1 : Order[j] # loading
  IN  SubSeq(Order, 1, first - 1)

(* What can be loaded if no read fails: what is there as it was written.   *)
(* Once the decoder's work area is hit that may not be so of packed files. *)
Loadable(name) ==
  /\ vol[name] # NoFile /\ vol[name].whole
  /\ ~(workHit /\ IsPacked(vol[name]))

(* An image that was cut off, with zeros behind its end: they are taken    *)
(* for a last header, the load succeeds, and the backup is not tried.      *)
LoadsNothing(name) ==
  vol[name] # NoFile /\ ~vol[name].whole /\ vol[name].slack > 0

BiosTypeOK ==
  /\ stage \in {"entry", "init", "ini", "ini read", "splash", "splash plain",
       "splash size", "splash read", "keys", "open", "opened", "image header",
       "record header", "body", "loaded", "jumped", "halted"}
  /\ ready \in BOOLEAN /\ delay \in Nat
  /\ DOMAIN IniParams = {"image", "backup", "users", "delay", "video"}
  /\ {chosen, loading} \subseteq DOMAIN vol /\ untried \in Seq(DOMAIN vol)
  /\ target \in Addresses \cup {0} /\ ImgAddr \in Nat
  /\ DOMAIN ram = Addresses
  /\ DecoderTypeOK

RecordsAt(f, a) ==
  {r \in 1 .. Len(f.data) : f.data[r].kind = "record" /\ f.data[r].addr = a}
IsLastOf(S, r) == r \in S /\ \A q \in S : q <= r

(* What is jumped to is an image that is whole, at the address its last    *)
(* header names, with every record in memory as the image has it, plain or *)
(* packed, whatever was loaded in part before it; and it is the first      *)
(* choice, unless the images before it are missing, cut off, or were hit   *)
(* by a read that failed or by the settings file that was too long.        *)
BootsRight ==
  /\ BiosTypeOK
  /\ stage = "jumped" =>
       LET f == vol[loading]
       IN  /\ f.whole /\ ImgAddr = f.data[Len(f.data)].start
           /\ \A a \in Addresses : RecordsAt(f, a) # {} =>
                /\ ram[a].image = loading
                /\ IsLastOf(RecordsAt(f, a), ram[a].record)
           /\ \A i \in DOMAIN Tried : Loadable(Tried[i]) => faults > 0

(* What the disk comes with: a file is there as it was written, plain or   *)
(* packed, or the beginning of one; and the settings name images or what   *)
(* is not there.  A record has a body, of cells that are no headers.       *)
Forms(n) ==
  {Bytes(0, n)} \cup {Packed(n, m) : m \in [1 .. NumBlocks(n) -> 1 .. MaxBlock]}
WasWritten(f) ==
  /\ Len(f.data) \in Nat /\ f.slack \in Nat
  /\ \E w \in Forms(Len(f.data)) : \E n \in 0 .. Len(w) :
       f.cells = SubSeq(w, 1, n) /\ f.whole = (n = Len(w))

Headers(data) == {p \in 2 .. Len(data) : data[p].kind \in {"record", "last"}}
IsImage(data) ==
  /\ 2 \in Headers(data) /\ data[1].kind = "head"
  /\ \A p \in Headers(data) :
       IF data[p].kind = "last" THEN p = Len(data) /\ data[p].start \in Nat
       ELSE /\ data[p].len \in Nat \ {0} /\ data[p].addr \in Addresses
            /\ p + data[p].len + 1 \in Headers(data)
            /\ (p + 1 .. p + data[p].len) \cap Headers(data) = {}

ImageNames(v) == {name \in DOMAIN v : v[name] # NoFile => IsImage(v[name].data)}
Settings(v) ==
  [image : ImageNames(v), backup : ImageNames(v),
   users : UNION {[K -> ImageNames(v)] : K \in SUBSET Keys}, delay : Nat, video : BOOLEAN]

VolumesWritten ==
  \A v \in Volumes :
    /\ \A name \in DOMAIN v : v[name] # NoFile => WasWritten(v[name])
    /\ {"eboot.bin", NoImage} \subseteq ImageNames(v)
    /\ v["boot.ini"] # NoFile /\ SizeOnDisk(v["boot.ini"]) > 0 =>
         v["boot.ini"].settings \in Settings(v)

(* The boot comes to its end: in an image, or halted for a cause, which is *)
(* that the loader did not come up, a read failed, no image can be loaded, *)
(* or one that was cut off stood before it.                                *)
Cause ==
  \/ ~ready \/ faults > 0
  \/ \A k \in DOMAIN Order :
       Loadable(Order[k]) => \E j \in 1 .. k - 1 : LoadsNothing(Order[j])

BootOver == stage = "jumped" \/ (stage = "halted" /\ Cause)
BiosEnds == stage # "entry" ~> BootOver
=============================================================================
