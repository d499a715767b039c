---------------------------- MODULE NLoaderProofs ----------------------------
(***************************************************************************)
(* Theorems about NLoader: its boot (NLoaderBoot), for every image,        *)
(* wherever its records go and wherever the file is cut off; its reader of *)
(* FAT files (FatReader), for every chain of clusters and every order of   *)
(* calls; its reads of the disk (BiosDisk), for every geometry; and its    *)
(* choice of a video mode (NLoaderScreen), for every list of modes.        *)
(***************************************************************************)
EXTENDS NLoaderBoot, BootHeap, FatReader, BiosDisk, NLoaderScreen, SequenceTheorems,
        WellFoundedInduction, TLAPS

(* One file is open at most, and what a routine allocated it gave back:    *)
(* only the buffer of a BOOT.INI whose read failed is left.                *)
Settled ==
  {"ini read", "display", "splash", "load", "image head", "record", "body", "jump", "jumped"}
KeepInv ==
  /\ stage \in {"entry", "filesys", "ini", "display", "splash", "load"} => open = "none"
  /\ stage \in {"entry", "filesys", "ini", "ini alloc"} => buffers = {} /\ modeSet = 0
  /\ stage = "ini read" => modeSet = 0
  /\ stage = "display" => modeSet \in {0, 1}
  /\ stage \notin {"ini read", "halted", "wild"} /\ "ini" \in buffers => readFaults # 0
  /\ stage \in Settled => buffers \subseteq {"ini"}

(* The memory holds the first r records, the last one winning.             *)
LoadedTo(r) ==
  \A a \in Addresses :
    \/ ram[a] = Old /\ \A k \in 1 .. r : Records[k] # a
    \/ \E k \in 1 .. r :
         ram[a] = k /\ Records[k] = a /\ \A j \in (k + 1) .. r : Records[j] # a

(* Before the image is read nothing is loaded.  Between two records an odd *)
(* number of items is read, inside one an even number; and if the file is  *)
(* whole the records so far are in memory.                                 *)
AtImage == {"image head", "record", "body", "jump", "jumped"}
Ending == {"jumped", "halted", "wild"}
PlaceInv ==
  /\ stage \notin AtImage \cup Ending \/ stage = "image head" =>
       item = 0 /\ LoadedTo(0)
  /\ stage = "record" =>
       \E r \in 0 .. item : item = 2 * r + 1 /\ (Whole => r <= Len(Records) /\ LoadedTo(r))
  /\ stage = "body" =>
       /\ target \in Addresses
       /\ \E r \in 0 .. item :
            /\ item = 2 * r + 2
            /\ Whole => r < Len(Records) /\ target = Records[r + 1] /\ LoadedTo(r)
  /\ stage \in {"jump", "jumped"} =>
       IF Whole THEN launch = ImageStart /\ LoadedTo(Len(Records))
       ELSE image.slack = "zero" /\ launch = 0

BootIInv == BootTypes /\ KeepInv /\ PlaceInv

-----------------------------------------------------------------------------
LEMMA Bounds ==
  /\ MaxSlack \in Nat /\ MaxRows \in Nat /\ MaxReadFaults \in Nat
  /\ ImageStart # 0
  BY BootAssumption

LEMMA ImageType ==
  ASSUME image \in Images
  PROVE  /\ Len(Records) \in Nat /\ image.whole \in 0 .. (2 * Len(Records) + 2)
         /\ \A k \in 1 .. Len(Records) : Records[k] \in Addresses
<1>1. Records \in Seq(Addresses) /\ image.whole \in 0 .. (2 * Len(Records) + 2)
  BY BootAssumption DEF Records
<1> QED
  BY <1>1, ElementOfSeq, LenProperties

LEMMA BootInitIInv == BootInit => BootIInv
<1> SUFFICES ASSUME BootInit PROVE BootIInv
  OBVIOUS
<1> USE DEF BootInit
<1>1. BootTypes
  BY Bounds DEF BootTypes, Old
<1>2. KeepInv
  BY DEF KeepInv, Settled
<1>3. PlaceInv
  BY DEF PlaceInv, LoadedTo, AtImage, Ending
<1> QED
  BY <1>1, <1>2, <1>3 DEF BootIInv

(* What a read of an item does, by its outcome.                            *)
LEMMA ReadData ==
  ASSUME ReadItem("data")
  PROVE  /\ item' = item + 1 /\ item < image.whole
         /\ slackUsed' = slackUsed /\ readFaults' = readFaults
  BY DEF ReadItem, ReadWorks

LEMMA ReadSlack ==
  ASSUME ReadItem("slack")
  PROVE  /\ item' = item + 1 /\ item >= image.whole
         /\ slackUsed < MaxSlack /\ slackUsed' = slackUsed + 1
         /\ readFaults' = readFaults
  BY DEF ReadItem, ReadWorks

LEMMA ReadFailure ==
  ASSUME ReadItem("fail")
  PROVE  /\ item' = item + 1 /\ slackUsed' = slackUsed
         /\ \/ readFaults' = readFaults
            \/ readFaults < MaxReadFaults /\ readFaults' = readFaults + 1
  BY DEF ReadItem, ReadWorks, ReadFails

LEMMA FaultCount ==
  ASSUME readFaults \in 0 .. MaxReadFaults, ReadWorks \/ ReadFails
  PROVE  readFaults' \in 0 .. MaxReadFaults /\ (readFaults # 0 => readFaults' # 0)
  BY Bounds DEF ReadWorks, ReadFails

LEMMA RecordType ==
  ASSUME item \in Nat
  PROVE  AtRecord \in Int
  BY DEF AtRecord

LEMMA GarbageType == Garbage \in Int
  BY DEF Garbage

LEMMA ModeCount == modeSet = 0 => modeSet + 1 = 1
  OBVIOUS

LEMMA RowCount ==
  ASSUME rows \in 0 .. MaxRows, SplashRows
  PROVE  rows' \in 0 .. MaxRows
<1>1. rows' = rows \/ (rows < MaxRows /\ rows' = rows + 1)
  BY DEF SplashRows
<1> QED
  BY <1>1, Bounds

LEMMA FaultRises ==
  ASSUME readFaults \in 0 .. MaxReadFaults, ReadFails
  PROVE  readFaults' # 0
  BY Bounds DEF ReadFails

LEMMA ItemCount ==
  ASSUME BootTypes, NEW outcome \in {"data", "slack", "fail"}, ReadItem(outcome)
  PROVE  /\ item' = item + 1 /\ item' \in Nat /\ slackUsed' \in 0 .. MaxSlack
         /\ readFaults' \in 0 .. MaxReadFaults /\ (readFaults # 0 => readFaults' # 0)
<1>1. item \in Nat /\ slackUsed \in 0 .. MaxSlack /\ readFaults \in 0 .. MaxReadFaults
  BY DEF BootTypes
<1>2. CASE outcome = "data"
  BY <1>1, <1>2, ReadData, Bounds
<1>3. CASE outcome = "slack"
  BY <1>1, <1>3, ReadSlack, Bounds
<1>4. CASE outcome = "fail"
  BY <1>1, <1>4, ReadFailure, Bounds
<1> QED
  BY <1>2, <1>3, <1>4

(* When a record's header is there and is not the last, its record is one  *)
(* of the image's.                                                         *)
LEMMA RecordComing ==
  ASSUME BootIInv, stage = "record", ReadItem("data"), ~IsLastHeader
  PROVE  /\ AtRecord \in 1 .. Len(Records) /\ item = 2 * AtRecord - 1
         /\ Records[AtRecord] \in Addresses
<1>1. PICK r \in 0 .. item : item = 2 * r + 1
  BY DEF BootIInv, PlaceInv
<1>2. item \in Nat /\ r \in Nat
  BY <1>1 DEF BootIInv, BootTypes
<1>3. image \in Images
  BY DEF BootIInv, BootTypes
<1>4. Len(Records) \in Nat /\ image.whole \in 0 .. (2 * Len(Records) + 2)
  BY <1>3, ImageType
<1>5. item < 2 * Len(Records) + 2 /\ item # 2 * Len(Records) + 1
  BY <1>2, <1>4, ReadData DEF IsLastHeader
<1>6. AtRecord = r + 1
  BY <1>1, <1>2 DEF AtRecord
<1>7. AtRecord \in 1 .. Len(Records) /\ item = 2 * AtRecord - 1
  BY <1>1, <1>2, <1>4, <1>5, <1>6
<1> QED
  BY <1>3, <1>7, ImageType

LEMMA BootTypesNext ==
  ASSUME BootIInv, [BootNext]_bootVars
  PROVE  BootTypes'
<1> USE DEF BootIInv, BootTypes, given, bin, display
<1>1. CASE BootMain \/ InitializeFileSys \/ IgnoreIni
  BY <1>1 DEF BootMain, InitializeFileSys, IgnoreIni
<1>2. CASE OpenIni
  BY <1>2 DEF OpenIni, OpenFile
<1>3. CASE AllocIni
  BY <1>3 DEF AllocIni
<1>4. CASE ReadIni
  <2>1. readFaults' \in 0 .. MaxReadFaults
    BY <1>4, FaultCount DEF ReadIni
  <2> QED
    BY <1>4, <2>1 DEF ReadIni
<1>5. CASE Headless
  BY <1>5 DEF Headless
<1>23. CASE SetDisplayMode
  <2>1. modeSet' \in 0 .. 2 /\ stage' \in {"splash", "display", "load"}
    BY <1>23 DEF SetDisplayMode, KeepInv
  <2> QED
    BY <1>23, <2>1 DEF SetDisplayMode
<1>6. CASE OpenSplash
  BY <1>6 DEF OpenSplash, OpenFile
<1>7. CASE SplashHeaders
  <2>1. readFaults' \in 0 .. MaxReadFaults
    BY <1>7, FaultCount DEF SplashHeaders
  <2> QED
    BY <1>7, <2>1 DEF SplashHeaders
<1>8. CASE SplashColors
  <2>1. readFaults' \in 0 .. MaxReadFaults
    BY <1>8, FaultCount DEF SplashColors
  <2> QED
    BY <1>8, <2>1 DEF SplashColors
<1>9. CASE SplashBits
  BY <1>9 DEF SplashBits
<1>10. CASE SplashRows
  <2>1. readFaults' \in 0 .. MaxReadFaults
    BY <1>10, FaultCount DEF SplashRows
  <2> QED
    <3>1. rows' \in 0 .. MaxRows
      BY <1>10, RowCount
    <3> QED
      BY <1>10, <2>1, <3>1 DEF SplashRows
<1>11. CASE SplashReturn
  BY <1>11 DEF SplashReturn
<1>12. CASE OpenImage
  BY <1>12 DEF OpenImage, OpenFile
<1>13. CASE ImageHeader
  BY <1>13, ItemCount DEF ImageHeader
<1>14. CASE RecordHeader
  <2>1. target' \in Addresses
    BY <1>14, RecordComing DEF RecordHeader
  <2> QED
    BY <1>14, <2>1, ItemCount DEF RecordHeader
<1>15. CASE SlackHeader
  BY <1>15, ItemCount DEF SlackHeader
<1>16. CASE LastHeader
  BY <1>16, ItemCount DEF LastHeader
<1>17. CASE HeaderFails
  BY <1>17, ItemCount DEF HeaderFails
<1>18. CASE RecordBody
  <2>1. ram' \in [Addresses -> Int]
    <3>1. item \in Nat
      OBVIOUS
    <3>2. AtRecord \in Int
      BY <3>1, RecordType
    <3> QED
      BY <1>18, <3>2 DEF RecordBody
  <2> QED
    BY <1>18, <2>1, ItemCount DEF RecordBody
<1>19. CASE SlackBody
  <2>1. ram' \in [Addresses -> Int]
    <3>1. ram' = [ram EXCEPT ![target] = Garbage]
      BY <1>19 DEF SlackBody
    <3> QED
      BY <3>1, GarbageType
  <2> QED
    BY <1>19, <2>1, ItemCount DEF SlackBody
<1>20. CASE BodyFails
  <2>1. ram' \in [Addresses -> Int]
    BY <1>20 DEF BodyFails, Garbage
  <2> QED
    BY <1>20, <2>1, ItemCount DEF BodyFails
<1>21. CASE BootJumpTo
  BY <1>21 DEF BootJumpTo
<1>22. CASE UNCHANGED bootVars
  BY <1>22 DEF bootVars
<1> QED
  BY <1>1, <1>2, <1>3, <1>4, <1>5, <1>6, <1>7, <1>8, <1>9, <1>10, <1>11, <1>12, <1>13,
     <1>14, <1>15, <1>16, <1>17, <1>18, <1>19, <1>20, <1>21, <1>22, <1>23 DEF BootNext, BootStep

LEMMA KeepNext ==
  ASSUME BootIInv, [BootNext]_bootVars
  PROVE  KeepInv'
<1> USE DEF BootIInv, KeepInv, Settled, given, bin, display
<1>0. readFaults \in 0 .. MaxReadFaults /\ modeSet \in 0 .. 2
      /\ buffers \subseteq {"ini", "colors", "bits"}
  BY DEF BootTypes
<1>1. CASE BootMain \/ InitializeFileSys \/ IgnoreIni
  BY <1>1 DEF BootMain, InitializeFileSys, IgnoreIni
<1>2. CASE OpenIni
  BY <1>2 DEF OpenIni, OpenFile
<1>3. CASE AllocIni
  BY <1>3 DEF AllocIni
<1>4. CASE ReadIni
  <2>1. CASE ~ReadFails
    BY <1>4, <2>1 DEF ReadIni, ReadWorks
  <2>2. CASE ReadFails
    <3>1. readFaults' # 0
      BY <1>0, <2>2, FaultRises
    <3> QED
      BY <1>0, <1>4, <3>1 DEF ReadIni
  <2> QED
    BY <1>4, <2>1, <2>2 DEF ReadIni
<1>5. CASE Headless
  BY <1>5 DEF Headless
<1>6. CASE SetDisplayMode
  <2>1. stage' = "display" => modeSet = 0
    BY <1>6 DEF SetDisplayMode
  <2>2. modeSet' = modeSet + 1
    BY <1>6 DEF SetDisplayMode
  <2>3. stage' = "display" => modeSet' = 1
    BY <2>1, <2>2, ModeCount
  <2>4. stage' \in {"splash", "display", "load"}
    BY <1>6 DEF SetDisplayMode
  <2> QED
    BY <1>6, <2>3, <2>4 DEF SetDisplayMode
<1>7. CASE OpenSplash
  BY <1>7 DEF OpenSplash, OpenFile
<1>8. CASE SplashHeaders
  <2>1. (readFaults # 0 => readFaults' # 0) /\ readFaults' \in 0 .. MaxReadFaults
    BY <1>0, <1>8, FaultCount DEF SplashHeaders
  <2> QED
    BY <1>0, <1>8, <2>1 DEF SplashHeaders
<1>9. CASE SplashColors
  <2>1. (readFaults # 0 => readFaults' # 0) /\ readFaults' \in 0 .. MaxReadFaults
    BY <1>0, <1>9, FaultCount DEF SplashColors
  <2> QED
    BY <1>0, <1>9, <2>1 DEF SplashColors
<1>10. CASE SplashBits
  BY <1>10 DEF SplashBits
<1>11. CASE SplashRows
  <2>1. (readFaults # 0 => readFaults' # 0) /\ readFaults' \in 0 .. MaxReadFaults
    BY <1>0, <1>11, FaultCount DEF SplashRows
  <2> QED
    BY <1>0, <1>11, <2>1 DEF SplashRows
<1>12. CASE SplashReturn
  BY <1>0, <1>12 DEF SplashReturn
<1>13. CASE OpenImage
  BY <1>13 DEF OpenImage, OpenFile
<1>14. CASE ImageHeader \/ RecordHeader \/ SlackHeader \/ LastHeader \/ HeaderFails
            \/ RecordBody \/ SlackBody \/ BodyFails
  <2>1. \E o \in {"data", "slack", "fail"} : ReadItem(o)
    BY <1>14 DEF ImageHeader, RecordHeader, SlackHeader, LastHeader, HeaderFails,
                 RecordBody, SlackBody, BodyFails
  <2>2. (readFaults # 0 => readFaults' # 0) /\ readFaults' \in 0 .. MaxReadFaults
    BY <2>1, ItemCount
  <2>3. stage' \in {"record", "body", "jump", "halted"} /\ buffers' = buffers
        /\ stage \in {"image head", "record", "body"}
    BY <1>14 DEF ImageHeader, RecordHeader, SlackHeader, LastHeader, HeaderFails,
                 RecordBody, SlackBody, BodyFails
  <2> QED
    BY <1>0, <2>2, <2>3
<1>15. CASE BootJumpTo
  BY <1>15 DEF BootJumpTo
<1>16. CASE UNCHANGED bootVars
  BY <1>16 DEF bootVars
<1> QED
  BY <1>1, <1>2, <1>3, <1>4, <1>5, <1>6, <1>7, <1>8, <1>9, <1>10, <1>11, <1>12, <1>13,
     <1>14, <1>15, <1>16 DEF BootNext, BootStep

(* Steps before the image, and outside it.                                 *)
LEMMA PlaceNext ==
  ASSUME BootIInv, [BootNext]_bootVars
  PROVE  PlaceInv'
<1> USE DEF BootIInv, given, bin, display
<1>0. /\ item \in Nat /\ image \in Images /\ Len(Records) \in Nat
      /\ image.whole \in 0 .. (2 * Len(Records) + 2)
      /\ ram \in [Addresses -> Int]
  BY ImageType DEF BootTypes
<1>1. ASSUME stage \notin AtImage \cup Ending, UNCHANGED <<image, bin>>,
             stage' \notin AtImage \cup Ending \/ stage' = "image head" \/ stage' \in {"halted", "wild"}
      PROVE  PlaceInv'
  <2>1. item = 0 /\ LoadedTo(0)
    BY <1>1 DEF PlaceInv
  <2>2. item' = 0 /\ LoadedTo(0)'
    BY <1>1, <2>1 DEF LoadedTo, Records
  <2> QED
    BY <1>1, <2>2 DEF PlaceInv, AtImage, Ending
<1>2. CASE BootMain \/ InitializeFileSys \/ IgnoreIni \/ OpenIni \/ AllocIni \/ ReadIni
           \/ Headless \/ SetDisplayMode \/ OpenSplash \/ SplashHeaders \/ SplashColors
           \/ SplashBits \/ SplashRows \/ SplashReturn \/ OpenImage
  <2>1. stage \notin AtImage \cup Ending /\ UNCHANGED <<image, bin>>
    BY <1>2 DEF BootMain, InitializeFileSys, IgnoreIni, OpenIni, AllocIni, ReadIni,
      Headless, SetDisplayMode, OpenSplash, SplashHeaders, SplashColors, SplashBits,
      SplashRows, SplashReturn, OpenImage, AtImage, Ending
  <2>2. \/ stage' \notin AtImage \cup Ending \/ stage' = "image head"
        \/ stage' \in {"halted", "wild"}
    BY <1>2 DEF BootMain, InitializeFileSys, IgnoreIni, OpenIni, AllocIni, ReadIni,
      Headless, SetDisplayMode, OpenSplash, SplashHeaders, SplashColors, SplashBits,
      SplashRows, SplashReturn, OpenImage, OpenFile, AtImage, Ending
  <2> QED
    BY <1>1, <2>1, <2>2
<1>3. CASE stage' = "halted"
  BY <1>3 DEF PlaceInv, AtImage, Ending
<1>4. CASE ImageHeader /\ stage' = "record"
  <2>1. item = 0 /\ LoadedTo(0)
    BY <1>4 DEF ImageHeader, PlaceInv
  <2>4. item' = item + 1
    BY <1>4, ReadData, ReadSlack, ReadFailure DEF ImageHeader
  <2>2. LoadedTo(0)' /\ Len(Records)' \in Nat
    BY <1>0, <1>4, <2>1 DEF ImageHeader, LoadedTo, Records
  <2>3. 0 \in 0 .. item' /\ item' = 2 * 0 + 1 /\ (Whole' => 0 <= Len(Records)' /\ LoadedTo(0)')
    BY <2>1, <2>2, <2>4
  <2> QED
    BY <1>4, <2>3 DEF PlaceInv, AtImage, Ending
<1>5. CASE RecordHeader
  <2>1. AtRecord \in 1 .. Len(Records) /\ item = 2 * AtRecord - 1
        /\ Records[AtRecord] \in Addresses
    BY <1>5, RecordComing DEF RecordHeader
  <2>2. item' = item + 1
    BY <1>5, ReadData DEF RecordHeader
  <2>3. UNCHANGED <<image, ram>> /\ stage' = "body" /\ target' = Records[AtRecord]
    BY <1>5 DEF RecordHeader
  <2>4. PICK r \in 0 .. item : item = 2 * r + 1 /\ (Whole => r <= Len(Records) /\ LoadedTo(r))
    BY <1>5 DEF RecordHeader, PlaceInv
  <2>5. r + 1 = AtRecord /\ r < Len(Records)
    BY <1>0, <2>1, <2>4
  <2>6. r \in 0 .. item' /\ item' = 2 * r + 2
    BY <1>0, <2>2, <2>4
  <2>7. Whole' => LoadedTo(r)'
    BY <2>3, <2>4 DEF Whole, LoadedTo, Records
  <2>8. Whole' => r < Len(Records)' /\ target' = Records'[r + 1] /\ LoadedTo(r)'
    BY <2>3, <2>5, <2>7 DEF Records
  <2>9. target' \in Addresses
    BY <2>1, <2>3
  <2> QED
    BY <2>3, <2>6, <2>8, <2>9 DEF PlaceInv, AtImage, Ending
<1>6. CASE SlackHeader
  <2>1. PICK r \in 0 .. item : item = 2 * r + 1 /\ (Whole => r <= Len(Records) /\ LoadedTo(r))
    BY <1>6 DEF SlackHeader, PlaceInv
  <2>2. item' = item + 1 /\ item >= image.whole
    BY <1>6, ReadSlack DEF SlackHeader
  <2>3. ~Whole
    BY <1>0, <2>1, <2>2 DEF Whole
  <2>4. r \in 0 .. item' /\ item' = 2 * r + 2
    BY <1>0, <2>1, <2>2
  <2>5. target' \in Addresses /\ stage' = "body" /\ image' = image
    BY <1>6 DEF SlackHeader
  <2>6. ~Whole'
    BY <2>3, <2>5 DEF Whole, Records
  <2> QED
    BY <2>4, <2>5, <2>6 DEF PlaceInv, AtImage, Ending
<1>7. CASE LastHeader
  <2>1. PICK r \in 0 .. item : item = 2 * r + 1 /\ (Whole => r <= Len(Records) /\ LoadedTo(r))
    BY <1>7 DEF LastHeader, PlaceInv
  <2>2. UNCHANGED <<image, ram>> /\ stage' = "jump"
    BY <1>7 DEF LastHeader
  <2>3. CASE ReadItem("data") /\ IsLastHeader /\ launch' = ImageStart
    <3>1. item < image.whole /\ item = 2 * Len(Records) + 1
      BY <2>3, ReadData DEF IsLastHeader
    <3>2. Whole /\ r = Len(Records)
      BY <1>0, <2>1, <3>1 DEF Whole
    <3>3. LoadedTo(Len(Records))' /\ Whole'
      BY <2>1, <2>2, <3>2 DEF LoadedTo, Records, Whole
    <3> QED
      BY <2>2, <2>3, <3>3 DEF PlaceInv, AtImage, Ending
  <2>4. CASE ReadItem("slack") /\ image.slack = "zero" /\ launch' = 0
    <3>1. item >= image.whole
      BY <2>4, ReadSlack
    <3>2. ~Whole
      BY <1>0, <2>1, <3>1 DEF Whole
    <3>3. ~Whole' /\ image'.slack = "zero"
      BY <2>2, <2>4, <3>2 DEF Whole, Records
    <3> QED
      BY <2>2, <2>4, <3>3 DEF PlaceInv, AtImage, Ending
  <2> QED
    BY <1>7, <2>3, <2>4 DEF LastHeader
<1>8. CASE RecordBody
  <2>1. PICK r \in 0 .. item :
          item = 2 * r + 2 /\ (Whole => r < Len(Records) /\ target = Records[r + 1] /\ LoadedTo(r))
    BY <1>8 DEF RecordBody, PlaceInv
  <2>2. item' = item + 1
    BY <1>8, ReadData DEF RecordBody
  <2>3. AtRecord = r + 1
    BY <2>1 DEF AtRecord
  <2>4. /\ image' = image /\ stage' = "record" /\ target \in Addresses
        /\ ram' = [ram EXCEPT ![target] = r + 1]
    BY <1>8, <2>3 DEF RecordBody, PlaceInv
  <2>5. r + 1 \in 0 .. item' /\ item' = 2 * (r + 1) + 1
    BY <1>0, <2>1, <2>2
  <2>6. ASSUME Whole
        PROVE  r + 1 <= Len(Records) /\ LoadedTo(r + 1)'
    <3>1. r < Len(Records) /\ target = Records[r + 1] /\ LoadedTo(r) /\ r \in Nat
      BY <1>0, <2>1, <2>6
    <3>2. r + 1 <= Len(Records)
      BY <1>0, <3>1
    <3>3. ASSUME NEW a \in Addresses
          PROVE  \/ ram'[a] = Old /\ \A k \in 1 .. (r + 1) : Records[k] # a
                 \/ \E k \in 1 .. (r + 1) :
                      /\ ram'[a] = k /\ Records[k] = a
                      /\ \A j \in (k + 1) .. (r + 1) : Records[j] # a
      <4>1. CASE a = target
        <5>1. ram'[a] = r + 1 /\ Records[r + 1] = a
          BY <1>0, <2>4, <3>1, <4>1
        <5>2. r + 1 \in 1 .. (r + 1) /\ \A j \in (r + 2) .. (r + 1) : Records[j] # a
          BY <3>1
        <5> QED
          BY <5>1, <5>2
      <4>2. CASE a # target
        <5>1. ram'[a] = ram[a] /\ Records[r + 1] # a
          BY <1>0, <2>4, <3>1, <4>2
        <5>2. \A j \in 1 .. (r + 1) : j \in 1 .. r \/ j = r + 1
          BY <3>1
        <5>3. \A k \in 1 .. r : k \in 1 .. (r + 1) /\ \A j \in (k + 1) .. (r + 1) : j \in (k + 1) .. r \/ j = r + 1
          BY <3>1
        <5> QED
          BY <3>1, <5>1, <5>2, <5>3 DEF LoadedTo
      <4> QED
        BY <4>1, <4>2
    <3>4. LoadedTo(r + 1)'
      BY <2>4, <3>3 DEF LoadedTo, Records
    <3> QED
      BY <3>2, <3>4
  <2>7. Whole' => r + 1 <= Len(Records)' /\ LoadedTo(r + 1)'
    BY <2>4, <2>6 DEF Whole, Records
  <2> QED
    BY <2>4, <2>5, <2>7 DEF PlaceInv, AtImage, Ending
<1>9. CASE SlackBody
  <2>1. PICK r \in 0 .. item :
          item = 2 * r + 2 /\ (Whole => r < Len(Records) /\ target = Records[r + 1] /\ LoadedTo(r))
    BY <1>9 DEF SlackBody, PlaceInv
  <2>2. item' = item + 1 /\ item >= image.whole /\ image' = image /\ stage' = "record"
    BY <1>9, ReadSlack DEF SlackBody
  <2>3. ~Whole
    BY <1>0, <2>1, <2>2 DEF Whole
  <2>4. r + 1 \in 0 .. item' /\ item' = 2 * (r + 1) + 1
    BY <1>0, <2>1, <2>2
  <2>5. ~Whole'
    BY <2>2, <2>3 DEF Whole, Records
  <2> QED
    BY <2>2, <2>4, <2>5 DEF PlaceInv, AtImage, Ending
<1>10. CASE BootJumpTo \/ UNCHANGED bootVars
  <2>1. UNCHANGED <<image, item, target, ram, launch>>
    BY <1>10 DEF BootJumpTo, bootVars
  <2>2. \/ stage' = stage
        \/ stage = "jump" /\ stage' = "jumped"
    BY <1>10 DEF BootJumpTo, bootVars
  <2>3. UNCHANGED <<Whole, Records>> /\ \A r : LoadedTo(r)' <=> LoadedTo(r)
    BY <2>1 DEF Whole, Records, LoadedTo
  <2>4. (Len(Records))' = Len(Records)
    BY <2>3
  <2> QED
    BY <2>1, <2>2, <2>3, <2>4 DEF PlaceInv, AtImage, Ending
<1>11. CASE HeaderFails \/ BodyFails \/ (ImageHeader /\ stage' # "record")
  BY <1>3, <1>11 DEF HeaderFails, BodyFails, ImageHeader
<1> QED
  BY <1>2, <1>4, <1>5, <1>6, <1>7, <1>8, <1>9, <1>10, <1>11 DEF BootNext, BootStep

LEMMA BootIInvNext == BootIInv /\ [BootNext]_bootVars => BootIInv'
  BY BootTypesNext, KeepNext, PlaceNext DEF BootIInv

(* What the invariant says of the memory is what the images' records make  *)
(* of it.                                                                  *)
LEMMA LoadedIsLoaded ==
  ASSUME BootIInv, LoadedTo(Len(Records))
  PROVE  ram = Loaded
<1>1. Len(Records) \in Nat /\ ram \in [Addresses -> Int]
  BY ImageType DEF BootIInv, BootTypes
<1>2. ASSUME NEW a \in Addresses
      PROVE  ram[a] = Loaded[a]
  <2> DEFINE here == {k \in 1 .. Len(Records) : Records[k] = a}
  <2>1. Loaded[a] = IF here = {} THEN Old ELSE CHOOSE k \in here : \A j \in here : j <= k
    BY DEF Loaded
  <2>2. CASE ram[a] = Old /\ \A k \in 1 .. Len(Records) : Records[k] # a
    BY <2>1, <2>2
  <2>3. ASSUME NEW k \in 1 .. Len(Records), ram[a] = k, Records[k] = a,
               \A j \in (k + 1) .. Len(Records) : Records[j] # a
        PROVE  ram[a] = Loaded[a]
    <3>1. k \in here /\ \A j \in here : j <= k
      BY <1>1, <2>3
    <3>2. \A i, j \in here : i <= j /\ j <= i => i = j
      OBVIOUS
    <3>3. (CHOOSE i \in here : \A j \in here : j <= i) = k
      BY <3>1, <3>2
    <3> QED
      BY <2>1, <2>3, <3>1, <3>3
  <2> QED
    BY <2>2, <2>3 DEF LoadedTo
<1>3. Loaded = [a \in Addresses |-> Loaded[a]]
  BY DEF Loaded
<1> QED
  BY <1>1, <1>2, <1>3

(* For every image, cut off anywhere, and every order of failed reads: the *)
(* processor is sent to the start address of a whole image, and then each  *)
(* record is in memory, the later ones over the earlier; or to address 0,  *)
(* when the file was cut off and the slack behind it is zero.              *)
THEOREM JumpsOnlyToWholeImageHolds == BootSpec => []JumpsOnlyToWholeImage
<1>1. BootIInv => JumpsOnlyToWholeImage
  BY LoadedIsLoaded DEF BootIInv, PlaceInv, JumpsOnlyToWholeImage
<1> QED
  BY <1>1, BootInitIInv, BootIInvNext, PTL DEF BootSpec

LEMMA ReadyNext ==
  ASSUME fsReady \in BOOLEAN, [BootNext]_bootVars
  PROVE  fsReady' \in BOOLEAN
<1>1. CASE InitializeFileSys
  BY <1>1 DEF InitializeFileSys
<1>2. CASE UNCHANGED fsReady
  BY <1>2
<1> QED
  BY <1>1, <1>2 DEF BootNext, BootStep, bootVars, BootMain, IgnoreIni, OpenIni, AllocIni,
     ReadIni, Headless, SetDisplayMode, OpenSplash, SplashHeaders, SplashColors,
     SplashBits, SplashRows, SplashReturn, OpenImage, ImageHeader, RecordHeader,
     SlackHeader, LastHeader, HeaderFails, RecordBody, SlackBody, BodyFails, BootJumpTo

(* Whatever fails: no file is opened over another, and when the image      *)
(* takes over, the heap has back all that was allocated, but for the       *)
(* buffer of a BOOT.INI that could not be read.                            *)
THEOREM BuffersReturnedHolds == BootSpec => []BuffersReturned
<1>1. BootInit => fsReady \in BOOLEAN
  BY DEF BootInit
<1>2. fsReady \in BOOLEAN /\ [BootNext]_bootVars => (fsReady \in BOOLEAN)'
  BY ReadyNext
<1>3. ASSUME BootIInv, fsReady \in BOOLEAN
      PROVE  BuffersReturned
  <2>1. BootTypeOK
    BY <1>3 DEF BootIInv, BootTypeOK
  <2>2. OneFileAtATime
    BY <1>3 DEF BootIInv, KeepInv, OneFileAtATime
  <2>3. ASSUME stage \in {"load", "jump"}
        PROVE  buffers \subseteq {"ini"} /\ (buffers # {} => readFaults # 0)
    BY <1>3, <2>3 DEF BootIInv, KeepInv, Settled
  <2>4. readFaults # 0 => readFaults > 0
    <3>1. readFaults \in 0 .. MaxReadFaults
      BY <1>3 DEF BootIInv, BootTypes
    <3> QED
      BY <3>1, Bounds
  <2> QED
    BY <2>1, <2>2, <2>3, <2>4 DEF BuffersReturned
<1> QED
  BY <1>1, <1>2, <1>3, BootInitIInv, BootIInvNext, PTL DEF BootSpec
-----------------------------------------------------------------------------
(* Division                                                                *)

LEMMA DivMod ==
  ASSUME NEW a \in Nat, NEW n \in Nat \ {0}
  PROVE  /\ a \div n \in Nat /\ a % n \in 0 .. n - 1
         /\ a = n * (a \div n) + (a % n)
<1>1. PICK q \in Int : q = a \div n
  OBVIOUS
<1>2. PICK r \in 0 .. n - 1 : r = a % n
  OBVIOUS
<1>3. n * q <= a /\ a < n * q + n
  BY <1>1
<1>4. q \in Nat
  BY <1>3
<1>5. a = n * q + r
  BY <1>1, <1>2
<1> QED
  BY <1>1, <1>2, <1>4, <1>5

LEMMA DivIs ==
  ASSUME NEW n \in Nat \ {0}, NEW q \in Nat, NEW r \in 0 .. n - 1, NEW a \in Nat,
         a = n * q + r
  PROVE  a \div n = q /\ a % n = r
<1>1. PICK p \in Nat, s \in 0 .. n - 1 : p = a \div n /\ s = a % n /\ a = n * p + s
  BY DivMod
<1>2. p = q
  BY <1>1
<1> QED
  BY <1>1, <1>2

-----------------------------------------------------------------------------
(* The disk reads                                                          *)

LEMMA Spread ==
  ASSUME NEW t \in Nat, NEW h \in Nat, NEW y \in Nat, NEW e \in Nat
  PROVE  (y * h + e) * t = (t * h) * y + t * e
OBVIOUS

(* A sector of the disk comes back from its cylinder, head and sector.     *)
LEMMA SectorIs ==
  ASSUME drive \in Drives, drvInfo.track = drive.track, drvInfo.heads = drive.heads,
         NEW lba \in Nat, lba < DiskSectors
  PROVE  SectorAt(Lba2Chs(lba)) = lba
<1>0. drive.cylinders \in 1 .. 1024 /\ drive.heads \in 1 .. 256 /\ drive.track \in 1 .. 63
  BY DiskAssumption
<1>t. PICK t \in 1 .. 63 : t = drive.track
  BY <1>0
<1>h. PICK h \in 1 .. 256 : h = drive.heads
  BY <1>0
<1>c. PICK c \in 1 .. 1024 : c = drive.cylinders
  BY <1>0
<1>1. t = drive.track /\ h = drive.heads /\ c = drive.cylinders
  BY <1>t, <1>h, <1>c
<1>2. PICK n \in Nat \ {0} : n = t * h
  OBVIOUS
<1>3. PICK y \in Nat, i \in 0 .. n - 1 : y = lba \div n /\ i = lba % n /\ lba = n * y + i
  <2>1. lba \div n \in Nat /\ lba % n \in 0 .. n - 1 /\ lba = n * (lba \div n) + (lba % n)
    BY DivMod
  <2> QED
    BY <2>1
<1>4. PICK e \in Nat, s \in 0 .. t - 1 : e = i \div t /\ s = i % t /\ i = t * e + s
  BY DivMod
<1>5. y < c
  <2>1. lba < c * h * t
    BY <1>1 DEF DiskSectors
  <2>2. c * h * t = n * c
    BY <1>2
  <2> QED
    BY <1>3, <2>1, <2>2
<1>6. e < h
  BY <1>2, <1>3, <1>4
<1>7. PICK x \in 0 .. 3 : x = (y \div 256) % 4 /\ y = 256 * x + (y % 256)
  BY <1>5
<1>8. PICK z : z = Lba2Chs(lba)
  OBVIOUS
<1>9. z.c = y % 256 /\ z.h = e /\ z.s = s + 1 + 64 * x
  <2>1. drvInfo.track = t /\ drvInfo.track * drvInfo.heads = n
    BY <1>1, <1>2
  <2>2. z = [c |-> y % 256, h |-> e % 256, s |-> s + 1 + 64 * ((y \div 256) % 4)]
    <3>1. lba \div (drvInfo.track * drvInfo.heads) = y /\ lba % (drvInfo.track * drvInfo.heads) = i
      BY <1>3, <2>1
    <3>2. i \div drvInfo.track = e /\ i % drvInfo.track = s
      BY <1>4, <2>1
    <3> QED
      BY <1>8, <3>1, <3>2 DEF Lba2Chs
  <2>3. e % 256 = e
    <3>1. e \in 0 .. 255
      BY <1>6
    <3> QED
      BY <3>1
  <2>4. e % 256 = e /\ (y \div 256) % 4 = x
    BY <1>7, <2>3
  <2>5. z = [c |-> y % 256, h |-> e, s |-> s + 1 + 64 * x]
    BY <2>2, <2>4
  <2> QED
    BY <2>5
<1>10. z.s \div 64 = x /\ z.s % 64 = s + 1
  BY <1>9
<1>11. z.c + 256 * (z.s \div 64) = y
  BY <1>7, <1>9, <1>10
<1>12. SectorAt(z) = (y * h + e) * t + (s + 1) - 1
  <2>1. (z.c + 256 * (z.s \div 64)) = y /\ y < drive.cylinders
    BY <1>1, <1>5, <1>11
  <2>2. drive.heads = h /\ drive.track = t /\ z.h = e /\ z.s % 64 = s + 1
    BY <1>1, <1>9, <1>10
  <2>3. SectorAt(z) = IF z.c + 256 * (z.s \div 64) < drive.cylinders
                      THEN ((z.c + 256 * (z.s \div 64)) * drive.heads + z.h)
                             * drive.track + (z.s % 64) - 1
                      ELSE -1
    BY DEF SectorAt
  <2> QED
    BY <2>1, <2>2, <2>3
<1>13. (y * h + e) * t = n * y + t * e
  <2>1. t \in Nat /\ h \in Nat
    OBVIOUS
  <2>2. (y * h + e) * t = (t * h) * y + t * e
    BY <2>1, Spread
  <2> QED
    BY <1>2, <2>2
<1>14. n * y + t * e = lba - s
  <2>1. lba = n * y + (t * e + s)
    BY <1>3, <1>4
  <2>2. n * y \in Nat /\ t * e \in Nat
    OBVIOUS
  <2> QED
    BY <2>1, <2>2
<1>15. SectorAt(z) = (lba - s) + (s + 1) - 1
  <2>1. (y * h + e) * t = lba - s
    BY <1>13, <1>14
  <2> QED
    BY <1>12, <2>1
<1>16. SectorAt(z) = lba
  BY <1>15
<1> QED
  BY <1>8, <1>16
(* What a read has copied: n sectors from the first one asked for.         *)
Sequel(n) == [i \in 1 .. n |-> from + i - 1]

(* Between two calls of INT 13h what is copied is what was asked for up to *)
(* the place of the next; drv_info is what BootDisk_Init set.              *)
Readable == OnDisk /\ Answered
DiskTypes ==
  /\ diskStep \in {"off", "idle", "read"} /\ drive \in Drives
  /\ drvInfo.track = drive.track /\ drvInfo.heads = drive.heads
  /\ {from, count, sector, rest, diskFaults} \subseteq Nat /\ returned \in BOOLEAN
SetUp ==
  diskStep # "off" /\ Answered =>
    drvInfo.cylinders = drive.cylinders /\ drvInfo.sectorSize = 512
Underway ==
  diskStep = "read" /\ Readable =>
    /\ sector + rest = from + count /\ from <= sector
    /\ copied = [i \in 1 .. (sector - from) |-> from + i - 1]
Unread == diskStep = "off" => copied = <<>> /\ count = 0 /\ returned
DiskIInv == DiskTypes /\ SetUp /\ Underway /\ Unread /\ DiskReadTrue

LEMMA GeometryIs ==
  ASSUME drive \in Drives
  PROVE  drive.cylinders \in Nat /\ drive.heads \in Nat /\ drive.track \in Nat
<1>1. /\ drive.cylinders \in 1 .. 1024 /\ drive.heads \in 1 .. 256
      /\ drive.track \in 1 .. 63
  BY DiskAssumption
<1>2. drive.cylinders \in Nat
  BY <1>1, SMTT(30)
<1>3. drive.heads \in Nat
  BY <1>1, SMTT(30)
<1>4. drive.track \in Nat
  BY <1>1, SMTT(30)
<1> QED
  BY <1>2, <1>3, <1>4

LEMMA SizeOfDisk == ASSUME drive \in Drives PROVE DiskSectors \in Nat
BY GeometryIs DEF DiskSectors

LEMMA SequelGrows ==
  ASSUME from \in Nat, NEW m \in Nat, NEW n \in Nat,
         NEW first, first = from + m
  PROVE  Sequel(m) \o [i \in 1 .. n |-> first + i - 1] = Sequel(m + n)
<1>1. PICK a : a = Sequel(m)
  OBVIOUS
<1>2. PICK b : b = [i \in 1 .. n |-> first + i - 1]
  OBVIOUS
<1>3. a \in Seq(Int) /\ Len(a) = m /\ \A i \in 1 .. m : a[i] = from + i - 1
  BY <1>1, IsASeq DEF Sequel
<1>4. b \in Seq(Int) /\ Len(b) = n /\ \A i \in 1 .. n : b[i] = first + i - 1
  BY <1>2, IsASeq
<1>5. /\ a \o b \in Seq(Int) /\ Len(a \o b) = m + n
      /\ \A i \in 1 .. m + n : (a \o b)[i] = IF i <= m THEN a[i] ELSE b[i - m]
  BY <1>3, <1>4, ConcatProperties
<1>6. Sequel(m + n) \in Seq(Int) /\ Len(Sequel(m + n)) = m + n
      /\ \A i \in 1 .. m + n : Sequel(m + n)[i] = from + i - 1
  BY IsASeq DEF Sequel
<1>7. ASSUME NEW i \in 1 .. m + n PROVE (a \o b)[i] = from + i - 1
  <2>1. CASE i <= m
    BY <1>3, <1>5, <2>1
  <2>2. CASE ~(i <= m)
    <3>1. i - m \in 1 .. n /\ first + (i - m) - 1 = from + i - 1
      BY <2>2
    <3>2. (a \o b)[i] = b[i - m]
      BY <1>5, <2>2
    <3> QED
      BY <1>4, <3>1, <3>2
  <2> QED
    BY <2>1, <2>2
<1>8. a \o b = Sequel(m + n)
  BY <1>5, <1>6, <1>7, SeqEqual
<1> QED
  BY <1>1, <1>2, <1>8
LEMMA DiskInitIInv == DiskInit => DiskIInv
<1> SUFFICES ASSUME DiskInit PROVE DiskIInv
  OBVIOUS
<1>1. DiskTypes
  BY DEF DiskInit, DiskTypes
<1> QED
  BY <1>1 DEF DiskInit, DiskIInv, SetUp, Underway, Unread, DiskReadTrue

LEMMA BootDiskInitKeeps == ASSUME DiskIInv, BootDisk_Init PROVE DiskIInv'
<1>1. DiskTypes'
  BY DEF BootDisk_Init, DiskIInv, DiskTypes, request
<1>2. SetUp'
  BY DEF BootDisk_Init, SetUp, Answered
<1>3. copied' = <<>> /\ count' = 0 /\ returned' = TRUE /\ diskStep' = "idle"
  BY DEF BootDisk_Init, DiskIInv, DiskTypes, Unread, request
<1>4. Wanted' = <<>>
  <2>1. [i \in 1 .. 0 |-> from' + i - 1] = <<>>
    <3>1. \A i \in 1 .. 0 : from' + i - 1 \in Int
      OBVIOUS
    <3>2. /\ [i \in 1 .. 0 |-> from' + i - 1] \in Seq(Int)
          /\ Len([i \in 1 .. 0 |-> from' + i - 1]) = 0
      BY <3>1, IsASeq
    <3> QED
      BY <3>2, EmptySeq
  <2> QED
    BY <1>3, <2>1 DEF Wanted
<1>5. DiskReadTrue'
  BY <1>3, <1>4 DEF DiskReadTrue
<1> QED
  BY <1>1, <1>2, <1>3, <1>5 DEF DiskIInv, Underway, Unread

LEMMA BootDiskReadKeeps == ASSUME DiskIInv, BootDisk_Read PROVE DiskIInv'
<1>1. DiskTypes'
  <2>1. from' \in Nat /\ count' \in Nat
    BY DiskAssumption DEF BootDisk_Read
  <2> QED
    BY <2>1 DEF BootDisk_Read, DiskIInv, DiskTypes
<1>2. SetUp'
  BY DEF BootDisk_Read, DiskIInv, SetUp, Answered
<1>3. Underway'
  <2>1. sector' = from' /\ rest' = count' /\ copied' = <<>> /\ from' \in Nat /\ count' \in Nat
    BY <1>1 DEF BootDisk_Read, DiskTypes
  <2>2. [i \in 1 .. 0 |-> from' + i - 1] = <<>>
    <3>1. \A i \in 1 .. 0 : from' + i - 1 \in Int
      OBVIOUS
    <3>2. /\ [i \in 1 .. 0 |-> from' + i - 1] \in Seq(Int)
          /\ Len([i \in 1 .. 0 |-> from' + i - 1]) = 0
      BY <3>1, IsASeq
    <3> QED
      BY <3>2, EmptySeq
  <2>3. PICK f \in Nat : f = from'
    BY <2>1
  <2>4. f - f = 0 /\ f <= f
    OBVIOUS
  <2>6. sector' = f
    BY <2>1, <2>3
  <2>7. sector' - from' = 0 /\ from' <= sector'
    BY <2>3, <2>4, <2>6
  <2>8. sector' + rest' = from' + count'
    BY <2>1
  <2>5. sector' - from' = 0 /\ sector' + rest' = from' + count' /\ from' <= sector'
    BY <2>7, <2>8
  <2> QED
    BY <2>1, <2>2, <2>5 DEF Underway
<1> QED
  BY <1>1, <1>2, <1>3 DEF BootDisk_Read, DiskIInv, Unread, DiskReadTrue

(* A sector or a packet of them comes in.                                  *)
LEMMA MoreCopied ==
  ASSUME DiskIInv, diskStep = "read", NEW n \in Nat \ {0}, n <= rest,
         UNCHANGED <<diskStep, drive, drvInfo, request, returned, diskFaults>>,
         sector' = sector + n, rest' = rest - n,
         Readable => copied' = copied \o [i \in 1 .. n |-> sector + i - 1]
  PROVE  DiskIInv'
<1>1. /\ from \in Nat /\ count \in Nat /\ sector \in Nat /\ rest \in Nat
      /\ from' = from /\ count' = count /\ drive' = drive /\ diskStep' = "read"
      /\ sector' \in Nat /\ rest' \in Nat
  BY DEF DiskIInv, DiskTypes, request
<1>2. DiskTypes' /\ SetUp'
  BY <1>1 DEF DiskIInv, DiskTypes, SetUp, Answered
<1>3. Underway'
  <2> SUFFICES ASSUME Readable'
               PROVE  /\ sector' + rest' = from' + count' /\ from' <= sector'
                      /\ copied' = [i \in 1 .. (sector' - from') |-> from' + i - 1]
    BY DEF Underway
  <2>1. Readable
    BY <1>1 DEF Readable, OnDisk, Answered, DiskSectors
  <2>2. sector + rest = from + count /\ from <= sector /\ copied = Sequel(sector - from)
    BY <2>1 DEF DiskIInv, Underway, Sequel
  <2>3. sector' + rest' = from' + count' /\ from' <= sector'
    BY <1>1, <2>2
  <2>4. PICK m \in Nat : m = sector - from
    BY <1>1, <2>2
  <2>5. sector = from + m /\ sector' - from' = m + n
    BY <1>1, <2>2, <2>4
  <2>6. copied' = Sequel(m + n)
    BY <1>1, <2>1, <2>2, <2>4, <2>5, SequelGrows
  <2>7. Sequel(m + n) = [i \in 1 .. (sector' - from') |-> from' + i - 1]
    BY <1>1, <2>5 DEF Sequel
  <2> QED
    BY <2>3, <2>6, <2>7
<1> QED
  BY <1>1, <1>2, <1>3 DEF DiskIInv, Unread, DiskReadTrue

LEMMA PacketReadKeeps == ASSUME DiskIInv, PacketRead PROVE DiskIInv'
<1>1. PICK n \in Nat \ {0} : n = Blocks /\ n <= rest
  <2>1. rest \in Nat
    BY DEF DiskIInv, DiskTypes
  <2>2. rest > 0 /\ MaxPacket \in Nat \ {0}
    BY DiskAssumption DEF PacketRead
  <2> QED
    BY <2>1, <2>2 DEF Blocks
<1>2. Readable => copied' = copied \o [i \in 1 .. n |-> sector + i - 1]
  BY <1>1 DEF PacketRead, Copy, DiskIInv, SetUp, Readable
<1> QED
  BY <1>1, <1>2, MoreCopied DEF PacketRead

LEMMA SingleReadKeeps == ASSUME DiskIInv, SingleRead PROVE DiskIInv'
<1>1. /\ sector \in Nat /\ rest \in Nat /\ rest > 0 /\ drive \in Drives
      /\ from \in Nat /\ count \in Nat
      /\ drvInfo.track = drive.track /\ drvInfo.heads = drive.heads /\ diskStep = "read"
  BY DEF DiskIInv, DiskTypes, SingleRead
<1>2. ASSUME Readable PROVE copied' = copied \o [i \in 1 .. 1 |-> sector + i - 1]
  <2>1. sector < DiskSectors
    <3>1. sector + rest = from + count /\ from + count <= DiskSectors
      BY <1>1, <1>2 DEF DiskIInv, Underway, Readable, OnDisk
    <3> QED
      BY <1>1, <3>1, SizeOfDisk
  <2>2. SectorAt(Lba2Chs(sector)) = sector
    BY <1>1, <2>1, SectorIs
  <2>3. Copy(sector, 1)
    BY <2>2 DEF SingleRead
  <2>4. drvInfo.sectorSize = 512
    BY <1>1, <1>2 DEF DiskIInv, SetUp, Readable
  <2> QED
    BY <2>3, <2>4 DEF Copy
<1> QED
  BY <1>1, <1>2, MoreCopied DEF SingleRead

LEMMA SectorFaultKeeps == ASSUME DiskIInv, SectorFault PROVE DiskIInv'
<1>1. /\ from \in Nat /\ count \in Nat /\ sector \in Nat /\ rest \in Nat /\ rest > 0
      /\ drive \in Drives /\ diskFaults \in Nat
      /\ drvInfo.track = drive.track /\ drvInfo.heads = drive.heads /\ diskStep = "read"
      /\ from' = from /\ count' = count /\ drive' = drive /\ drvInfo' = drvInfo
      /\ sector' = sector /\ rest' = rest /\ diskStep' = "idle" /\ returned' = FALSE
      /\ diskFaults' \in Nat
  BY DEF DiskIInv, DiskTypes, SectorFault, Returns, request
<1>2. DiskTypes' /\ SetUp' /\ Underway'
  BY <1>1 DEF DiskIInv, DiskTypes, SetUp, Underway, Answered
<1>3. ASSUME Readable PROVE diskFaults' > 0
  <2>1. sector + rest <= DiskSectors
    BY <1>1, <1>3 DEF DiskIInv, Underway, Readable, OnDisk
  <2>2. DiskSectors \in Nat
    BY <1>1, SizeOfDisk
  <2>3. sector < DiskSectors
    BY <1>1, <2>1, <2>2
  <2>4. ~(sector + Blocks > DiskSectors)
    <3>1. Blocks <= rest /\ Blocks \in Nat
      BY <1>1, DiskAssumption DEF Blocks
    <3> QED
      BY <1>1, <2>1, <2>2, <3>1
  <2>5. SectorAt(Lba2Chs(sector)) # -1
    BY <1>1, <2>3, SectorIs
  <2>6. ~Refuses(sector)
    <3>1. Sectors = DiskSectors
      <4>1. drvInfo.cylinders = drive.cylinders
        BY <1>1, <1>3 DEF DiskIInv, SetUp, Readable
      <4>2. drive.cylinders \in Nat /\ drive.heads \in Nat /\ drive.track \in Nat
        BY <1>1, GeometryIs
      <4> QED
        BY <1>1, <4>1, <4>2 DEF Sectors, DiskSectors
    <3> QED
      BY <1>1, <2>2, <2>3, <3>1 DEF Refuses
  <2> QED
    BY <1>1, <2>4, <2>5, <2>6 DEF SectorFault
<1>4. DiskReadTrue'
  <2>1. OnDisk' /\ Answered' => Readable
    BY <1>1 DEF OnDisk, Answered, Readable, DiskSectors
  <2> QED
    BY <1>1, <1>3, <2>1 DEF DiskReadTrue
<1> QED
  BY <1>1, <1>2, <1>4 DEF DiskIInv, Unread

LEMMA SectorsReadKeeps == ASSUME DiskIInv, SectorsRead PROVE DiskIInv'
<1>1. /\ from \in Nat /\ count \in Nat /\ sector \in Nat /\ rest = 0 /\ diskStep = "read"
      /\ from' = from /\ count' = count /\ drive' = drive /\ drvInfo' = drvInfo
      /\ copied' = copied /\ diskStep' = "idle" /\ returned' = TRUE
  BY DEF DiskIInv, DiskTypes, SectorsRead, Returns, request
<1>2. DiskTypes' /\ SetUp' /\ Underway'
  BY <1>1 DEF DiskIInv, DiskTypes, SetUp, Underway, Answered, SectorsRead
<1>3. DiskReadTrue'
  <2> SUFFICES ASSUME OnDisk', Answered' PROVE copied' = Wanted'
    BY <1>1 DEF DiskReadTrue
  <2>1. Readable
    BY <1>1 DEF OnDisk, Answered, Readable, DiskSectors
  <2>2. sector + rest = from + count /\ from <= sector /\ copied = Sequel(sector - from)
    BY <1>1, <2>1 DEF DiskIInv, Underway, Sequel
  <2>3. sector - from = count
    BY <1>1, <2>2
  <2> QED
    BY <1>1, <2>2, <2>3 DEF Sequel, Wanted
<1> QED
  BY <1>1, <1>2, <1>3 DEF DiskIInv, Unread

LEMMA DiskIInvNext == DiskIInv /\ [DiskNext]_diskVars => DiskIInv'
<1> SUFFICES ASSUME DiskIInv, [DiskNext]_diskVars PROVE DiskIInv'
  OBVIOUS
<1>1. CASE UNCHANGED diskVars
  BY <1>1 DEF diskVars, request, DiskIInv, DiskTypes, SetUp, Underway, Unread, DiskReadTrue,
              Wanted, Readable, OnDisk, Answered, DiskSectors
<1> QED
  BY <1>1, BootDiskInitKeeps, BootDiskReadKeeps, PacketReadKeeps, SingleReadKeeps,
     SectorFaultKeeps, SectorsReadKeeps DEF DiskNext

(* Inside the disk a read returns TRUE only with every sector asked for,   *)
(* in order, and FALSE only if INT 13h failed, however it is split.        *)
THEOREM DiskReadTrueHolds == DiskSpec => []DiskReadTrue
<1>1. DiskIInv => DiskReadTrue
  BY DEF DiskIInv
<1> QED
  BY <1>1, DiskInitIInv, DiskIInvNext, PTL DEF DiskSpec
-----------------------------------------------------------------------------
(* The file reader                                                         *)

Length == Len(disk.chain)

(* The clusters of the file, and the end mark behind them, which is loaded *)
(* as a cluster once by who reads on.                                      *)
Link(i) == IF i <= Length THEN disk.chain[i] ELSE EofMark

LEMMA ChainIs ==
  ASSUME disk \in Volumes
  PROVE  /\ Length \in Nat \ {0} /\ disk.end \in Marks \cup {0}
         /\ \A i \in 1 .. Length : disk.chain[i] \in 2 .. LastData
         /\ \A i, j \in 1 .. Length : disk.chain[i] = disk.chain[j] => i = j
<1>1. /\ disk.chain # <<>> /\ disk.chain \in Seq(2 .. LastData)
      /\ \A i, j \in 1 .. Len(disk.chain) : disk.chain[i] = disk.chain[j] => i = j
      /\ disk.end \in Marks \cup {0}
  BY FatAssumption
<1>2. Length \in Nat /\ Length # 0
  BY <1>1, LenProperties, EmptySeq DEF Length
<1>3. \A i \in 1 .. Length : disk.chain[i] \in 2 .. LastData
  BY <1>1, ElementOfSeq DEF Length
<1> QED
  BY <1>1, <1>2, <1>3 DEF Length

LEMMA MarksAre ==
  /\ LastData \in Nat /\ EofMark \in Nat /\ BadMark \in Nat /\ RsvdMark \in Nat
  /\ EofMark > LastData /\ BadMark > LastData /\ RsvdMark > LastData
  /\ EofMark # BadMark /\ EofMark # RsvdMark
<1>1. LastData \in Nat /\ Marks \subseteq Nat /\ \A m \in Marks : m > LastData
  BY FatAssumption
<1>2. EofMark \in Marks /\ BadMark \in Marks /\ RsvdMark \in Marks
  BY DEF Marks
<1>3. EofMark # BadMark /\ EofMark # RsvdMark
  BY FatAssumption
<1> QED
  BY <1>1, <1>2, <1>3

LEMMA SizesAre ==
  /\ SectsPerClust \in Nat \ {0} /\ BytesPerSect \in Nat \ {0}
  /\ EntriesPerSector \in Nat \ {0} /\ ClusterBytes \in Nat \ {0}
<1>1. /\ SectsPerClust \in Nat \ {0} /\ BytesPerSect \in Nat \ {0}
      /\ EntriesPerSector \in Nat \ {0}
  BY FatAssumption
<1>2. \A s \in Nat \ {0}, b \in Nat \ {0} : s * b \in Nat \ {0}
  OBVIOUS
<1> QED
  BY <1>1, <1>2 DEF ClusterBytes

LEMMA FatEntryIs ==
  ASSUME disk \in Volumes, NEW i \in 1 .. Length
  PROVE  FatEntry(disk.chain[i]) = IF i = Length THEN disk.end ELSE disk.chain[i + 1]
<1>1. PICK here : here = {j \in 1 .. Length : disk.chain[j] = disk.chain[i]}
  OBVIOUS
<1>2. here = {i}
  BY <1>1, ChainIs
<1>3. (CHOOSE j \in here : TRUE) = i
  BY <1>2
<1> QED
  BY <1>1, <1>2, <1>3 DEF FatEntry, Length

LEMMA FatEntryType ==
  ASSUME disk \in Volumes, NEW c
  PROVE  FatEntry(c) \in AnyEntry
<1>1. PICK here : here = {j \in 1 .. Length : disk.chain[j] = c}
  OBVIOUS
<1>2. CASE here = {}
  BY <1>1, <1>2 DEF FatEntry, AnyEntry, Length
<1>3. CASE here # {}
  <2>1. PICK i : i = CHOOSE j \in here : TRUE
    OBVIOUS
  <2>2. i \in 1 .. Length /\ disk.chain[i] = c
    BY <1>1, <1>3, <2>1
  <2>3. FatEntry(c) = IF i = Length THEN disk.end ELSE disk.chain[i + 1]
    BY <2>2, FatEntryIs
  <2>4. CASE i = Length
    BY <2>3, <2>4, ChainIs DEF AnyEntry
  <2>5. CASE i # Length
    <3>1. i + 1 \in 1 .. Length
      BY <2>2, <2>5, ChainIs
    <3> QED
      BY <2>3, <2>5, <3>1 DEF AnyEntry, Length
  <2> QED
    BY <2>4, <2>5
<1> QED
  BY <1>2, <1>3

LEMMA EntriesAreNumbers == ASSUME disk \in Volumes PROVE AnyEntry \subseteq Nat
<1>1. \A i \in 1 .. Length : disk.chain[i] \in Nat
  BY ChainIs, MarksAre
<1>2. Marks \subseteq Nat
  BY FatAssumption
<1>3. ASSUME NEW e \in AnyEntry PROVE e \in Nat
  <2>1. e = 0 \/ e \in Marks \/ \E i \in 1 .. Length : e = disk.chain[i]
    BY DEF AnyEntry, Length
  <2>2. CASE \E i \in 1 .. Length : e = disk.chain[i]
    BY <1>1, <2>2
  <2>3. CASE e \in Marks
    BY <1>2, <2>3
  <2> QED
    BY <2>1, <2>2, <2>3
<1> QED
  BY <1>3

(* What a lookup in the FAT may return, and what it must once no read of   *)
(* the FAT failed.                                                         *)
LEMMA LookTypes ==
  ASSUME disk \in Volumes, faults \in 0 .. MaxFaults, NEW c \in Int,
         cacheSector \in Nat \cup {NoSector}, cacheData \in Nat \cup {NoSector},
         NEW r \in GetNextCluster(c)
  PROVE  /\ r.value \in Nat /\ r.faults \in 0 .. MaxFaults
         /\ r.sector \in Nat \cup {NoSector} /\ r.data \in Nat \cup {NoSector}
<1>1. IsDataCluster(c) => FatSector(c) \in Nat
  <2> SUFFICES ASSUME IsDataCluster(c) PROVE FatSector(c) \in Nat
    OBVIOUS
  <2>1. c \in Nat
    BY MarksAre DEF IsDataCluster
  <2> QED
    BY <2>1, SizesAre, DivMod DEF FatSector
<1>2. IsEOFCluster(c) => c \in Nat
  BY MarksAre DEF IsEOFCluster
<1>3. FatEntry(c) \in Nat
  BY FatEntryType, EntriesAreNumbers
<1>4. EntriesIn(cacheData, c) \subseteq Nat
  <2>1. \A d : FatEntry(d) \in Nat
    BY FatEntryType, EntriesAreNumbers
  <2> QED
    BY <2>1, EntriesAreNumbers DEF EntriesIn
<1>5. MaxFaults \in Nat
  BY FatAssumption
<1>6. CASE ~IsDataCluster(c)
  BY <1>2, <1>6 DEF GetNextCluster, Looked
<1>7. CASE IsDataCluster(c) /\ cacheSector = FatSector(c)
  BY <1>4, <1>7 DEF GetNextCluster, Looked
<1>8. CASE IsDataCluster(c) /\ cacheSector # FatSector(c)
  <2>1. \/ r \in Looked({FatEntry(c)}, FatSector(c), FatSector(c), faults)
        \/ faults < MaxFaults
           /\ r \in Looked(EntriesIn(cacheData, c), FatSector(c), cacheData, faults + 1)
    BY <1>8 DEF GetNextCluster
  <2>2. CASE r \in Looked({FatEntry(c)}, FatSector(c), FatSector(c), faults)
    BY <1>1, <1>3, <1>8, <2>2 DEF Looked
  <2>3. CASE /\ faults < MaxFaults
             /\ r \in Looked(EntriesIn(cacheData, c), FatSector(c), cacheData, faults + 1)
    <3>1. faults + 1 \in 0 .. MaxFaults
      BY <1>5, <2>3
    <3> QED
      BY <1>1, <1>4, <1>8, <2>3, <3>1 DEF Looked
  <2> QED
    BY <2>1, <2>2, <2>3
<1> QED
  BY <1>6, <1>7, <1>8

LEMMA LookIs ==
  ASSUME disk \in Volumes, faults \in 0 .. MaxFaults, NEW c \in Int,
         cacheData = cacheSector,
         NEW r \in GetNextCluster(c), r.faults = faults
  PROVE  /\ r.data = r.sector
         /\ r.value = IF IsDataCluster(c) THEN FatEntry(c) ELSE IF IsEOFCluster(c) THEN c ELSE 0
<1>1. CASE ~IsDataCluster(c)
  BY <1>1 DEF GetNextCluster, Looked
<1>2. CASE IsDataCluster(c) /\ cacheSector = FatSector(c)
  <2>1. c \in Nat
    BY <1>2, MarksAre DEF IsDataCluster
  <2>2. PICK n \in Nat \ {0} : n = EntriesPerSector
    BY SizesAre
  <2>3. PICK q \in Nat, i \in 0 .. n - 1 : q = c \div n /\ i = c % n /\ c = n * q + i
    BY <2>1, DivMod
  <2>4. q # NoSector /\ q * n + i = c
    BY <2>3 DEF NoSector
  <2>5. cacheData = q /\ EntriesIn(q, c) = {FatEntry(c)}
    BY <1>2, <2>2, <2>3, <2>4 DEF EntriesIn, FatSector
  <2> QED
    BY <1>2, <2>5 DEF GetNextCluster, Looked
<1>3. CASE IsDataCluster(c) /\ cacheSector # FatSector(c)
  <2>1. \/ r \in Looked({FatEntry(c)}, FatSector(c), FatSector(c), faults)
        \/ r \in Looked(EntriesIn(cacheData, c), FatSector(c), cacheData, faults + 1)
    BY <1>3 DEF GetNextCluster
  <2>2. faults # faults + 1
    OBVIOUS
  <2>3. r \in Looked({FatEntry(c)}, FatSector(c), FatSector(c), faults)
    BY <2>1, <2>2 DEF Looked
  <2> QED
    BY <1>3, <2>3 DEF Looked
<1> QED
  BY <1>1, <1>2, <1>3
(* The types, and at which steps what is not 0.                            *)
FatShape ==
  /\ FatTypeOK
  /\ step # "off" => bufLen # 0
  /\ step \in {"serve", "refill", "group", "load"} => need # 0
  /\ step = "load" => file.contig # 0

(* The bytes loaded from the file since it was opened.                     *)
Served == step \in {"idle", "serve"}
Consumed == IF Served THEN got + file.bytes ELSE got

(* The file's clusters behind the q-th begin with k that lie side by side  *)
(* from cluster c on.                                                      *)
RunFrom(q, c, k) == q + k <= Length + 1 /\ \A j \in 0 .. k - 1 : Link(q + 1 + j) = c + j

(* Where the reader stands, q clusters into the file: a run is being       *)
(* looked for, or some of one is still to be loaded, or nothing.           *)
Grouping(q) ==
  /\ Consumed = q * ClusterBytes
  /\ walk = file.cur + file.contig /\ RunFrom(q, file.cur, file.contig + 1)
InRun(q) ==
  /\ left # 0 /\ (~ReadBySector => left = SectsPerClust)
  /\ Consumed = q * ClusterBytes + (SectsPerClust - left) * BytesPerSect
  /\ RunFrom(q, file.cur, file.contig)
AfterRun(q) ==
  /\ Consumed = q * ClusterBytes
  /\ file.cur = IF q = 0 THEN file.first ELSE Link(q) + 1
StandsAt(q) ==
  IF step = "group" THEN Grouping(q)
  ELSE IF file.contig # 0 THEN InRun(q) ELSE AfterRun(q)

(* Inside the file; or past it, as long as its end is a mark and its last  *)
(* cluster is not the one below its first.                                 *)
Guarded == disk.end = EofMark /\ \A i \in 1 .. Length : disk.chain[i] # First - 1
InFile == Consumed < Capacity \/ Guarded
Standing == InFile => \E q \in 0 .. Length + 1 : StandsAt(q)

(* The buffer holds the file's bytes in front of what is still to come.    *)
Buffered ==
  \A a, n, o : a = file.addr /\ n = file.bytes /\ o = got - a =>
    \A x \in Nat : x < a + n /\ o + x < Capacity =>
      bufAt # Junk /\ bufAt * BytesPerSect + x = FileByte(o + x)

Trusting ==
  trust =>
    /\ step # "off" /\ cacheData = cacheSector /\ file.first = First
    /\ Served => file.addr \in Nat /\ file.addr <= got
    /\ NoRunEndsBelowFirst => right /\ Standing /\ (Served => Buffered)

FatIInv == FatShape /\ Trusting

-----------------------------------------------------------------------------
LEMMA FatTypes ==
  ASSUME FatTypeOK
  PROVE  /\ disk \in Volumes /\ bufLen \in Nat /\ left \in 0 .. SectsPerClust
         /\ file.first \in Nat /\ file.cur \in Nat /\ file.contig \in Nat
         /\ file.addr \in Int /\ file.bytes \in Nat
         /\ need \in Nat /\ walk \in Nat /\ got \in Nat /\ faults \in 0 .. MaxFaults
         /\ cacheSector \in Nat \cup {NoSector} /\ cacheData \in Nat \cup {NoSector}
<1>1. BufferSectors \subseteq Nat
  BY FatAssumption
<1>2. file \in [first : Nat, cur : Nat, contig : Nat, addr : Int, bytes : Nat]
  BY DEF FatTypeOK
<1> QED
  BY <1>1, <1>2 DEF FatTypeOK

(* What one refill loads.                                                  *)
LEMMA LoadIs ==
  ASSUME FatTypeOK, bufLen # 0, file.contig # 0,
         left # 0 \/ ~ReadBySector
  PROVE  \E m \in Nat, d \in Nat :
           /\ m = SectorsToRead /\ d = ClustersDone /\ d <= file.contig
           /\ LeftAfter \in Nat /\ LeftAfter <= SectsPerClust
           /\ IF ReadBySector
              THEN /\ m <= left /\ d <= 1
                   /\ d = 1 => m = left /\ LeftAfter = SectsPerClust
                   /\ d = 0 => m < left /\ LeftAfter = left - m
              ELSE d # 0 /\ m = d * SectsPerClust /\ LeftAfter = left
<1>1. /\ bufLen \in Nat \ {0} /\ left \in Nat /\ left <= SectsPerClust
      /\ file.contig \in Nat \ {0}
  BY FatTypes, SizesAre
<1>2. PICK s \in Nat \ {0} : s = SectsPerClust
  BY SizesAre
<1>3. CASE ReadBySector
  <2>1. SectorsToRead = Least(bufLen, left)
    BY <1>3 DEF SectorsToRead
  <2>2. PICK m \in Nat : m = SectorsToRead /\ m <= left
    BY <1>1, <2>1 DEF Least
  <2>3. ClustersDone = (IF left = m THEN 1 ELSE 0) /\ LeftAfter = (IF left = m THEN s ELSE left - m)
    BY <1>2, <1>3, <2>2 DEF ClustersDone, LeftAfter
  <2>4. CASE left = m
    BY <1>1, <1>2, <1>3, <2>2, <2>3, <2>4
  <2>5. CASE left # m
    <3>1. left - m \in Nat /\ m < left /\ left - m <= s
      BY <1>1, <1>2, <2>2, <2>5
    <3> QED
      BY <1>1, <1>2, <1>3, <2>2, <2>3, <2>5, <3>1
  <2> QED
    BY <2>4, <2>5
<1>4. CASE ~ReadBySector
  <2>1. bufLen >= s
    BY <1>1, <1>2, <1>4 DEF ReadBySector
  <2>0. bufLen \in Nat
    BY <1>1
  <2>2. PICK k \in Nat, i \in 0 .. s - 1 : k = bufLen \div s /\ bufLen = s * k + i
    BY <2>0, DivMod
  <2>3. k # 0
    BY <2>1, <2>2
  <2>4. PICK d \in Nat \ {0} : d = ClustersToRead /\ d <= file.contig
    BY <1>1, <1>2, <2>2, <2>3 DEF ClustersToRead, ReadBuffLenInClusters, Least
  <2>5. PICK m \in Nat : m = d * s
    OBVIOUS
  <2>6. SectorsToRead = m /\ ClustersDone = d /\ LeftAfter = left
    BY <1>2, <1>4, <2>4, <2>5 DEF SectorsToRead, ClustersDone, LeftAfter
  <2> QED
    BY <1>1, <1>2, <1>4, <2>4, <2>5, <2>6
<1> QED
  BY <1>3, <1>4

(* Whatever is left of the cluster: a refill with nothing to load loads    *)
(* nothing.                                                                *)
LEMMA LoadTypes ==
  ASSUME FatTypeOK, file.contig # 0
  PROVE  ClustersDone \in Nat /\ ClustersDone <= file.contig /\ LeftAfter \in 0 .. SectsPerClust
<1>1. /\ bufLen \in Nat /\ left \in Nat /\ left <= SectsPerClust /\ file.contig \in Nat \ {0}
      /\ SectsPerClust \in Nat \ {0}
  BY FatTypes, SizesAre
<1>2. CASE ReadBySector
  <2>1. SectorsToRead \in Nat /\ SectorsToRead <= left
    BY <1>1, <1>2 DEF SectorsToRead, Least
  <2> QED
    BY <1>1, <1>2, <2>1 DEF ClustersDone, LeftAfter
<1>3. CASE ~ReadBySector
  <2>1. PICK s \in Nat \ {0} : s = SectsPerClust
    BY <1>1
  <2>2. bufLen \div s \in Nat
    BY <1>1, DivMod
  <2>3. ClustersToRead \in Nat /\ ClustersToRead <= file.contig
    BY <1>1, <2>1, <2>2 DEF ClustersToRead, ReadBuffLenInClusters, Least
  <2> QED
    BY <1>1, <1>3, <2>3 DEF ClustersDone, LeftAfter
<1> QED
  BY <1>2, <1>3

LEMMA LoadFits ==
  ASSUME FatTypeOK PROVE SectorsToRead \in Nat /\ SectorsToRead <= bufLen
<1>1. bufLen \in Nat /\ left \in Nat /\ file.contig \in Nat
  BY FatTypes, SizesAre
<1>2. CASE ReadBySector
  BY <1>1, <1>2 DEF SectorsToRead, Least
<1>3. CASE ~ReadBySector
  <2>1. PICK s \in Nat \ {0} : s = SectsPerClust
    BY SizesAre
  <2>2. PICK k \in Nat, i \in 0 .. s - 1 : k = bufLen \div s /\ bufLen = s * k + i
    BY <1>1, <2>1, DivMod
  <2>3. PICK d \in Nat : d = ClustersToRead /\ d <= k
    BY <1>1, <2>1, <2>2 DEF ClustersToRead, ReadBuffLenInClusters, Least
  <2>4. d * s <= s * k /\ d * s \in Nat
    BY <2>3
  <2>5. SectorsToRead = d * s
    BY <1>3, <2>1, <2>3 DEF SectorsToRead
  <2> QED
    BY <1>1, <2>2, <2>4, <2>5
<1> QED
  BY <1>2, <1>3
-----------------------------------------------------------------------------
(* The types are kept.                                                     *)

LEMMA ShapeInit == FatInit => FatIInv
<1> SUFFICES ASSUME FatInit PROVE FatIInv
  OBVIOUS
<1>1. file \in [first : Nat, cur : Nat, contig : Nat, addr : Int, bytes : Nat]
  BY DEF FatInit, Closed
<1>2. 0 \in 0 .. SectsPerClust /\ 0 \in 0 .. MaxFaults
  BY SizesAre, FatAssumption
<1>3. FatTypeOK
  BY <1>1, <1>2 DEF FatInit, FatTypeOK
<1> QED
  BY <1>3 DEF FatInit, FatIInv, FatShape, Trusting

LEMMA FirstIs == ASSUME disk \in Volumes PROVE First \in 2 .. LastData /\ First \in Nat /\ First = Link(1)
<1>1. 1 \in 1 .. Length /\ 1 <= Length
  BY ChainIs
<1> QED
  BY <1>1, ChainIs, MarksAre DEF First, Link

(* An action that leaves most alone.                                       *)
LEMMA ShapeCalls ==
  ASSUME FatShape,
         \/ FSInit \/ FSOpenFile \/ FSOpenFileFails \/ FSCloseFile \/ FSReadFileNothing
         \/ (\E offset \in Rewinds : FSRewind(offset))
         \/ (\E n \in Lengths : FSReadFile(n))
  PROVE  FatShape'
<1>1. FatTypeOK
  BY DEF FatShape
<1>2. Lengths \subseteq Nat /\ Rewinds \subseteq Nat /\ MaxFaults \in Nat
      /\ 0 \notin BufferSectors
  BY FatAssumption
<1>3. CASE FSInit
  <2>1. FatTypeOK'
    BY <1>1, <1>3 DEF FSInit, FatTypeOK, client, cache
  <2>2. step' = "idle" /\ bufLen' # 0
    BY <1>2, <1>3 DEF FSInit
  <2> QED
    BY <2>1, <2>2 DEF FatShape
<1>4. CASE FSOpenFile
  <2>1. file' \in [first : Nat, cur : Nat, contig : Nat, addr : Int, bytes : Nat]
    <3>1. First \in Nat
      BY <1>1, FatTypes, FirstIs
    <3>2. file' = [first |-> First, cur |-> First, contig |-> 0, addr |-> 0, bytes |-> 0]
      BY <1>4 DEF FSOpenFile, OpenedAt, Closed
    <3> QED
      BY <3>1, <3>2
  <2>2. trust' \in BOOLEAN
    BY <1>4 DEF FSOpenFile
  <2>3. FatTypeOK'
    BY <1>1, <1>4, <2>1, <2>2 DEF FSOpenFile, FatTypeOK, cache, setup
  <2> QED
    BY <1>4, <2>3 DEF FSOpenFile, FatShape, setup
<1>5. CASE FSOpenFileFails
  <2>1. faults' \in 0 .. MaxFaults
    BY <1>1, <1>2, <1>5 DEF FSOpenFileFails, FatTypeOK
  <2>2. bufAt' \in Int \cup {Junk}
    BY <1>1, <1>5 DEF FSOpenFileFails, FatTypeOK
  <2>3. FatTypeOK'
    BY <1>1, <1>5, <2>1, <2>2 DEF FSOpenFileFails, FatTypeOK, cache, setup
  <2> QED
    BY <1>5, <2>3 DEF FSOpenFileFails, FatShape, setup
<1>6. CASE FSCloseFile
  <2>1. file' \in [first : Nat, cur : Nat, contig : Nat, addr : Int, bytes : Nat]
    BY <1>6 DEF FSCloseFile, Closed
  <2>2. FatTypeOK'
    BY <1>1, <1>6, <2>1 DEF FSCloseFile, FatTypeOK, cache, setup
  <2> QED
    BY <1>6, <2>2 DEF FSCloseFile, FatShape, setup
<1>7. CASE FSReadFileNothing
  <2>1. FatTypeOK'
    BY <1>1, <1>7 DEF FSReadFileNothing, Refused, Goes, FatTypeOK, cache, setup, client
  <2> QED
    BY <1>7, <2>1 DEF FSReadFileNothing, Refused, Goes, FatShape, setup
<1>8. ASSUME NEW offset \in Rewinds, FSRewind(offset) PROVE FatShape'
  <2>1. offset \in Nat /\ offset <= got /\ got' = got - offset /\ got \in Nat
    BY <1>1, <1>2, <1>8, FatTypes DEF FSRewind
  <2>2. file' \in [first : Nat, cur : Nat, contig : Nat, addr : Int, bytes : Nat]
    <3>1. file \in [first : Nat, cur : Nat, contig : Nat, addr : Int, bytes : Nat]
      BY <1>1 DEF FatTypeOK
    <3>2. file.addr - offset \in Int /\ file.bytes + offset \in Nat
      BY <1>1, <2>1, FatTypes
    <3>3. file' = [file EXCEPT !.addr = file.addr - offset, !.bytes = file.bytes + offset]
      BY <1>8 DEF FSRewind
    <3> QED
      BY <3>1, <3>2, <3>3
  <2>3. got' \in Nat
    BY <2>1
  <2>4. trust' \in BOOLEAN /\ result' \in BOOLEAN
    BY <1>1, <1>8 DEF FSRewind, FatTypeOK
  <2>5. FatTypeOK'
    BY <1>1, <1>8, <2>2, <2>3, <2>4 DEF FSRewind, FatTypeOK, cache, setup
  <2> QED
    BY <1>8, <2>5 DEF FSRewind, Goes, FatShape, setup
<1>9. ASSUME NEW n \in Lengths, FSReadFile(n) PROVE FatShape'
  <2>1. n \in Nat /\ n # 0
    BY <1>2, <1>9 DEF FSReadFile
  <2>2. FatTypeOK'
    BY <1>1, <1>9, <2>1 DEF FSReadFile, FatTypeOK, cache, setup, client
  <2> QED
    BY <1>9, <2>1, <2>2 DEF FSReadFile, Goes, FatShape, setup
<1> QED
  BY <1>3, <1>4, <1>5, <1>6, <1>7, <1>8, <1>9
FileRecord == [first : Nat, cur : Nat, contig : Nat, addr : Int, bytes : Nat]

LEMMA ShapeReads ==
  ASSUME FatShape, ReadStep
  PROVE  FatShape'
<1>1. FatTypeOK /\ file \in FileRecord
  BY DEF FatShape, FatTypeOK, FileRecord
<1>2. /\ disk \in Volumes /\ file.cur \in Nat /\ file.contig \in Nat /\ file.bytes \in Nat
      /\ file.addr \in Int /\ need \in Nat /\ walk \in Nat /\ got \in Nat
      /\ MaxFaults \in Nat /\ faults \in 0 .. MaxFaults
      /\ cacheSector \in Nat \cup {NoSector} /\ cacheData \in Nat \cup {NoSector}
  BY <1>1, FatTypes, FatAssumption
<1>3. ASSUME NEW c \in Int, NEW r \in GetNextCluster(c)
      PROVE  /\ r.value \in Nat /\ r.faults \in 0 .. MaxFaults
             /\ r.sector \in Nat \cup {NoSector} /\ r.data \in Nat \cup {NoSector}
  BY <1>2, <1>3, LookTypes
<1>4. CASE ServeFromBuffer
  <2>1. file' = [file EXCEPT !.bytes = file.bytes - need, !.addr = file.addr + need]
    BY <1>4 DEF ServeFromBuffer
  <2>2. file.bytes - need \in Nat /\ file.addr + need \in Int /\ got + need \in Nat
    BY <1>2, <1>4 DEF ServeFromBuffer
  <2>3. file' \in FileRecord
    BY <1>1, <2>1, <2>2 DEF FileRecord
  <2>4. right' \in BOOLEAN
    BY <1>4 DEF ServeFromBuffer, Deliver
  <2>5. got' \in Nat
    BY <1>4, <2>2 DEF ServeFromBuffer, Deliver
  <2>6. FatTypeOK'
    BY <1>1, <1>4, <2>3, <2>4, <2>5 DEF ServeFromBuffer, FatTypeOK, FileRecord, cache, setup
  <2> QED
    BY <1>4, <2>6 DEF ServeFromBuffer, FatShape, setup
<1>5. CASE DrainBuffer
  <2>1. need - file.bytes \in Nat /\ need - file.bytes # 0 /\ got + file.bytes \in Nat
    BY <1>2, <1>5 DEF DrainBuffer
  <2>2. right' \in BOOLEAN
    BY <1>5 DEF DrainBuffer, Deliver
  <2>3. got' \in Nat /\ need' \in Nat /\ need' # 0
    BY <1>5, <2>1 DEF DrainBuffer, Deliver
  <2>4. FatTypeOK'
    BY <1>1, <1>5, <2>2, <2>3 DEF DrainBuffer, FatTypeOK, cache, setup
  <2> QED
    BY <1>5, <2>3, <2>4 DEF DrainBuffer, FatShape, setup
<1>6. CASE MoreOfRun
  <2>1. FatTypeOK'
    BY <1>1, <1>6 DEF MoreOfRun, FatTypeOK, cache, setup, client
  <2> QED
    BY <1>2, <1>6, <2>1 DEF MoreOfRun, FatShape, setup
<1>7. CASE FirstRun
  <2>1. FatTypeOK'
    BY <1>1, <1>2, <1>7 DEF FirstRun, FatTypeOK, cache, setup, client
  <2> QED
    BY <1>7, <2>1 DEF FirstRun, FatShape, setup
<1>8. CASE FollowLink
  <2>1. PICK r \in GetNextCluster(LastOfRun(file.cur)) :
          /\ Took(r) /\ file' = [file EXCEPT !.cur = r.value] /\ walk' = r.value
          /\ trust' = (trust /\ r.faults = faults)
    BY <1>8 DEF FollowLink
  <2>2. LastOfRun(file.cur) \in Int
    BY <1>2 DEF LastOfRun
  <2>3. r.value \in Nat /\ faults' \in 0 .. MaxFaults
        /\ cacheSector' \in Nat \cup {NoSector} /\ cacheData' \in Nat \cup {NoSector}
    BY <1>3, <2>1, <2>2 DEF Took
  <2>4. file' \in FileRecord /\ trust' \in BOOLEAN
    BY <1>1, <2>1, <2>3 DEF FileRecord
  <2>5. FatTypeOK'
    BY <1>1, <1>8, <2>1, <2>3, <2>4 DEF FollowLink, FatTypeOK, FileRecord, setup, client
  <2> QED
    BY <1>8, <2>5 DEF FollowLink, FatShape, setup
<1>9. CASE ReachedEOF
  <2>1. file' = [file EXCEPT !.cur = LastOfRun(file.cur)] /\ LastOfRun(file.cur) \in Nat
    BY <1>9, MarksAre DEF ReachedEOF, IsEOFCluster
  <2>2. file' \in FileRecord
    BY <1>1, <2>1 DEF FileRecord
  <2>3. FatTypeOK'
    BY <1>1, <1>9, <2>2 DEF ReachedEOF, Refused, FatTypeOK, FileRecord, setup, client, cache
  <2> QED
    BY <1>9, <2>3 DEF ReachedEOF, Refused, FatShape, setup
<1>10. ASSUME file' = [file EXCEPT !.contig = file.contig + 1]
       PROVE  file' \in FileRecord /\ file'.contig # 0
  <2>1. file.contig + 1 \in Nat /\ file.contig + 1 # 0
    BY <1>2
  <2> QED
    BY <1>1, <1>10, <2>1 DEF FileRecord
<1>11. CASE RunGoesOn
  <2>1. PICK r \in GetNextCluster(walk) :
          Took(r) /\ walk' = r.value /\ trust' = (trust /\ r.faults = faults)
    BY <1>11 DEF RunGoesOn
  <2>2. r.value \in Nat /\ faults' \in 0 .. MaxFaults
        /\ cacheSector' \in Nat \cup {NoSector} /\ cacheData' \in Nat \cup {NoSector}
    BY <1>2, <1>3, <2>1 DEF Took
  <2>3. file' \in FileRecord
    BY <1>10, <1>11 DEF RunGoesOn
  <2>4. FatTypeOK'
    BY <1>1, <1>11, <2>1, <2>2, <2>3 DEF RunGoesOn, FatTypeOK, FileRecord, setup, client
  <2> QED
    BY <1>11, <2>4 DEF RunGoesOn, FatShape, setup
<1>12. CASE RunEnds
  <2>1. PICK r \in GetNextCluster(walk) : Took(r) /\ trust' = (trust /\ r.faults = faults)
    BY <1>12 DEF RunEnds
  <2>2. faults' \in 0 .. MaxFaults
        /\ cacheSector' \in Nat \cup {NoSector} /\ cacheData' \in Nat \cup {NoSector}
    BY <1>2, <1>3, <2>1 DEF Took
  <2>3. file' \in FileRecord /\ file'.contig # 0
    BY <1>10, <1>12 DEF RunEnds
  <2>4. left' \in 0 .. SectsPerClust
    BY <1>12, SizesAre DEF RunEnds
  <2>5. FatTypeOK'
    BY <1>1, <1>12, <2>1, <2>2, <2>3, <2>4 DEF RunEnds, FatTypeOK, FileRecord, setup, client
  <2> QED
    BY <1>12, <2>3, <2>5 DEF RunEnds, FatShape, setup
<1>13. CASE RunIsMarked
  <2>1. PICK r \in GetNextCluster(walk) : Took(r)
    BY <1>13 DEF RunIsMarked
  <2>2. faults' \in 0 .. MaxFaults
        /\ cacheSector' \in Nat \cup {NoSector} /\ cacheData' \in Nat \cup {NoSector}
    BY <1>2, <1>3, <2>1 DEF Took
  <2>3. file' \in FileRecord
    BY <1>10, <1>13 DEF RunIsMarked
  <2>4. FatTypeOK'
    BY <1>1, <1>13, <2>2, <2>3 DEF RunIsMarked, Refused, FatTypeOK, FileRecord, setup, client
  <2> QED
    BY <1>13, <2>4 DEF RunIsMarked, Refused, FatShape, setup
<1>14. CASE LoadFails
  <2>1. faults' \in 0 .. MaxFaults
    BY <1>2, <1>14 DEF LoadFails
  <2>2. bufAt' \in Int \cup {Junk}
    BY <1>1, <1>14 DEF LoadFails, FatTypeOK
  <2>3. FatTypeOK'
    BY <1>1, <1>14, <2>1, <2>2 DEF LoadFails, Refused, FatTypeOK, setup, client, cache
  <2> QED
    BY <1>14, <2>3 DEF LoadFails, Refused, FatShape, setup
<1>15. CASE LoadBuffer
  <2>1. SectorsToRead * BytesPerSect \in Nat
    <3>1. SectorsToRead \in Nat /\ BytesPerSect \in Nat
      BY <1>1, LoadFits, SizesAre
    <3> QED
      BY <3>1
  <2>2. bufAt' \in Int
    <3>1. /\ SectsPerClust \in Int /\ left \in Int /\ (file.cur - 2) * SectsPerClust \in Int
      BY <1>1, <1>2, FatTypes, SizesAre
    <3> QED
      BY <1>15, <3>1 DEF LoadBuffer, CurrentLBA, Cluster2LBA
  <2>3. ClustersDone \in Nat /\ ClustersDone <= file.contig /\ LeftAfter \in 0 .. SectsPerClust
    BY <1>1, <1>15, LoadTypes DEF LoadBuffer, FatShape
  <2>4. file' \in FileRecord
    <3>1. PICK k \in Nat : k = file.contig - ClustersDone
      BY <1>2, <2>3
    <3>2. PICK c \in Nat : c = file.cur + ClustersDone
      BY <1>2, <2>3
    <3>3. PICK b \in Nat : b = SectorsToRead * BytesPerSect
      BY <2>1
    <3>9. PICK a \in Int : a = 0
      OBVIOUS
    <3>4. file' = [file EXCEPT !.contig = k, !.cur = c, !.addr = a, !.bytes = b]
      BY <1>15, <3>1, <3>2, <3>3, <3>9 DEF LoadBuffer
    <3>5. [file EXCEPT !.contig = k, !.cur = c] \in FileRecord
      BY <1>1 DEF FileRecord
    <3>6. PICK f \in FileRecord : f = [file EXCEPT !.contig = k, !.cur = c]
      BY <3>5
    <3>7. file' = [f EXCEPT !.addr = a, !.bytes = b]
      BY <3>4, <3>6
    <3>8. [f EXCEPT !.addr = a, !.bytes = b] \in FileRecord
      BY DEF FileRecord
    <3> QED
      BY <3>7, <3>8
  <2>5. left' \in 0 .. SectsPerClust
    BY <1>15, <2>3 DEF LoadBuffer
  <2>6. FatTypeOK'
    BY <1>1, <1>15, <2>2, <2>4, <2>5 DEF LoadBuffer, FatTypeOK, FileRecord, setup, client, cache
  <2> QED
    BY <1>15, <2>6 DEF LoadBuffer, FatShape, setup
<1> QED
  BY <1>4, <1>5, <1>6, <1>7, <1>8, <1>9, <1>11, <1>12, <1>13, <1>14, <1>15 DEF ReadStep
-----------------------------------------------------------------------------
(* What is read is the file's.                                             *)

(* Where the reader stands is the same wherever the bytes loaded are.      *)
LEMMA StandsKeep ==
  ASSUME Standing, Consumed' = Consumed, UNCHANGED <<setup, left>>,
         file'.first = file.first, file'.cur = file.cur, file'.contig = file.contig,
         step # "group", step' # "group"
  PROVE  Standing'
<1>1. disk' = disk /\ bufLen' = bufLen /\ left' = left
  BY DEF setup
<1>2. InFile' => InFile
  BY <1>1 DEF InFile, Guarded, Capacity, Length, First
<1>3. \A i : Link(i)' = Link(i)
  BY <1>1 DEF Link, Length
<1>4. \A q : InRun(q) => InRun(q)'
  BY <1>1, <1>3 DEF InRun, RunFrom, ReadBySector, Length
<1>5. \A q : AfterRun(q) => AfterRun(q)'
  BY <1>3 DEF AfterRun
<1>6. \A q : StandsAt(q) => StandsAt(q)'
  BY <1>4, <1>5 DEF StandsAt
<1>7. Length' = Length
  BY <1>1 DEF Length
<1> QED
  BY <1>2, <1>6, <1>7 DEF Standing

LEMMA BufferKeeps ==
  ASSUME FatTypeOK, Buffered, UNCHANGED <<setup, bufAt>>,
         file'.addr \in Int, file'.bytes \in Int, got' \in Int,
         file'.addr + file'.bytes = file.addr + file.bytes,
         got' - file'.addr = got - file.addr
  PROVE  Buffered'
<1>1. disk' = disk /\ bufAt' = bufAt
  BY DEF setup
<1>2. Capacity' = Capacity /\ \A k : FileByte(k)' = FileByte(k)
  BY <1>1 DEF Capacity, FileByte, Cluster2LBA
<1> SUFFICES ASSUME NEW a, NEW n, NEW o, a = file'.addr, n = file'.bytes, o = got' - a,
                    NEW x \in Nat, x < a + n, o + x < Capacity'
             PROVE  bufAt' # Junk /\ bufAt' * BytesPerSect + x = FileByte(o + x)'
  BY DEF Buffered
<1>3. PICK b : b = file.addr
  OBVIOUS
<1>4. PICK m : m = file.bytes
  OBVIOUS
<1>5. o = got - b /\ x < b + m /\ o + x < Capacity
  BY <1>2, <1>3, <1>4
<1>6. bufAt # Junk /\ bufAt * BytesPerSect + x = FileByte(o + x)
  BY <1>3, <1>4, <1>5 DEF Buffered
<1> QED
  BY <1>1, <1>2, <1>6

(* What a call takes from the buffer is the file's.                        *)
LEMMA TakenRight ==
  ASSUME FatTypeOK, Buffered, right, file.addr \in Nat, file.addr <= got,
         NEW n \in Nat, n <= file.bytes, Deliver(n)
  PROVE  right'
<1>1. PICK a \in Nat, m \in Nat, o \in Nat : a = file.addr /\ m = file.bytes /\ o = got - a
  <2>1. file.bytes \in Nat /\ got - file.addr \in Nat
    BY FatTypes
  <2> QED
    BY <2>1
<1>2. ASSUME NEW i \in 0 .. n - 1, got + i < Capacity
      PROVE  BufferByte(file.addr + i) = FileByte(got + i)
  <2>1. PICK x \in Nat : x = a + i
    OBVIOUS
  <2>2. got \in Nat
    BY FatTypes
  <2>3. x < a + m /\ o + x = got + i
    BY <1>1, <2>1, <2>2
  <2>4. bufAt # Junk /\ bufAt * BytesPerSect + x = FileByte(got + i)
    BY <1>1, <1>2, <2>3 DEF Buffered
  <2>5. BufferByte(x) = bufAt * BytesPerSect + x
    BY <2>1, <2>4 DEF BufferByte
  <2> QED
    BY <1>1, <2>1, <2>4, <2>5
<1> QED
  BY <1>2 DEF Deliver

LEMMA TrustCalls ==
  ASSUME FatIInv, FatShape',
         \/ FSInit \/ FSOpenFile \/ FSOpenFileFails \/ FSCloseFile \/ FSReadFileNothing
         \/ (\E offset \in Rewinds : FSRewind(offset))
         \/ (\E n \in Lengths : FSReadFile(n))
  PROVE  Trusting'
<1>1. FatTypeOK /\ Trusting
  BY DEF FatIInv, FatShape
<1>2. CASE FSInit
  BY <1>1, <1>2 DEF FSInit, Trusting
<1>3. CASE FSOpenFileFails \/ FSCloseFile \/ FSReadFileNothing
  BY <1>3 DEF FSOpenFileFails, FSCloseFile, FSReadFileNothing, Refused, Trusting
<1>4. CASE FSOpenFile
  <2>1. /\ file'.first = First /\ file'.cur = First /\ file'.contig = 0
        /\ file'.addr = 0 /\ file'.bytes = 0 /\ got' = 0 /\ right' = TRUE /\ step' = "idle"
        /\ First' = First /\ cacheData' = cacheData /\ cacheSector' = cacheSector
        /\ trust' = (cacheData = cacheSector)
    BY <1>4 DEF FSOpenFile, OpenedAt, Closed, First, setup, cache
  <2>2. Consumed' = 0
    BY <2>1 DEF Consumed, Served
  <2>3. 0 * ClusterBytes = 0 /\ 0 \in 0 .. Length' + 1
    BY <1>1, FatTypes, ChainIs, SizesAre, <1>4 DEF FSOpenFile, setup, Length
  <2>4. StandsAt(0)'
    BY <2>1, <2>2, <2>3 DEF StandsAt, AfterRun
  <2>5. Standing'
    BY <2>3, <2>4 DEF Standing
  <2>6. Buffered'
    <3>1. \A x \in Nat : ~(x < 0 + 0)
      OBVIOUS
    <3> QED
      BY <2>1, <3>1 DEF Buffered
  <2>7. file'.addr \in Nat /\ file'.addr <= got'
    BY <2>1
  <2> QED
    BY <2>1, <2>5, <2>6, <2>7 DEF Trusting
<1>5. ASSUME NEW offset \in Rewinds, FSRewind(offset) PROVE Trusting'
  <2>1. /\ offset \in Nat /\ got \in Nat /\ file.addr \in Int /\ file.bytes \in Nat
        /\ offset <= got
    BY <1>1, <1>5, FatTypes, FatAssumption DEF FSRewind
  <2>2. /\ file'.first = file.first /\ file'.cur = file.cur /\ file'.contig = file.contig
        /\ file'.addr = file.addr - offset /\ file'.bytes = file.bytes + offset
        /\ got' = got - offset /\ step = "idle" /\ step' = "idle"
        /\ UNCHANGED <<setup, left, bufAt, right, cacheData, cacheSector>>
    BY <1>1, <1>5 DEF FSRewind, Goes, FatTypeOK, cache
  <2> SUFFICES ASSUME trust' PROVE Trusting'
    BY DEF Trusting
  <2>3. trust /\ offset <= file.addr
    BY <1>5 DEF FSRewind
  <2>4. file'.addr \in Nat /\ file'.addr <= got' /\ file'.bytes \in Int /\ got' \in Int
        /\ file'.addr + file'.bytes = file.addr + file.bytes
        /\ got' - file'.addr = got - file.addr /\ got' + file'.bytes = got + file.bytes
    <3>1. file.addr \in Nat /\ file.addr <= got
      BY <1>1, <2>2, <2>3 DEF Trusting, Served
    <3> QED
      BY <2>1, <2>2, <2>3, <3>1
  <2>5. Consumed' = Consumed
    BY <2>2, <2>4 DEF Consumed, Served
  <2>6. First' = First /\ (NoRunEndsBelowFirst' => NoRunEndsBelowFirst)
    BY <2>2 DEF setup, First, NoRunEndsBelowFirst
  <2>7. NoRunEndsBelowFirst => right' /\ Standing' /\ Buffered'
    <3> SUFFICES ASSUME NoRunEndsBelowFirst PROVE right' /\ Standing' /\ Buffered'
      OBVIOUS
    <3>1. right /\ Standing /\ Buffered
      BY <1>1, <2>2, <2>3 DEF Trusting, Served
    <3>2. Standing'
      BY <2>2, <2>5, <3>1, StandsKeep
    <3>3. Buffered'
      <4>1. file'.addr \in Int
        BY <2>4
      <4> QED
        BY <1>1, <2>2, <2>4, <3>1, <4>1, BufferKeeps
    <3> QED
      BY <2>2, <3>1, <3>2, <3>3
  <2> QED
    BY <1>1, <2>2, <2>3, <2>4, <2>6, <2>7 DEF Trusting
<1>6. ASSUME NEW n \in Lengths, FSReadFile(n) PROVE Trusting'
  <2>1. /\ step = "idle" /\ step' = "serve"
        /\ UNCHANGED <<setup, left, bufAt, right, cacheData, cacheSector, file, got, trust>>
    BY <1>6 DEF FSReadFile, Goes, client, cache
  <2>2. Consumed' = Consumed /\ First' = First /\ NoRunEndsBelowFirst' = NoRunEndsBelowFirst
    BY <2>1 DEF Consumed, Served, setup, First, NoRunEndsBelowFirst
  <2>3. Standing => Standing'
    BY <2>1, <2>2, StandsKeep
  <2>4. Buffered => Buffered'
    BY <2>1 DEF Buffered, Capacity, FileByte, Cluster2LBA, setup
  <2> QED
    BY <1>1, <2>1, <2>2, <2>3, <2>4 DEF Trusting, Served
<1> QED
  BY <1>2, <1>3, <1>4, <1>5, <1>6
LEMMA TrustServes ==
  ASSUME FatIInv, FatShape', ServeFromBuffer \/ DrainBuffer \/ MoreOfRun
  PROVE  Trusting'
<1>1. FatTypeOK /\ Trusting
  BY DEF FatIInv, FatShape
<1>2. /\ got \in Nat /\ file.addr \in Int /\ file.bytes \in Nat /\ need \in Nat
  BY <1>1, FatTypes
<1>3. CASE ServeFromBuffer
  <2>1. /\ file'.first = file.first /\ file'.cur = file.cur /\ file'.contig = file.contig
        /\ file'.addr = file.addr + need /\ file'.bytes = file.bytes - need
        /\ got' = got + need /\ step = "serve" /\ step' = "idle" /\ need <= file.bytes
        /\ UNCHANGED <<setup, left, bufAt, cacheData, cacheSector, trust>>
    BY <1>1, <1>3 DEF ServeFromBuffer, Deliver, FatTypeOK, cache
  <2> SUFFICES ASSUME trust PROVE Trusting'
    BY <2>1 DEF Trusting
  <2>2. file.addr \in Nat /\ file.addr <= got
    BY <1>1, <2>1 DEF Trusting, Served
  <2>3. file'.addr \in Nat /\ file'.addr <= got' /\ file'.addr \in Int /\ file'.bytes \in Int
        /\ got' \in Int
        /\ file'.addr + file'.bytes = file.addr + file.bytes
        /\ got' - file'.addr = got - file.addr /\ got' + file'.bytes = got + file.bytes
    BY <1>2, <2>1, <2>2
  <2>4. Consumed' = Consumed
    BY <2>1, <2>3 DEF Consumed, Served
  <2>5. First' = First /\ (NoRunEndsBelowFirst' => NoRunEndsBelowFirst)
    BY <2>1 DEF setup, First, NoRunEndsBelowFirst
  <2>6. NoRunEndsBelowFirst => right' /\ Standing' /\ Buffered'
    <3> SUFFICES ASSUME NoRunEndsBelowFirst PROVE right' /\ Standing' /\ Buffered'
      OBVIOUS
    <3>1. right /\ Standing /\ Buffered
      BY <1>1, <2>1 DEF Trusting, Served
    <3>2. Standing'
      BY <2>1, <2>4, <3>1, StandsKeep
    <3>3. Buffered'
      BY <1>1, <2>1, <2>3, <3>1, BufferKeeps
    <3>4. right'
      <4>1. Deliver(need)
        BY <1>3 DEF ServeFromBuffer
      <4> QED
        BY <1>1, <1>2, <2>1, <2>2, <3>1, <4>1, TakenRight
    <3> QED
      BY <3>2, <3>3, <3>4
  <2> QED
    BY <1>1, <2>1, <2>3, <2>5, <2>6 DEF Trusting
<1>4. CASE DrainBuffer
  <2>1. /\ file' = file /\ got' = got + file.bytes /\ step = "serve" /\ step' = "refill"
        /\ UNCHANGED <<setup, left, bufAt, cacheData, cacheSector, trust>>
    BY <1>4 DEF DrainBuffer, Deliver, cache
  <2> SUFFICES ASSUME trust PROVE Trusting'
    BY <2>1 DEF Trusting
  <2>2. file.addr \in Nat /\ file.addr <= got
    BY <1>1, <2>1 DEF Trusting, Served
  <2>3. Consumed' = Consumed
    BY <2>1 DEF Consumed, Served
  <2>4. First' = First /\ (NoRunEndsBelowFirst' => NoRunEndsBelowFirst)
    BY <2>1 DEF setup, First, NoRunEndsBelowFirst
  <2>5. NoRunEndsBelowFirst => right' /\ Standing'
    <3> SUFFICES ASSUME NoRunEndsBelowFirst PROVE right' /\ Standing'
      OBVIOUS
    <3>1. right /\ Standing /\ Buffered
      BY <1>1, <2>1 DEF Trusting, Served
    <3>2. Standing'
      BY <2>1, <2>3, <3>1, StandsKeep
    <3>3. right'
      <4>1. Deliver(file.bytes) /\ file.bytes <= file.bytes
        BY <1>2, <1>4 DEF DrainBuffer
      <4> QED
        BY <1>1, <1>2, <2>2, <3>1, <4>1, TakenRight
    <3> QED
      BY <3>2, <3>3
  <2> QED
    BY <1>1, <2>1, <2>4, <2>5 DEF Trusting, Served
<1>5. CASE MoreOfRun
  <2>1. /\ file' = file /\ got' = got /\ step = "refill" /\ step' = "load" /\ right' = right
        /\ UNCHANGED <<setup, left, bufAt, cacheData, cacheSector, trust>>
    BY <1>5 DEF MoreOfRun, cache, client
  <2>2. Consumed' = Consumed /\ First' = First /\ NoRunEndsBelowFirst' = NoRunEndsBelowFirst
    BY <2>1 DEF Consumed, Served, setup, First, NoRunEndsBelowFirst
  <2>3. Standing => Standing'
    BY <2>1, <2>2, StandsKeep
  <2> QED
    BY <1>1, <2>1, <2>2, <2>3 DEF Trusting, Served
<1> QED
  BY <1>3, <1>4, <1>5

(* Clusters of a run lie behind one another on the disk as in the file.    *)
LEMMA ByteIs ==
  ASSUME disk \in Volumes, NEW q \in Nat, NEW d \in Nat, q + d + 1 <= Length,
         NEW r \in 0 .. ClusterBytes - 1, NEW k \in Nat, k = (q + d) * ClusterBytes + r
  PROVE  FileByte(k) = Cluster2LBA(Link(q + 1 + d)) * BytesPerSect + r
<1>1. PICK n \in Nat \ {0} : n = ClusterBytes
  BY SizesAre
<1>2. PICK p \in Nat : p = q + d
  OBVIOUS
<1>3. k = n * p + r
  BY <1>1, <1>2
<1>4. k \div n = p /\ k % n = r
  BY <1>1, <1>3, DivIs
<1>5. p + 1 = q + 1 + d /\ p + 1 <= Length
  BY <1>2
<1>6. Link(q + 1 + d) = disk.chain[p + 1]
  BY <1>5 DEF Link
<1> QED
  BY <1>1, <1>4, <1>6 DEF FileByte

LEMMA Sides ==
  ASSUME NEW s \in Nat, NEW b \in Nat, NEW c \in Int, NEW d \in Nat
  PROVE  (c + d - 2) * s * b = (c - 2) * s * b + (s * b) * d
OBVIOUS

LEMMA RunBytes ==
  ASSUME disk \in Volumes, NEW q \in Nat, NEW c \in Nat, NEW k \in Nat, RunFrom(q, c, k),
         NEW x \in Nat, x < k * ClusterBytes, q * ClusterBytes + x < Capacity
  PROVE  Cluster2LBA(c) * BytesPerSect + x = FileByte(q * ClusterBytes + x)
<1>1. PICK n \in Nat \ {0} : n = ClusterBytes
  BY SizesAre
<1>2. PICK s \in Nat \ {0} : s = SectsPerClust
  BY SizesAre
<1>3. PICK b \in Nat \ {0} : b = BytesPerSect
  BY SizesAre
<1>4. n = s * b
  BY <1>1, <1>2, <1>3 DEF ClusterBytes
<1>5. PICK l \in Nat : l = Length
  BY ChainIs
<1>6. PICK d \in Nat, r \in 0 .. n - 1 : d = x \div n /\ r = x % n /\ x = n * d + r
  <2>1. x \div n \in Nat /\ x % n \in 0 .. n - 1 /\ x = n * (x \div n) + (x % n)
    BY DivMod
  <2> QED
    BY <2>1
<1>7. d < k
  BY <1>1, <1>6
<1>8. q + d < l
  <2>1. q * n + x < l * n
    BY <1>1, <1>5 DEF Capacity, Length
  <2>2. n * (q + d) + r < n * l
    BY <1>6, <2>1
  <2> QED
    BY <2>2
<1>9. PICK y \in Nat : y = q * n + x
  OBVIOUS
<1>10. y = (q + d) * n + r
  BY <1>6, <1>9
<1>11. FileByte(y) = Cluster2LBA(Link(q + 1 + d)) * b + r
  <2>1. q + d + 1 <= Length
    BY <1>5, <1>8
  <2> QED
    BY <1>1, <1>3, <1>10, <2>1, ByteIs
<1>12. Link(q + 1 + d) = c + d
  BY <1>7 DEF RunFrom
<1>13. Cluster2LBA(c + d) * b = Cluster2LBA(c) * b + n * d
  BY <1>2, <1>4, Sides DEF Cluster2LBA
<1>14. Cluster2LBA(c) * b \in Int
  BY <1>2 DEF Cluster2LBA
<1>15. FileByte(y) = Cluster2LBA(c) * b + x
  BY <1>6, <1>11, <1>12, <1>13, <1>14
<1> QED
  BY <1>1, <1>3, <1>9, <1>15
(* The link of a cluster of the file, as long as the reader is inside it.  *)
LEMMA LinkIs ==
  ASSUME disk \in Volumes, NEW i \in Nat, 1 <= i, i <= Length, i < Length \/ disk.end = EofMark
  PROVE  FatEntry(Link(i)) = Link(i + 1) /\ IsDataCluster(Link(i)) /\ ~IsEOFCluster(Link(i))
<1>1. i \in 1 .. Length
  BY ChainIs
<1>2. Link(i) = disk.chain[i] /\ disk.chain[i] \in 2 .. LastData
  BY <1>1, ChainIs DEF Link
<1>3. IsDataCluster(Link(i)) /\ ~IsEOFCluster(Link(i))
  BY <1>2, MarksAre DEF IsDataCluster, IsEOFCluster
<1>4. FatEntry(Link(i)) = IF i = Length THEN disk.end ELSE disk.chain[i + 1]
  BY <1>1, <1>2, FatEntryIs
<1>5. CASE i = Length
  <2>1. ~(i + 1 <= Length) /\ disk.end = EofMark
    BY <1>5, ChainIs
  <2> QED
    BY <1>3, <1>4, <1>5, <2>1 DEF Link
<1>6. CASE i # Length
  <2>1. i + 1 <= Length
    BY <1>1, <1>6, ChainIs
  <2> QED
    BY <1>3, <1>4, <1>6, <2>1 DEF Link
<1> QED
  BY <1>5, <1>6

LEMMA LinkType ==
  ASSUME disk \in Volumes, NEW i \in Nat \ {0}
  PROVE  Link(i) \in Nat /\ (i <= Length <=> IsDataCluster(Link(i))) /\ (i <= Length <=> Link(i) # EofMark)
<1>1. CASE i <= Length
  <2>1. i \in 1 .. Length
    BY <1>1, ChainIs
  <2>2. Link(i) \in 2 .. LastData
    BY <1>1, <2>1, ChainIs DEF Link
  <2> QED
    BY <1>1, <2>2, MarksAre DEF IsDataCluster
<1>2. CASE ~(i <= Length)
  <2>1. Link(i) = EofMark
    BY <1>2 DEF Link
  <2> QED
    BY <1>2, <2>1, MarksAre DEF IsDataCluster
<1> QED
  BY <1>1, <1>2

(* Between two clusters the reader is inside the file only before its end. *)
LEMMA InsideIs ==
  ASSUME disk \in Volumes, InFile, NEW q \in Nat, q <= Length + 1,
         Consumed = q * ClusterBytes
  PROVE  q < Length \/ Guarded
<1>1. PICK n \in Nat \ {0} : n = ClusterBytes
  BY SizesAre
<1>2. PICK l \in Nat : l = Length
  BY ChainIs
<1>3. Guarded \/ q * n < l * n
  BY <1>1, <1>2 DEF InFile, Capacity, Length
<1> QED
  BY <1>2, <1>3

(* A run is sought: from the first cluster, as long as nothing was loaded, *)
(* else from where the link of the last one leads.                         *)
LEMMA StartsRight ==
  ASSUME FatTypeOK, NoRunEndsBelowFirst, InFile, file.first = First,
         NEW q \in Nat, q <= Length + 1, AfterRun(q)
  PROVE  /\ file.cur = First => q = 0
         /\ file.cur # First => q # 0 /\ LastOfRun(file.cur) = Link(q)
         /\ q < Length \/ Guarded
<1>1. disk \in Volumes
  BY FatTypes
<1>2. q < Length \/ Guarded
  BY <1>1, InsideIs DEF AfterRun
<1>3. q # 0 => LastOfRun(file.cur) = Link(q) /\ Link(q) \in Nat /\ file.cur = Link(q) + 1
  <2> SUFFICES ASSUME q # 0
               PROVE  LastOfRun(file.cur) = Link(q) /\ Link(q) \in Nat /\ file.cur = Link(q) + 1
    OBVIOUS
  <2>1. Link(q) \in Nat
    BY <1>1, LinkType
  <2>2. file.cur = Link(q) + 1
    BY DEF AfterRun
  <2> QED
    BY <2>1, <2>2 DEF LastOfRun
<1>4. ASSUME file.cur = First, q # 0 PROVE FALSE
  <2>1. Link(q) = First - 1
    BY <1>1, <1>3, <1>4, FirstIs
  <2>2. CASE q <= Length
    <3>1. q \in 1 .. Length /\ Link(q) = disk.chain[q]
      BY <1>1, <1>4, <2>2, ChainIs DEF Link
    <3>2. q < Length => q \in 1 .. (Len(disk.chain) - 1)
      BY <1>1, <3>1, ChainIs DEF Length
    <3> QED
      BY <1>2, <2>1, <3>1, <3>2 DEF NoRunEndsBelowFirst, Guarded
  <2>3. CASE ~(q <= Length)
    <3>1. Link(q) = EofMark
      BY <2>3 DEF Link
    <3> QED
      BY <1>1, <2>1, <3>1, FirstIs, MarksAre
  <2> QED
    BY <2>2, <2>3
<1>5. q = 0 => file.cur = First
  BY DEF AfterRun
<1> QED
  BY <1>2, <1>3, <1>4, <1>5

LEMMA TrustSeeks ==
  ASSUME FatIInv, FatShape', FirstRun \/ FollowLink
  PROVE  Trusting'
<1>1. FatTypeOK /\ Trusting
  BY DEF FatIInv, FatShape
<1>2. disk \in Volumes /\ file.cur \in Nat /\ faults \in 0 .. MaxFaults
  BY <1>1, FatTypes
<1>3. /\ step = "refill" /\ step' = "group" /\ file.contig = 0
      /\ file'.first = file.first /\ file'.contig = 0 /\ got' = got /\ right' = right
      /\ UNCHANGED setup /\ walk' = file'.cur /\ (trust' => trust)
  BY <1>1 DEF FirstRun, FollowLink, FatTypeOK, client
<1> SUFFICES ASSUME trust' PROVE Trusting'
  BY DEF Trusting
<1>4. file.first = First /\ cacheData = cacheSector
  BY <1>1, <1>3 DEF Trusting
<1>5. disk' = disk /\ First' = First /\ Length' = Length /\ (\A i : Link(i)' = Link(i))
      /\ Consumed' = Consumed
  BY <1>3 DEF setup, First, Length, Link, Consumed, Served
<1>6. cacheData' = cacheSector'
  <2>1. CASE FirstRun
    BY <1>4, <2>1 DEF FirstRun, cache
  <2>2. CASE FollowLink
    <3>1. PICK r \in GetNextCluster(LastOfRun(file.cur)) : Took(r) /\ r.faults = faults
      BY <2>2 DEF FollowLink
    <3>2. LastOfRun(file.cur) \in Int
      BY <1>2 DEF LastOfRun
    <3>3. r.data = r.sector
      BY <1>2, <1>4, <3>1, <3>2, LookIs
    <3> QED
      BY <3>1, <3>3 DEF Took
  <2> QED
    BY <2>1, <2>2
<1>7. ASSUME NoRunEndsBelowFirst PROVE Standing'
  <2> SUFFICES ASSUME InFile' PROVE \E q \in 0 .. Length + 1 : StandsAt(q)'
    BY <1>5 DEF Standing
  <2>1. InFile
    BY <1>5 DEF InFile, Guarded, Capacity, Length
  <2>2. PICK q \in 0 .. Length + 1 : StandsAt(q)
    BY <1>1, <1>3, <1>7, <2>1 DEF Trusting, Standing
  <2>3. q \in Nat /\ q <= Length + 1
    BY <1>2, ChainIs
  <2>4. AfterRun(q)
    BY <1>3, <2>2 DEF StandsAt
  <2>5. /\ file.cur = First => q = 0
        /\ file.cur # First => q # 0 /\ LastOfRun(file.cur) = Link(q)
        /\ q < Length \/ Guarded
    BY <1>1, <1>4, <1>7, <2>1, <2>3, <2>4, StartsRight
  <2>6. file'.cur = Link(q + 1) /\ q + 1 <= Length + 1
    <3>1. CASE FirstRun
      <4>1. file' = file /\ file.cur = First
        BY <1>4, <3>1 DEF FirstRun
      <4>2. q = 0 /\ First = Link(0 + 1) /\ 0 + 1 <= Length + 1
        BY <1>2, <2>5, <4>1, FirstIs, ChainIs
      <4> QED
        BY <4>1, <4>2
    <3>2. CASE FollowLink
      <4>1. PICK r \in GetNextCluster(Link(q)) :
              /\ r.faults = faults /\ file' = [file EXCEPT !.cur = r.value]
              /\ ~IsEOFCluster(Link(q)) /\ q # 0
        BY <1>4, <2>5, <3>2 DEF FollowLink
      <4>2. q \in Nat \ {0} /\ Link(q) \in Int
        BY <1>2, <2>3, <4>1, LinkType
      <4>3. q <= Length
        BY <2>3, <4>1 DEF Link, IsEOFCluster
      <4>4. q < Length \/ disk.end = EofMark
        BY <2>5 DEF Guarded
      <4>5. FatEntry(Link(q)) = Link(q + 1) /\ IsDataCluster(Link(q))
        <5>1. 1 <= q
          BY <4>2
        <5> QED
          BY <1>2, <2>3, <4>3, <4>4, <5>1, LinkIs
      <4>6. r.value = Link(q + 1)
        BY <1>2, <1>4, <4>1, <4>2, <4>5, LookIs
      <4>7. file'.cur = r.value
        BY <1>1, <4>1 DEF FatTypeOK
      <4>8. q + 1 <= Length + 1
        BY <1>2, <2>3, <4>3, ChainIs
      <4> QED
        BY <4>6, <4>7, <4>8
    <3> QED
      BY <3>1, <3>2
  <2>7. PICK c \in Nat : c = file'.cur
    BY <1>2, <2>3, <2>6, LinkType
  <2>8. q + 1 <= Length' + 1 /\ \A j \in 0 .. 1 - 1 : Link(q + 1 + j)' = c + j
    <3>1. \A j \in 0 .. 1 - 1 : j = 0
      OBVIOUS
    <3>2. q + 1 + 0 = q + 1 /\ c + 0 = c
      BY <2>3
    <3> QED
      BY <1>5, <2>6, <2>7, <3>1, <3>2
  <2>9. walk' = c + 0 /\ file'.contig + 1 = 1
    BY <1>3, <2>7
  <2>10. Grouping(q)'
    BY <1>3, <1>5, <2>4, <2>7, <2>8, <2>9 DEF Grouping, AfterRun, RunFrom
  <2> QED
    BY <1>3, <2>10 DEF StandsAt
<1>8. NoRunEndsBelowFirst' => NoRunEndsBelowFirst
  BY <1>5 DEF NoRunEndsBelowFirst
<1>9. NoRunEndsBelowFirst => right
  BY <1>1, <1>3 DEF Trusting
<1> QED
  BY <1>3, <1>4, <1>5, <1>6, <1>7, <1>8, <1>9 DEF Trusting, Served
(* A run goes on from one cluster of the file to the next, and ends where  *)
(* they do.                                                                *)
LEMMA TrustGroups ==
  ASSUME FatIInv, FatShape', RunGoesOn \/ RunEnds
  PROVE  Trusting'
<1>1. FatTypeOK /\ Trusting
  BY DEF FatIInv, FatShape
<1>2. /\ disk \in Volumes /\ file.cur \in Nat /\ file.contig \in Nat /\ walk \in Nat
      /\ faults \in 0 .. MaxFaults
  BY <1>1, FatTypes
<1>3. /\ step = "group" /\ step' \in {"group", "load"}
      /\ file'.first = file.first /\ file'.cur = file.cur /\ file'.contig = file.contig + 1
      /\ got' = got /\ right' = right /\ UNCHANGED setup /\ (trust' => trust)
  BY <1>1 DEF RunGoesOn, RunEnds, FatTypeOK, client
<1> SUFFICES ASSUME trust' PROVE Trusting'
  BY DEF Trusting
<1>4. file.first = First /\ cacheData = cacheSector
  BY <1>1, <1>3 DEF Trusting
<1>5. /\ disk' = disk /\ bufLen' = bufLen /\ First' = First /\ Length' = Length
      /\ (\A i : Link(i)' = Link(i)) /\ Consumed' = Consumed
  BY <1>3 DEF setup, First, Length, Link, Consumed, Served
<1>6. PICK r \in GetNextCluster(walk) :
        /\ r.faults = faults /\ Took(r)
        /\ step' = "group" => GoesOn(r.value) /\ walk' = r.value
  BY DEF RunGoesOn, RunEnds
<1>7. /\ r.data = r.sector
      /\ r.value = IF IsDataCluster(walk) THEN FatEntry(walk)
                   ELSE IF IsEOFCluster(walk) THEN walk ELSE 0
  BY <1>2, <1>4, <1>6, LookIs
<1>8. cacheData' = cacheSector'
  BY <1>6, <1>7 DEF Took
<1>9. ASSUME NoRunEndsBelowFirst PROVE Standing'
  <2> SUFFICES ASSUME InFile' PROVE \E q \in 0 .. Length + 1 : StandsAt(q)'
    BY <1>5 DEF Standing
  <2>1. InFile
    BY <1>5 DEF InFile, Guarded, Capacity, Length
  <2>2. PICK q \in 0 .. Length + 1 : StandsAt(q)
    BY <1>1, <1>3, <1>9, <2>1 DEF Trusting, Standing
  <2>3. /\ q \in Nat /\ q <= Length + 1 /\ Consumed = q * ClusterBytes
        /\ walk = file.cur + file.contig /\ RunFrom(q, file.cur, file.contig + 1)
    BY <1>2, <1>3, <2>2, ChainIs DEF StandsAt, Grouping
  <2>4. PICK c \in Nat, k \in Nat : c = file.cur /\ k = file.contig
    BY <1>2
  <2>5. PICK l \in Nat : l = Length
    BY <1>2, ChainIs
  <2>6. q + k + 1 <= l + 1 /\ \A j \in 0 .. k : Link(q + 1 + j) = c + j
    <3>1. k + 1 - 1 = k /\ q + (k + 1) = q + k + 1
      BY <2>3
    <3> QED
      BY <2>3, <2>4, <2>5, <3>1 DEF RunFrom
  <2>7. CASE step' = "load"
    <3>1. RunEnds /\ left' = SectsPerClust
      BY <1>3, <2>7 DEF RunGoesOn, RunEnds
    <3>2. left' # 0 /\ SectsPerClust - left' = 0 /\ (SectsPerClust - left') * BytesPerSect = 0
      <4>1. SectsPerClust - SectsPerClust = 0 /\ 0 * BytesPerSect = 0 /\ SectsPerClust # 0
        BY SizesAre
      <4> QED
        BY <3>1, <4>1
    <3>3. Consumed' = q * ClusterBytes + (SectsPerClust - left') * BytesPerSect
      <4>1. q * ClusterBytes \in Nat
        BY <2>3, SizesAre
      <4> QED
        BY <1>5, <2>3, <3>2, <4>1
    <3>4. q + (k + 1) <= Length' + 1 /\ \A j \in 0 .. (k + 1) - 1 : Link(q + 1 + j)' = c + j
      <4>1. (k + 1) - 1 = k /\ q + (k + 1) = q + k + 1
        BY <2>3
      <4> QED
        BY <1>5, <2>5, <2>6, <4>1
    <3>5. InRun(q)'
      BY <1>3, <2>4, <3>1, <3>2, <3>3, <3>4 DEF InRun, RunFrom
    <3>6. file'.contig # 0 /\ step' # "group"
      BY <1>2, <1>3, <2>7
    <3> QED
      BY <3>5, <3>6 DEF StandsAt
  <2>8. CASE step' = "group"
    <3>1. r.value = walk + 1 /\ IsDataCluster(r.value) /\ walk' = r.value
      BY <1>6, <2>8 DEF GoesOn
    <3>2. PICK i \in Nat \ {0} : i = q + 1 + k
      BY <2>3
    <3>3. walk = Link(i) /\ i <= l + 1
      <4>1. k \in 0 .. k
        OBVIOUS
      <4>2. Link(q + 1 + k) = c + k
        BY <2>6, <4>1
      <4> QED
        BY <2>3, <2>4, <2>6, <3>2, <4>2
    <3>4. i <= l
      <4> SUFFICES ASSUME ~(i <= l) PROVE FALSE
        OBVIOUS
      <4>1. ~IsDataCluster(walk) /\ walk = EofMark
        BY <1>2, <2>5, <3>3, LinkType
      <4>2. r.value = walk
        BY <1>7, <4>1 DEF IsEOFCluster
      <4> QED
        BY <1>2, <3>1, <4>2
    <3>5. IsDataCluster(walk) /\ walk = disk.chain[i] /\ i \in 1 .. Length
      BY <1>2, <2>5, <3>3, <3>4, LinkType DEF Link
    <3>6. r.value = IF i = Length THEN disk.end ELSE disk.chain[i + 1]
      BY <1>2, <1>7, <3>5, FatEntryIs
    <3>7. i # Length
      <4> SUFFICES ASSUME i = Length PROVE FALSE
        OBVIOUS
      <4>1. disk.end \in Marks \cup {0} /\ ~IsDataCluster(disk.end)
        <5>1. disk.end \in Marks \cup {0}
          BY <1>2, ChainIs
        <5>2. disk.end = 0 \/ disk.end = EofMark \/ disk.end = BadMark \/ disk.end = RsvdMark
          BY <5>1 DEF Marks
        <5> QED
          BY <5>1, <5>2, MarksAre DEF IsDataCluster
      <4> QED
        BY <3>1, <3>6, <4>1
    <3>8. i + 1 <= l /\ Link(i + 1) = walk + 1
      <4>1. i + 1 <= Length
        BY <2>5, <3>4, <3>7
      <4> QED
        BY <2>5, <3>1, <3>6, <3>7, <4>1 DEF Link
    <3>9. q + ((k + 1) + 1) <= l + 1 /\ \A j \in 0 .. k + 1 : Link(q + 1 + j) = c + j
      <4>1. q + ((k + 1) + 1) = i + 1
        BY <2>3, <3>2
      <4>2. ASSUME NEW j \in 0 .. k + 1 PROVE Link(q + 1 + j) = c + j
        <5>1. CASE j \in 0 .. k
          BY <2>6, <5>1
        <5>2. CASE j = k + 1
          <6>1. q + 1 + j = i + 1 /\ c + j = walk + 1
            BY <2>3, <2>4, <3>2, <5>2
          <6> QED
            BY <3>8, <6>1
        <5> QED
          BY <5>1, <5>2
      <4> QED
        BY <3>8, <4>1, <4>2
    <3>10. ((k + 1) + 1) - 1 = k + 1 /\ walk' = c + (k + 1)
      BY <2>3, <2>4, <3>1
    <3>11. Grouping(q)'
      BY <1>3, <1>5, <2>3, <2>4, <2>5, <3>9, <3>10 DEF Grouping, RunFrom
    <3> QED
      BY <2>8, <3>11 DEF StandsAt
  <2> QED
    BY <1>3, <2>7, <2>8
<1>10. NoRunEndsBelowFirst' => NoRunEndsBelowFirst
  BY <1>5 DEF NoRunEndsBelowFirst
<1>11. NoRunEndsBelowFirst => right
  BY <1>1, <1>3 DEF Trusting
<1> QED
  BY <1>3, <1>4, <1>5, <1>8, <1>9, <1>10, <1>11 DEF Trusting, Served
(* A refill that begins s sectors into the cluster at hand loads m of the  *)
(* next k clusters', and leaves d clusters and t sectors behind.           *)
Loads(s, m, d, t, k) ==
  /\ CurrentLBA = Cluster2LBA(file.cur) + s /\ s + left = SectsPerClust
  /\ m = SectorsToRead /\ d = ClustersDone /\ t + LeftAfter = SectsPerClust
  /\ s + m = d * SectsPerClust + t
  /\ s + m <= k * SectsPerClust /\ k <= file.contig /\ d <= file.contig
  /\ LeftAfter \in Nat \ {0} /\ (~ReadBySector => LeftAfter = SectsPerClust)
  /\ d = file.contig => t = 0

LEMMA LoadsIs ==
  ASSUME FatShape, step = "load", left # 0, ~ReadBySector => left = SectsPerClust
  PROVE  \E s, m, d, t, k \in Nat : Loads(s, m, d, t, k)
<1>1. PICK n \in Nat \ {0} : n = SectsPerClust
  BY SizesAre
<1>2. PICK l \in Nat \ {0} : l = left /\ l <= n
  BY <1>1, FatTypes DEF FatShape
<1>3. PICK g \in Nat \ {0} : g = file.contig
  BY FatTypes DEF FatShape
<1>4. PICK m \in Nat, d \in Nat :
        /\ m = SectorsToRead /\ d = ClustersDone /\ d <= file.contig
        /\ LeftAfter \in Nat /\ LeftAfter <= SectsPerClust
        /\ IF ReadBySector
           THEN /\ m <= left /\ d <= 1
                /\ d = 1 => m = left /\ LeftAfter = SectsPerClust
                /\ d = 0 => m < left /\ LeftAfter = left - m
           ELSE d # 0 /\ m = d * SectsPerClust /\ LeftAfter = left
  <2>1. FatTypeOK /\ bufLen # 0 /\ file.contig # 0
    BY DEF FatShape
  <2> QED
    BY <2>1, LoadIs
<1>5. PICK p \in Nat : p = LeftAfter /\ p <= n
  BY <1>1, <1>4
<1>6. PICK s \in Nat : s + l = n
  <2>1. n - l \in Nat /\ (n - l) + l = n
    BY <1>2
  <2> QED
    BY <2>1
<1>7. PICK t \in Nat : t + p = n
  <2>1. n - p \in Nat /\ (n - p) + p = n
    BY <1>5
  <2> QED
    BY <2>1
<1>8. CASE ReadBySector
  <2>1. CurrentLBA = Cluster2LBA(file.cur) + s
    <3>1. n - l = s
      BY <1>6
    <3> QED
      BY <1>1, <1>2, <1>8, <3>1 DEF CurrentLBA
  <2>2. CASE d = 1
    <3>1. m = l /\ p = n
      BY <1>1, <1>2, <1>4, <1>5, <1>8, <2>2
    <3>2. t = 0 /\ s + m = n /\ s + m = d * n + t /\ s + m <= 1 * n
      BY <1>6, <1>7, <2>2, <3>1
    <3>3. Loads(s, m, d, t, 1)
      BY <1>1, <1>2, <1>3, <1>4, <1>5, <1>6, <1>7, <1>8, <2>1, <2>2, <3>1, <3>2 DEF Loads
    <3> QED
      BY <3>3
  <2>3. CASE d # 1
    <3>1. d = 0
      BY <1>4, <1>8, <2>3
    <3>2. m < l /\ p = l - m
      BY <1>2, <1>4, <1>5, <1>8, <3>1
    <3>3. p # 0 /\ s + m = t /\ s + m = d * n + t /\ s + m <= 1 * n
      BY <1>6, <1>7, <3>1, <3>2
    <3>4. Loads(s, m, d, t, 1)
      BY <1>1, <1>2, <1>3, <1>4, <1>5, <1>6, <1>7, <1>8, <2>1, <3>1, <3>3 DEF Loads
    <3> QED
      BY <3>4
  <2> QED
    BY <2>2, <2>3
<1>9. CASE ~ReadBySector
  <2>1. l = n /\ p = n /\ m = d * n
    BY <1>1, <1>2, <1>4, <1>5, <1>9
  <2>2. s = 0 /\ t = 0 /\ s + m = d * n + t /\ s + m <= d * n
    BY <1>6, <1>7, <2>1
  <2>3. CurrentLBA = Cluster2LBA(file.cur) + s
    BY <1>9, <2>2 DEF CurrentLBA
  <2>4. Loads(s, m, d, t, d)
    BY <1>1, <1>2, <1>3, <1>4, <1>5, <1>6, <1>7, <1>9, <2>1, <2>2, <2>3 DEF Loads
  <2> QED
    BY <2>4
<1> QED
  BY <1>8, <1>9

LEMMA RunShorter ==
  ASSUME NEW q, NEW c, NEW g \in Nat, NEW k \in Nat, k <= g, RunFrom(q, c, g), q \in Nat,
         disk \in Volumes
  PROVE  RunFrom(q, c, k)
<1>1. q + k <= Length + 1
  BY ChainIs DEF RunFrom
<1>2. \A j \in 0 .. k - 1 : j \in 0 .. g - 1
  OBVIOUS
<1> QED
  BY <1>1, <1>2 DEF RunFrom

LEMMA RunLater ==
  ASSUME NEW q \in Nat, NEW c \in Nat, NEW g \in Nat, NEW d \in Nat, d <= g, RunFrom(q, c, g)
  PROVE  /\ RunFrom(q + d, c + d, g - d)
         /\ d # 0 => c + d = Link(q + d) + 1
<1>1. (q + d) + (g - d) = q + g
  OBVIOUS
<1>2. ASSUME NEW j \in 0 .. (g - d) - 1 PROVE Link((q + d) + 1 + j) = (c + d) + j
  <2>1. PICK i \in 0 .. g - 1 : i = d + j
    OBVIOUS
  <2>2. Link(q + 1 + i) = c + i /\ q + 1 + i = (q + d) + 1 + j /\ c + i = (c + d) + j
    BY <2>1 DEF RunFrom
  <2> QED
    BY <2>2
<1>3. ASSUME d # 0 PROVE c + d = Link(q + d) + 1
  <2>1. PICK i \in 0 .. g - 1 : i = d - 1
    BY <1>3
  <2>2. Link(q + 1 + i) = c + i /\ q + 1 + i = q + d /\ c + i = c + d - 1
    BY <2>1 DEF RunFrom
  <2> QED
    BY <2>2
<1> QED
  BY <1>1, <1>2, <1>3 DEF RunFrom
LEMMA TrustLoads ==
  ASSUME FatIInv, FatShape', LoadBuffer
  PROVE  Trusting'
<1>1. FatTypeOK /\ Trusting /\ FatShape
  BY DEF FatIInv, FatShape
<1>2. /\ disk \in Volumes /\ file.cur \in Nat /\ file.contig \in Nat /\ got \in Nat
      /\ file.contig # 0 /\ step = "load"
  BY <1>1, FatTypes DEF FatShape, LoadBuffer
<1>3. /\ step' = "serve" /\ file'.first = file.first /\ file'.cur = file.cur + ClustersDone
      /\ file'.contig = file.contig - ClustersDone /\ file'.addr = 0
      /\ file'.bytes = SectorsToRead * BytesPerSect /\ left' = LeftAfter /\ bufAt' = CurrentLBA
      /\ got' = got /\ right' = right /\ UNCHANGED setup /\ trust' = trust
      /\ cacheData' = cacheData /\ cacheSector' = cacheSector
  BY <1>1 DEF LoadBuffer, FatTypeOK, client, cache
<1> SUFFICES ASSUME trust PROVE Trusting'
  BY <1>3 DEF Trusting
<1>4. file.first = First /\ cacheData = cacheSector
  BY <1>1 DEF Trusting
<1>5. /\ disk' = disk /\ bufLen' = bufLen /\ First' = First /\ Length' = Length
      /\ Capacity' = Capacity /\ (\A i : Link(i)' = Link(i)) /\ (\A k : FileByte(k)' = FileByte(k))
      /\ Consumed = got /\ (Guarded' => Guarded) /\ (ReadBySector' <=> ReadBySector)
  BY <1>2, <1>3 DEF setup, First, Length, Link, Consumed, Served, Capacity, Guarded,
                    FileByte, Cluster2LBA, ReadBySector
<1>6. PICK b \in Nat \ {0}, n \in Nat \ {0}, w \in Nat \ {0} :
        b = BytesPerSect /\ n = SectsPerClust /\ w = ClusterBytes /\ w = n * b
  BY SizesAre DEF ClusterBytes
<1>7. PICK c \in Nat : c = file.cur
  BY <1>2
<1>8. PICK g \in Nat \ {0} : g = file.contig
  BY <1>2
<1>9. Capacity \in Nat
  <2>1. \A x \in Nat : x * w \in Nat
    OBVIOUS
  <2> QED
    BY <1>2, <1>6, <2>1, ChainIs DEF Capacity, Length
<1>10. ASSUME NoRunEndsBelowFirst, InFile
       PROVE  \E q \in 0 .. Length + 1 : q \in Nat /\ InRun(q)
  <2>1. PICK q \in 0 .. Length + 1 : StandsAt(q)
    BY <1>1, <1>10 DEF Trusting, Standing
  <2>2. q \in Nat
    BY <1>2, ChainIs
  <2> QED
    BY <1>2, <2>1, <2>2 DEF StandsAt
<1>11. ASSUME NEW q \in Nat, InRun(q)
       PROVE  \E s, m, d, t, k \in Nat :
                Loads(s, m, d, t, k) /\ got = q * w + s * b /\ RunFrom(q, c, g)
  <2>1. left # 0 /\ (~ReadBySector => left = SectsPerClust)
    BY <1>11 DEF InRun
  <2>2. PICK s, m, d, t, k \in Nat : Loads(s, m, d, t, k)
    BY <1>1, <1>2, <2>1, LoadsIs
  <2>3. n - left = s
    <3>1. s + left = n /\ left \in Nat
      BY <1>1, <1>6, <2>2, FatTypes DEF Loads
    <3> QED
      BY <3>1
  <2>4. got = q * w + s * b /\ RunFrom(q, c, g)
    BY <1>5, <1>6, <1>7, <1>8, <1>11, <2>3 DEF InRun
  <2> QED
    BY <2>2, <2>4
<1>12. NoRunEndsBelowFirst => Standing'
  <2> SUFFICES ASSUME NoRunEndsBelowFirst, InFile' PROVE \E q \in 0 .. Length + 1 : StandsAt(q)'
    BY <1>5 DEF Standing
  <2>1. InFile
    <3>1. Consumed' = got + file'.bytes
      BY <1>3 DEF Consumed, Served
    <3>2. file'.bytes \in Nat
      <4>1. SectorsToRead \in Nat
        BY <1>1, LoadFits
      <4> QED
        BY <1>3, <1>6, <4>1
    <3>3. got + file'.bytes < Capacity => got < Capacity
      BY <1>2, <1>9, <3>2
    <3> QED
      BY <1>5, <3>1, <3>3 DEF InFile
  <2>2. PICK q \in Nat : q <= Length + 1 /\ InRun(q)
    BY <1>10, <2>1
  <2>3. PICK s, m, d, t, k \in Nat :
          Loads(s, m, d, t, k) /\ got = q * w + s * b /\ RunFrom(q, c, g)
    BY <1>11, <2>2
  <2>4. /\ m = SectorsToRead /\ d = ClustersDone /\ t + LeftAfter = n
        /\ s + m = d * n + t /\ d <= g /\ LeftAfter \in Nat \ {0}
        /\ (~ReadBySector => LeftAfter = n) /\ (d = g => t = 0)
    BY <1>6, <1>8, <2>3 DEF Loads
  <2>5. Consumed' = (q + d) * w + t * b
    <3>1. Consumed' = got + m * b
      BY <1>3, <1>6, <2>4 DEF Consumed, Served
    <3>2. q * w + s * b + m * b = q * w + (s + m) * b
      OBVIOUS
    <3>3. (d * n + t) * b = d * w + t * b
      BY <1>6
    <3>4. q * w + (d * w + t * b) = (q + d) * w + t * b
      OBVIOUS
    <3> QED
      BY <2>3, <2>4, <3>1, <3>2, <3>3, <3>4
  <2>6. /\ RunFrom(q + d, c + d, g - d)
        /\ d # 0 => c + d = Link(q + d) + 1
    BY <2>3, <2>4, RunLater
  <2>7. (q + d) + (g - d) <= Length + 1 /\ q + d \in 0 .. Length + 1
    <3>1. q + g <= Length + 1 /\ Length \in Nat
      BY <1>2, <2>3, ChainIs DEF RunFrom
    <3> QED
      BY <2>4, <3>1
  <2>8. file'.cur = c + d /\ file'.contig = g - d /\ step' # "group"
    BY <1>3, <1>7, <1>8, <2>4
  <2>9. CASE d = g
    <3>1. g - d = 0 /\ t = 0 /\ d # 0 /\ q + d # 0 /\ t * b = 0
      BY <2>4, <2>9
    <3>2. Consumed' = (q + d) * ClusterBytes
      <4>1. (q + d) * w \in Nat
        OBVIOUS
      <4> QED
        BY <1>6, <2>5, <3>1, <4>1
    <3>3. AfterRun(q + d)'
      BY <1>5, <2>6, <2>8, <3>1, <3>2 DEF AfterRun
    <3>4. StandsAt(q + d)'
      BY <2>8, <3>1, <3>3 DEF StandsAt
    <3> QED
      BY <2>7, <3>4
  <2>10. CASE d # g
    <3>1. g - d # 0 /\ n - LeftAfter = t
      BY <2>4, <2>10
    <3>2. Consumed' = (q + d) * ClusterBytes + (SectsPerClust - left') * BytesPerSect
      BY <1>3, <1>6, <2>5, <3>1
    <3>3. PICK e \in Nat, f \in Nat, h \in Nat : e = q + d /\ f = c + d /\ h = g - d
      BY <2>4
    <3>4. e + h <= Length' + 1 /\ \A j \in 0 .. h - 1 : Link(e + 1 + j)' = f + j
      BY <1>5, <2>6, <3>3 DEF RunFrom
    <3>5. left' # 0 /\ (~ReadBySector' => left' = SectsPerClust)
      BY <1>3, <1>5, <1>6, <2>4
    <3>6. InRun(e)'
      BY <2>8, <3>2, <3>3, <3>4, <3>5 DEF InRun, RunFrom
    <3>7. StandsAt(e)'
      BY <2>8, <3>1, <3>3, <3>6 DEF StandsAt
    <3> QED
      BY <2>7, <3>3, <3>7
  <2> QED
    BY <2>9, <2>10
<1>13. NoRunEndsBelowFirst => Buffered'
  <2> SUFFICES ASSUME NoRunEndsBelowFirst, NEW x \in Nat,
                      x < SectorsToRead * BytesPerSect, got + x < Capacity
               PROVE  /\ CurrentLBA # Junk
                      /\ CurrentLBA * BytesPerSect + x = FileByte(got + x)
    <3>1. SectorsToRead * BytesPerSect \in Nat
      <4>1. SectorsToRead \in Nat
        BY <1>1, LoadFits
      <4> QED
        BY <1>6, <4>1
    <3>2. PICK v \in Nat : v = SectorsToRead * BytesPerSect
      BY <3>1
    <3>3. 0 + v = v /\ got - 0 = got
      BY <1>2
    <3> QED
      BY <1>3, <1>5, <3>2, <3>3 DEF Buffered
  <2>1. InFile
    <3>1. got < Capacity
      BY <1>2, <1>9
    <3> QED
      BY <1>5, <3>1 DEF InFile
  <2>2. PICK q \in Nat : InRun(q)
    BY <1>10, <2>1
  <2>3. PICK s, m, d, t, k \in Nat :
          Loads(s, m, d, t, k) /\ got = q * w + s * b /\ RunFrom(q, c, g)
    BY <1>11, <2>2
  <2>4. PICK y \in Nat : y = s * b + x
    OBVIOUS
  <2>5. m = SectorsToRead /\ s + m <= k * n /\ k <= g /\ CurrentLBA = Cluster2LBA(c) + s
    BY <1>6, <1>7, <1>8, <2>3 DEF Loads
  <2>6. y < k * w
    <3>1. x < m * b
      BY <1>6, <2>5
    <3>2. y < (s + m) * b
      BY <2>4, <3>1
    <3>3. (s + m) * b <= (k * n) * b
      BY <2>5
    <3>4. (k * n) * b = k * w
      BY <1>6
    <3>5. (s + m) * b \in Nat /\ k * w \in Nat
      OBVIOUS
    <3> QED
      BY <3>2, <3>3, <3>4, <3>5
  <2>7. RunFrom(q, c, k)
    BY <1>2, <2>3, <2>5, RunShorter
  <2>8. q * w + y = got + x
    BY <2>3, <2>4
  <2>9. Cluster2LBA(c) * b + y = FileByte(got + x)
    <3>1. y < k * ClusterBytes /\ q * ClusterBytes + y < Capacity
      BY <1>6, <2>6, <2>8
    <3>2. Cluster2LBA(c) * BytesPerSect + y = FileByte(q * ClusterBytes + y)
      BY <1>2, <2>7, <3>1, RunBytes
    <3> QED
      BY <1>6, <2>8, <3>2
  <2>10. PICK z \in Int : z = Cluster2LBA(c)
    BY <1>6 DEF Cluster2LBA
  <2>11. (z + s) * b + x = z * b + y
    BY <2>4
  <2>12. CurrentLBA \in Int /\ CurrentLBA # Junk
    BY <2>5, <2>10, FatAssumption
  <2> QED
    BY <1>6, <2>5, <2>9, <2>10, <2>11, <2>12
<1>14. NoRunEndsBelowFirst' => NoRunEndsBelowFirst
  BY <1>5 DEF NoRunEndsBelowFirst
<1>15. NoRunEndsBelowFirst => right
  BY <1>1 DEF Trusting
<1>16. file'.addr \in Nat /\ file'.addr <= got'
  BY <1>2, <1>3
<1> QED
  BY <1>3, <1>4, <1>5, <1>12, <1>13, <1>14, <1>15, <1>16 DEF Trusting
LEMMA FatIInvNext == FatIInv /\ [FatNext]_fatVars => FatIInv'
<1> SUFFICES ASSUME FatIInv, [FatNext]_fatVars PROVE FatIInv'
  OBVIOUS
<1>1. FatShape /\ Trusting
  BY DEF FatIInv
<1>2. CASE \/ FSInit \/ FSOpenFile \/ FSOpenFileFails \/ FSCloseFile \/ FSReadFileNothing
           \/ (\E offset \in Rewinds : FSRewind(offset))
           \/ (\E n \in Lengths : FSReadFile(n))
  <2>1. FatShape'
    BY <1>1, <1>2, ShapeCalls
  <2> QED
    BY <1>2, <2>1, TrustCalls DEF FatIInv
<1>3. CASE ReadStep
  <2>1. FatShape'
    BY <1>1, <1>3, ShapeReads
  <2>2. CASE ReachedEOF \/ RunIsMarked \/ LoadFails
    BY <2>1, <2>2 DEF ReachedEOF, RunIsMarked, LoadFails, Refused, FatIInv, Trusting
  <2> QED
    BY <1>3, <2>1, <2>2, TrustServes, TrustSeeks, TrustGroups, TrustLoads DEF ReadStep, FatIInv
<1>4. CASE UNCHANGED fatVars
  <2>1. /\ UNCHANGED <<step, disk, bufLen, file, left, bufAt, cacheSector, cacheData, need>>
        /\ UNCHANGED <<walk, result, faults, isOpen, got, right, trust>>
    BY <1>4 DEF fatVars
  <2>2. FatShape'
    BY <1>1, <2>1 DEF FatShape, FatTypeOK
  <2>3. \A q : StandsAt(q) => StandsAt(q)'
    BY <2>1 DEF StandsAt, Grouping, InRun, AfterRun, RunFrom, Link, Length, Consumed, Served,
                ReadBySector
  <2>4. Standing => Standing'
    BY <2>1, <2>3 DEF Standing, InFile, Guarded, Consumed, Served, Capacity, Length, First
  <2>5. Buffered => Buffered'
    BY <2>1 DEF Buffered, Capacity, FileByte, Cluster2LBA
  <2>6. Trusting'
    BY <1>1, <2>1, <2>4, <2>5 DEF Trusting, Served, First, NoRunEndsBelowFirst
  <2> QED
    BY <2>2, <2>6 DEF FatIInv
<1> QED
  BY <1>2, <1>3, <1>4 DEF FatNext

(* Who reads on past the end of the file is stopped by its mark.           *)
LEMMA FatIInvGives ==
  ASSUME FatIInv
  PROVE  (trust /\ NoRunEndsBelowFirst => right) /\ StaysInBuffer
<1>1. FatTypeOK /\ FatShape /\ Trusting
  BY DEF FatIInv, FatShape
<1>2. trust /\ NoRunEndsBelowFirst => right
  BY <1>1 DEF Trusting
<1>3. SectorsToRead <= bufLen
  BY <1>1, LoadFits
<1>4. OverreadBounded
  <2> SUFFICES ASSUME trust, disk.end = EofMark,
                      \A i \in 1 .. Len(disk.chain) : disk.chain[i] # First - 1
               PROVE  got <= Capacity + ClusterBytes
    BY DEF OverreadBounded
  <2>1. /\ disk \in Volumes /\ got \in Nat /\ file.bytes \in Nat /\ file.contig \in Nat
        /\ left \in Nat /\ left <= SectsPerClust
    BY <1>1, FatTypes, SizesAre
  <2>2. PICK l \in Nat : l = Length
    BY <2>1, ChainIs
  <2>3. Guarded /\ InFile
    BY DEF Guarded, InFile, Length
  <2>4. NoRunEndsBelowFirst
    <3>1. \A i \in 1 .. Len(disk.chain) - 1 : i \in 1 .. Len(disk.chain)
      BY <2>2 DEF Length
    <3> QED
      BY <3>1 DEF NoRunEndsBelowFirst
  <2>5. PICK q \in 0 .. l + 1 : StandsAt(q)
    BY <1>1, <2>2, <2>3, <2>4 DEF Trusting, Standing
  <2>6. PICK b \in Nat \ {0}, n \in Nat \ {0}, w \in Nat \ {0} :
          b = BytesPerSect /\ n = SectsPerClust /\ w = ClusterBytes /\ w = n * b
    BY SizesAre DEF ClusterBytes
  <2>7. Consumed <= (l + 1) * w
    <3>1. CASE Consumed = q * w
      <4>1. q * w <= (l + 1) * w
        OBVIOUS
      <4> QED
        BY <3>1, <4>1
    <3>2. CASE InRun(q) /\ file.contig # 0
      <4>1. q + file.contig <= l + 1
        BY <2>2, <3>2 DEF InRun, RunFrom
      <4>2. q <= l
        BY <2>1, <3>2, <4>1
      <4>3. PICK s \in Nat : s = n - left /\ s <= n
        BY <2>1, <2>6
      <4>4. Consumed = q * w + s * b
        BY <2>6, <3>2, <4>3 DEF InRun
      <4>5. s * b <= n * b
        BY <4>3
      <4>6. q * w <= l * w /\ (l + 1) * w = l * w + w
        BY <4>2
      <4>7. q * w \in Nat /\ s * b \in Nat /\ l * w \in Nat
        BY <4>3
      <4> QED
        BY <2>6, <4>4, <4>5, <4>6, <4>7
    <3> QED
      BY <2>5, <2>6, <3>1, <3>2 DEF StandsAt, Grouping, AfterRun
  <2>8. got <= Consumed
    BY <2>1 DEF Consumed
  <2>9. Consumed \in Nat
    BY <2>1 DEF Consumed
  <2>10. Capacity + ClusterBytes = (l + 1) * w
    <3>1. Capacity = l * w
      BY <2>2, <2>6 DEF Capacity, Length
    <3>2. l * w + w = (l + 1) * w
      OBVIOUS
    <3> QED
      BY <2>6, <3>1, <3>2
  <2>11. (l + 1) * w \in Nat
    OBVIOUS
  <2> QED
    BY <2>1, <2>7, <2>8, <2>9, <2>10, <2>11
<1> QED
  BY <1>1, <1>2, <1>3, <1>4 DEF StaysInBuffer

(* A call that ends inside the file with no read that failed has succeeded. *)
Succeeds ==
  step # "idle" /\ step' = "idle" /\ trust /\ faults' = faults
  /\ NoRunEndsBelowFirst /\ disk.end = EofMark
  /\ got + need <= Capacity
  => step = "off" \/ result'

LEMMA FatIInvSucceeds ==
  ASSUME FatIInv, FatNext PROVE Succeeds
<1>1. FatTypeOK /\ FatShape /\ Trusting
  BY DEF FatIInv, FatShape
<1> SUFFICES ASSUME step # "idle", step' = "idle", trust, faults' = faults,
                    NoRunEndsBelowFirst, disk.end = EofMark, got + need <= Capacity, step # "off"
             PROVE  result'
  BY DEF Succeeds
<1>2. /\ disk \in Volumes /\ got \in Nat /\ need \in Nat /\ file.cur \in Nat /\ file.contig \in Nat
      /\ faults \in 0 .. MaxFaults /\ walk \in Nat
  BY <1>1, FatTypes
<1>3. file.first = First /\ cacheData = cacheSector /\ Standing
  BY <1>1 DEF Trusting
<1>4. PICK w \in Nat \ {0} : w = ClusterBytes
  BY SizesAre
<1>5. PICK l \in Nat : l = Length
  BY <1>2, ChainIs
<1>6. Capacity = l * w
  BY <1>4, <1>5 DEF Capacity, Length
<1>7. ASSUME step \in {"refill", "group"}
      PROVE  \E q \in Nat : InFile /\ q <= l + 1 /\ StandsAt(q) /\ Consumed < Capacity
  <2>1. need # 0 /\ Consumed = got
    BY <1>1, <1>7 DEF FatShape, Consumed, Served
  <2>2. got < Capacity
    <3>1. l * w \in Nat
      OBVIOUS
    <3> QED
      BY <1>2, <1>6, <2>1, <3>1
  <2>3. InFile
    BY <2>1, <2>2 DEF InFile
  <2>4. PICK q \in 0 .. l + 1 : StandsAt(q)
    BY <1>3, <1>5, <2>3 DEF Standing
  <2> QED
    BY <2>1, <2>2, <2>3, <2>4
<1>8. ASSUME ReachedEOF PROVE FALSE
  <2>1. step = "refill" /\ file.contig = 0 /\ file.cur # First /\ LastOfRun(file.cur) = EofMark
    BY <1>3, <1>8 DEF ReachedEOF, IsEOFCluster
  <2>2. PICK q \in Nat : InFile /\ q <= l + 1 /\ StandsAt(q) /\ Consumed < Capacity
    BY <1>7, <2>1
  <2>3. AfterRun(q)
    BY <2>1, <2>2 DEF StandsAt
  <2>4. q # 0 /\ LastOfRun(file.cur) = Link(q)
    BY <1>1, <1>3, <1>5, <2>1, <2>2, <2>3, StartsRight
  <2>5. q < l
    <3>1. q * w < l * w
      BY <1>4, <1>6, <2>2, <2>3 DEF AfterRun
    <3> QED
      BY <3>1
  <2>6. Link(q) # EofMark
    BY <1>2, <1>5, <2>4, <2>5, LinkType
  <2> QED
    BY <2>1, <2>4, <2>6
<1>9. ASSUME RunIsMarked PROVE FALSE
  <2>1. PICK r \in GetNextCluster(walk) : Stops(r.value) /\ Took(r)
    BY <1>9 DEF RunIsMarked
  <2>2. r.faults = faults /\ step = "group"
    BY <1>9, <2>1 DEF Took, RunIsMarked
  <2>3. r.value = IF IsDataCluster(walk) THEN FatEntry(walk)
                  ELSE IF IsEOFCluster(walk) THEN walk ELSE 0
    BY <1>2, <1>3, <2>1, <2>2, LookIs
  <2>4. PICK q \in Nat : InFile /\ q <= l + 1 /\ StandsAt(q) /\ Consumed < Capacity
    BY <1>7, <2>2
  <2>5. Grouping(q)
    BY <2>2, <2>4 DEF StandsAt
  <2>6. PICK i \in Nat \ {0} : i = q + 1 + file.contig /\ walk = Link(i) /\ i <= l + 1
    <3>1. file.contig \in 0 .. (file.contig + 1) - 1
      BY <1>2
    <3>2. Link(q + 1 + file.contig) = file.cur + file.contig /\ q + (file.contig + 1) <= l + 1
      BY <1>5, <2>5, <3>1 DEF Grouping, RunFrom
    <3>3. q + 1 + file.contig \in Nat \ {0} /\ q + 1 + file.contig <= l + 1
      BY <1>2, <3>2
    <3> QED
      BY <2>5, <3>2, <3>3 DEF Grouping
  <2>7. CASE i <= l
    <3>1. 1 <= i
      OBVIOUS
    <3>2. r.value = Link(i + 1)
      BY <1>2, <1>5, <2>3, <2>6, <2>7, <3>1, LinkIs
    <3>3. ~Stops(r.value)
      <4>1. i + 1 \in Nat \ {0}
        OBVIOUS
      <4>2. Link(i + 1) = EofMark \/ IsDataCluster(Link(i + 1))
        BY <1>2, <4>1, LinkType
      <4> QED
        BY <3>2, <4>2, MarksAre DEF Stops, IsBadCluster, IsRsvdCluster, IsDataCluster
    <3> QED
      BY <2>1, <3>3
  <2>8. CASE ~(i <= l)
    <3>1. walk = EofMark
      BY <1>2, <1>5, <2>6, <2>8, LinkType
    <3>2. r.value = EofMark
      BY <2>3, <3>1, MarksAre DEF IsDataCluster, IsEOFCluster
    <3> QED
      BY <2>1, <3>2, MarksAre DEF Stops, IsBadCluster, IsRsvdCluster
  <2> QED
    BY <2>7, <2>8
<1>10. ~LoadFails
  BY <1>2 DEF LoadFails
<1>11. ServeFromBuffer => result'
  BY DEF ServeFromBuffer
<1> QED
  BY <1>8, <1>9, <1>10, <1>11 DEF FatNext, ReadStep, FSInit, FSOpenFile, FSOpenFileFails,
     FSCloseFile, FSRewind, FSReadFile, FSReadFileNothing, Goes, DrainBuffer, MoreOfRun,
     FirstRun, FollowLink, RunGoesOn, RunEnds, LoadBuffer

(* However the calls divide the file, whatever runs its clusters form and  *)
(* whichever reads fail: what successful calls deliver is the file's       *)
(* bytes, in order; no refill leaves the buffer; who reads past the end is *)
(* stopped; and inside the file a call fails only if a read did.           *)
THEOREM DeliversFileHolds == FatSpec => DeliversFile
<1>1. FatIInv => (trust /\ NoRunEndsBelowFirst => right) /\ StaysInBuffer
  BY FatIInvGives
<1>2. FatIInv /\ [FatNext]_fatVars =>
        [step # "idle" /\ step' = "idle" /\ trust /\ faults' = faults
         /\ NoRunEndsBelowFirst /\ disk.end = EofMark
         /\ got + need <= Capacity
         => step = "off" \/ result']_fatVars
  BY FatIInvSucceeds DEF Succeeds
<1> QED
  BY <1>1, <1>2, ShapeInit, FatIInvNext, PTL DEF FatSpec, DeliversFile
-----------------------------------------------------------------------------
(* Induction over the numbers, from the least element of a set of them.    *)
LEMMA LeastElement ==
  ASSUME NEW T \in SUBSET Nat, T # {}
  PROVE  \E n \in T : \A m \in T : n <= m
<1> DEFINE R == {p \in Nat \X Nat : p[1] < p[2]}
<1>1. IsWellFoundedOn(R, Nat)
  BY NatLessThanWellFounded DEF OpToRel
<1>2. \E x \in T : \A y \in T : ~(<<y, x>> \in R)
  <2> HIDE DEF R
  <2> QED
    BY <1>1, WFMin
<1>3. \A x, y \in Nat : y < x => <<y, x>> \in R
  OBVIOUS
<1>4. PICK x \in T : \A y \in T : ~(<<y, x>> \in R)
  BY <1>2
<1>5. \A y \in T : ~(y < x)
  BY <1>3, <1>4
<1> QED
  BY <1>5

LEMMA Induction ==
  ASSUME NEW S \in SUBSET Nat, 0 \in S, \A n \in S : n + 1 \in S
  PROVE  S = Nat
<1> SUFFICES ASSUME S # Nat PROVE FALSE
  OBVIOUS
<1>1. PICK n \in Nat \ S : \A m \in Nat \ S : n <= m
  BY LeastElement
<1>2. n # 0 /\ n - 1 \in Nat /\ n - 1 \in S
  BY <1>1
<1> QED
  BY <1>1, <1>2

-----------------------------------------------------------------------------
(* The choice of a video mode (NLoaderScreen)                              *)

VideoSize == [width : Nat, height : Nat, colors : Nat]
VideoMode == [width : Nat \ {0}, height : Nat \ {0}, colors : Nat \ {0},
              known : BOOLEAN, linear : BOOLEAN, rgb565 : BOOLEAN]

LEMMA ModesAre ==
  ASSUME modes \in ModeLists
  PROVE  /\ Len(modes) \in Nat /\ DOMAIN modes = 1 .. Len(modes)
         /\ \A i \in 1 .. Len(modes) : modes[i] \in VideoMode
<1>1. modes \in Seq(VideoMode)
  BY ScreenAssumption DEF VideoMode
<1> QED
  BY <1>1, ElementOfSeq, LenProperties

LEMMA SizeOfMode ==
  ASSUME NEW m \in VideoMode
  PROVE  /\ SizeOf(m) \in VideoSize /\ SizeOf(m).width = m.width
         /\ m.width \in Nat \ {0}
BY DEF SizeOf, Size, VideoMode, VideoSize

LEMMA NoneIs == None \in VideoSize /\ None.width = 0
BY DEF None, Size, VideoSize

(* The best of two is one of them, and the wider one.                      *)
LEMMA BetterIs ==
  ASSUME NEW b \in VideoSize, NEW m \in VideoMode
  PROVE  \/ Better(b, m) = SizeOf(m) /\ b.width <= m.width
         \/ Better(b, m) = b /\ m.width <= b.width
<1>1. b.width \in Nat /\ m.width \in Nat
  BY DEF VideoSize, VideoMode
<1>2. CASE b.width < m.width
  BY <1>1, <1>2 DEF Better
<1>3. CASE b.width = m.width
  BY <1>1, <1>3 DEF Better
<1>4. CASE m.width < b.width
  <2>1. ~(b.width < m.width) /\ b.width # m.width
    BY <1>1, <1>4
  <2>2. Better(b, m) = b
    BY <2>1 DEF Better
  <2> QED
    BY <1>1, <1>4, <2>2
<1> QED
  BY <1>1, <1>2, <1>3, <1>4

(* The best of the first n modes.                                          *)
BestOf(n, best) ==
  \/ best = None /\ \A j \in 1 .. n : ~Usable(modes[j])
  \/ \E k \in 1 .. n :
       /\ Usable(modes[k]) /\ best = SizeOf(modes[k])
       /\ \A j \in 1 .. n : Usable(modes[j]) => modes[j].width <= modes[k].width

NextBest(b, m) == IF Usable(m) THEN Better(b, m) ELSE b

LEMMA BestGrows ==
  ASSUME modes \in ModeLists, NEW n \in Nat, n + 1 <= Len(modes),
         NEW b, BestOf(n, b)
  PROVE  BestOf(n + 1, NextBest(b, modes[n + 1]))
<1>1. PICK m \in VideoMode : m = modes[n + 1]
  BY ModesAre
<1>2. PICK c : c = NextBest(b, m)
  OBVIOUS
<1>3. \A j \in 1 .. n + 1 : j \in 1 .. n \/ j = n + 1
  OBVIOUS
<1>4. \A j \in 1 .. n : j \in 1 .. n + 1 /\ modes[j] \in VideoMode
  BY ModesAre
<1>5. n + 1 \in 1 .. n + 1
  OBVIOUS
<1>6. BestOf(n + 1, c)
  <2>1. CASE ~Usable(m)
    <3>1. c = b
      BY <1>2, <2>1 DEF NextBest
    <3> QED
      BY <1>1, <1>3, <1>4, <2>1, <3>1 DEF BestOf
  <2>2. CASE Usable(m)
    <3>1. c = Better(b, m)
      BY <1>2, <2>2 DEF NextBest
    <3>2. CASE b = None /\ \A j \in 1 .. n : ~Usable(modes[j])
      <4>1. c = SizeOf(m)
        <5>1. b \in VideoSize /\ b.width = 0 /\ m.width \in Nat \ {0}
          BY <3>2, NoneIs, SizeOfMode
        <5>2. b.width < m.width
          BY <5>1
        <5> QED
          BY <3>1, <5>2 DEF Better
      <4>2. m.width <= m.width
        BY SizeOfMode
      <4>3. \A j \in 1 .. n + 1 : Usable(modes[j]) => modes[j].width <= m.width
        BY <1>1, <1>3, <3>2, <4>2
      <4> QED
        BY <1>1, <1>5, <2>2, <4>1, <4>3 DEF BestOf
    <3>3. ASSUME NEW k \in 1 .. n, Usable(modes[k]), b = SizeOf(modes[k]),
                 \A j \in 1 .. n : Usable(modes[j]) => modes[j].width <= modes[k].width
          PROVE  BestOf(n + 1, c)
      <4>1. PICK l \in VideoMode : l = modes[k]
        BY <1>4, <3>3
      <4>2. /\ b \in VideoSize /\ b.width = l.width
            /\ l.width \in Nat /\ m.width \in Nat
        BY <3>3, <4>1, SizeOfMode
      <4>3. CASE c = SizeOf(m) /\ b.width <= m.width
        <5>1. \A j \in 1 .. n : Usable(modes[j]) => modes[j].width <= m.width
          <6> SUFFICES ASSUME NEW j \in 1 .. n, Usable(modes[j])
                       PROVE  modes[j].width <= m.width
            OBVIOUS
          <6>1. modes[j].width \in Nat
            BY <1>4, SizeOfMode
          <6>2. modes[j].width <= l.width
            BY <3>3, <4>1
          <6> QED
            BY <4>2, <4>3, <6>1, <6>2
        <5>2. m.width <= m.width
          BY <4>2
        <5>3. \A j \in 1 .. n + 1 : Usable(modes[j]) => modes[j].width <= m.width
          BY <1>1, <1>3, <5>1, <5>2
        <5> QED
          BY <1>1, <1>5, <2>2, <4>3, <5>3 DEF BestOf
      <4>4. CASE c = b /\ m.width <= b.width
        <5>1. \A j \in 1 .. n + 1 : Usable(modes[j]) => modes[j].width <= modes[k].width
          BY <1>1, <1>3, <3>3, <4>1, <4>2, <4>4
        <5>2. k \in 1 .. n + 1 /\ c = SizeOf(modes[k])
          BY <1>4, <3>3, <4>4
        <5> QED
          BY <3>3, <5>1, <5>2 DEF BestOf
      <4> QED
        BY <3>1, <4>2, <4>3, <4>4, BetterIs
    <3> QED
      BY <3>2, <3>3 DEF BestOf
  <2> QED
    BY <2>1, <2>2
<1> QED
  BY <1>1, <1>2, <1>6

(* That there is a best of the first modes, as its definition says.        *)
Ranks(n, f) ==
  f[0] = None /\ \A i \in 1 .. n : f[i] = NextBest(f[i - 1], modes[i])
IsBestTo(f) ==
  f = [i \in 0 .. Len(modes) |->
         IF i = 0 THEN None
         ELSE IF Usable(modes[i]) THEN Better(f[i - 1], modes[i]) ELSE f[i - 1]]

LEMMA BestExists ==
  ASSUME modes \in ModeLists PROVE \E f : IsBestTo(f)
<1>1. PICK N \in Nat : N = Len(modes)
  BY ModesAre
<1> DEFINE S == {n \in Nat : \E f : f = [i \in 0 .. n |-> f[i]] /\ Ranks(n, f)}
<1>2. 0 \in S
  <2>1. PICK f : f = [i \in 0 .. 0 |-> None]
    OBVIOUS
  <2>2. f[0] = None /\ f = [i \in 0 .. 0 |-> f[i]]
    BY <2>1
  <2>3. Ranks(0, f)
    BY <2>2 DEF Ranks
  <2> QED
    BY <2>2, <2>3
<1>3. ASSUME NEW n \in S PROVE n + 1 \in S
  <2>1. n \in Nat /\ n + 1 \in Nat
    OBVIOUS
  <2>2. PICK f : Ranks(n, f)
    OBVIOUS
  <2>3. PICK v : v = NextBest(f[n], modes[n + 1])
    OBVIOUS
  <2>4. PICK g : g = [i \in 0 .. n + 1 |-> IF i = n + 1 THEN v ELSE f[i]]
    OBVIOUS
  <2>5. g[n + 1] = v /\ \A i \in 0 .. n : g[i] = f[i]
    BY <2>1, <2>4
  <2>6. Ranks(n + 1, g)
    <3>1. g[0] = None
      BY <2>1, <2>2, <2>5 DEF Ranks
    <3>2. ASSUME NEW i \in 1 .. n + 1 PROVE g[i] = NextBest(g[i - 1], modes[i])
      <4>1. CASE i = n + 1
        <5>1. i - 1 = n /\ n \in 0 .. n
          BY <2>1, <4>1
        <5> QED
          BY <2>3, <2>5, <4>1, <5>1
      <4>2. CASE i # n + 1
        <5>1. i \in 1 .. n /\ i - 1 \in 0 .. n /\ i \in 0 .. n
          BY <2>1, <4>2
        <5> QED
          BY <2>2, <2>5, <5>1 DEF Ranks
      <4> QED
        BY <4>1, <4>2
    <3> QED
      BY <3>1, <3>2 DEF Ranks
  <2>7. g = [i \in 0 .. n + 1 |-> g[i]]
    BY <2>4
  <2> QED
    BY <2>1, <2>6, <2>7
<1> HIDE DEF S
<1>4. S \subseteq Nat
  BY DEF S
<1>5. N \in S
  BY <1>2, <1>3, <1>4, Induction
<1>6. PICK f : f = [i \in 0 .. N |-> f[i]] /\ Ranks(N, f)
  BY <1>5 DEF S
<1>7. ASSUME NEW i \in 0 .. N
      PROVE  f[i] = IF i = 0 THEN None
                    ELSE IF Usable(modes[i]) THEN Better(f[i - 1], modes[i]) ELSE f[i - 1]
  <2>1. CASE i = 0
    BY <1>6, <2>1 DEF Ranks
  <2>2. CASE i # 0
    <3>1. i \in 1 .. N
      BY <2>2
    <3>2. f[i] = NextBest(f[i - 1], modes[i])
      BY <1>6, <3>1 DEF Ranks
    <3> QED
      BY <2>2, <3>2 DEF NextBest
  <2> QED
    BY <2>1, <2>2
<1>8. f = [i \in 0 .. N |->
             IF i = 0 THEN None
             ELSE IF Usable(modes[i]) THEN Better(f[i - 1], modes[i]) ELSE f[i - 1]]
  BY <1>6, <1>7, Zenon
<1> QED
  BY <1>1, <1>8 DEF IsBestTo

LEMMA BestToRanks ==
  ASSUME modes \in ModeLists
  PROVE  Ranks(Len(modes), BestTo)
<1>1. BestTo = CHOOSE f : IsBestTo(f)
  BY DEF BestTo, IsBestTo
<1>2. PICK f : IsBestTo(f) /\ f = BestTo
  BY <1>1, BestExists
<1>3. PICK N \in Nat : N = Len(modes)
  BY ModesAre
<1>4. f = [i \in 0 .. N |->
             IF i = 0 THEN None
             ELSE IF Usable(modes[i]) THEN Better(f[i - 1], modes[i]) ELSE f[i - 1]]
  BY <1>2, <1>3 DEF IsBestTo
<1>5. f[0] = None
  <2>1. 0 \in 0 .. N
    OBVIOUS
  <2> QED
    BY <1>4, <2>1, Zenon
<1>6. ASSUME NEW i \in 1 .. N PROVE f[i] = NextBest(f[i - 1], modes[i])
  <2>1. i \in 0 .. N /\ i # 0
    OBVIOUS
  <2>2. f[i] = IF i = 0 THEN None
               ELSE IF Usable(modes[i]) THEN Better(f[i - 1], modes[i]) ELSE f[i - 1]
    BY <1>4, <2>1, Zenon
  <2> QED
    BY <2>1, <2>2 DEF NextBest
<1> QED
  BY <1>2, <1>3, <1>5, <1>6 DEF Ranks

(* The mode that is tried next is one of the list, and none is wider; or   *)
(* the list has none of use.                                               *)
LEMMA BestIs ==
  ASSUME modes \in ModeLists
  PROVE  BestOf(Len(modes), Best)
<1>1. PICK N \in Nat : N = Len(modes)
  BY ModesAre
<1>2. PICK f : f = BestTo
  OBVIOUS
<1>3. Ranks(N, f)
  BY <1>1, <1>2, BestToRanks
<1> DEFINE S == {n \in Nat : n <= N => BestOf(n, f[n])}
<1>4. 0 \in S
  BY <1>3 DEF BestOf, Ranks
<1>5. ASSUME NEW n \in S PROVE n + 1 \in S
  <2>1. n \in Nat /\ n + 1 \in Nat
    OBVIOUS
  <2> SUFFICES ASSUME n + 1 <= N PROVE BestOf(n + 1, f[n + 1])
    BY <2>1
  <2>2. n <= N /\ n + 1 \in 1 .. N /\ n + 1 - 1 = n
    BY <2>1
  <2>3. BestOf(n, f[n])
    BY <2>2
  <2>4. f[n + 1] = NextBest(f[n], modes[n + 1])
    BY <1>3, <2>2 DEF Ranks
  <2>5. BestOf(n + 1, NextBest(f[n], modes[n + 1]))
    BY <1>1, <2>1, <2>3, BestGrows
  <2> QED
    BY <2>4, <2>5
<1> HIDE DEF S
<1>6. S \subseteq Nat
  BY DEF S
<1>7. N \in S
  BY <1>4, <1>5, <1>6, Induction
<1>8. BestOf(N, f[N])
  BY <1>7 DEF S
<1> QED
  BY <1>1, <1>2, <1>8 DEF Best

(* The invariant: before a mode was set nothing is on the screen; then the *)
(* one on the screen is the one found, or none if that was refused.        *)
ScreenShape ==
  /\ phase \in {"ini", "first", "second", "splash", "final", "told"}
  /\ settings \in Settings /\ vesa \in BOOLEAN /\ modes \in ModeLists
  /\ phase = "ini" => wish = None
ScreenPlain ==
  phase \in {"ini", "first", "second"} =>
    current = 0 /\ screen = 0 /\ drawn = -1 /\ refusals = 0
ScreenShown ==
  phase \in {"splash", "final", "told"} =>
    /\ refusals \in Nat
    /\ IF refusals = 0 THEN screen = current ELSE current # 0 /\ screen = 0
    /\ drawn \in {-1, current}
    /\ current # 0 => current \in UsableModes /\ SizeOf(modes[current]) = wish
    /\ current = 0 /\ vesa /\ UsableModes # {} => wish.width = 0 \/ wish.height = 0
ScreenTold == phase = "told" => told = current
ScreenIInv == ScreenShape /\ ScreenPlain /\ ScreenShown /\ ScreenTold /\ Chosen

LEMMA ScreenInitIInv == ScreenInit => ScreenIInv
BY DEF ScreenInit, ScreenIInv, ScreenShape, ScreenPlain, ScreenShown, ScreenTold, Chosen

LEMMA FittedIs ==
  ASSUME NEW d \in Nat, NEW p \in Nat
  PROVE  NotLarger(Fitted(d, p), p)
BY DEF Fitted, NotLarger

(* Where a mode of that size is found.                                     *)
LEMMA EarliestIs ==
  ASSUME modes \in ModeLists, NEW z, Matches(z) # {}
  PROVE  /\ Earliest(Matches(z)) \in UsableModes
         /\ SizeOf(modes[Earliest(Matches(z))]) = z
         /\ Earliest(Matches(z)) # 0
<1>1. PICK T : T = Matches(z)
  OBVIOUS
<1>2. T \subseteq 1 .. Len(modes) /\ Len(modes) \in Nat
  BY <1>1, ModesAre DEF Matches, UsableModes
<1>3. T \in SUBSET Nat
  BY <1>2
<1>4. \E i \in T : \A j \in T : i <= j
  BY <1>1, <1>3, LeastElement
<1>5. Earliest(T) \in T
  BY <1>4 DEF Earliest
<1>6. Earliest(T) # 0
  BY <1>2, <1>5
<1> QED
  BY <1>1, <1>5, <1>6 DEF Matches

LEMMA ShownAfterSetMode ==
  ASSUME ScreenShape, ScreenPlain, UNCHANGED machineVars, NEW z, wish' = z,
         phase \in {"first", "second"}, SetMode(z, "splash"), drawn' = drawn
  PROVE  ScreenShown'
<1>1. PICK c : c = Earliest(Matches(z))
  OBVIOUS
<1>2. c \in UsableModes /\ SizeOf(modes[c]) = z /\ c # 0
  BY <1>1, EarliestIs DEF ScreenShape, SetMode
<1>3. current' = c /\ drawn' = -1
  BY <1>1 DEF SetMode, ScreenPlain
<1>4. refusals' \in Nat /\ (IF refusals' = 0 THEN screen' = c ELSE screen' = 0)
  BY <1>1 DEF SetMode, ScreenPlain
<1>5. UsableModes' = UsableModes /\ modes' = modes
  BY DEF machineVars, UsableModes, Usable
<1> QED
  BY <1>2, <1>3, <1>4, <1>5 DEF ScreenShown

LEMMA FirstModeKeeps ==
  ASSUME ScreenIInv, FirstMode PROVE ScreenIInv'
<1>1. ScreenShape'
  BY DEF FirstMode, SetMode, NoSuchMode, ScreenIInv, ScreenShape, machineVars
<1>2. CASE SetMode(wish, "splash")
  <2>1. ScreenShown'
    BY <1>2, ShownAfterSetMode DEF FirstMode, ScreenIInv
  <2>2. phase' = "splash"
    BY <1>2 DEF SetMode
  <2> QED
    BY <1>1, <2>1, <2>2 DEF ScreenIInv, ScreenPlain, ScreenTold, Chosen
<1>3. CASE NoSuchMode(wish, "second")
  <2>1. phase' = "second" /\ UNCHANGED <<current, screen, refusals, wish, drawn, modes, vesa>>
    BY <1>3 DEF NoSuchMode, FirstMode, machineVars
  <2>2. ScreenPlain' /\ ScreenShown' /\ ScreenTold'
    BY <2>1 DEF ScreenPlain, ScreenShown, ScreenTold, ScreenIInv, FirstMode
  <2>3. Matches(wish)' = Matches(wish)
    BY <2>1 DEF Matches, UsableModes, Usable
  <2>4. Chosen'
    BY <1>3, <2>1, <2>3 DEF Chosen, NoSuchMode
  <2> QED
    BY <1>1, <2>2, <2>4 DEF ScreenIInv
<1> QED
  BY <1>2, <1>3 DEF FirstMode

LEMMA SecondModeKeeps ==
  ASSUME ScreenIInv, SecondMode PROVE ScreenIInv'
<1>1. ScreenShape'
  BY DEF SecondMode, SetMode, NoSuchMode, ScreenIInv, ScreenShape, machineVars
<1>2. PICK z : z = wish'
  OBVIOUS
<1>3. SetMode(z, "splash") \/ NoSuchMode(z, "final")
  BY <1>2 DEF SecondMode, SetMode, NoSuchMode
<1>4. CASE SetMode(z, "splash")
  <2>1. ScreenShown'
    BY <1>2, <1>4, ShownAfterSetMode DEF SecondMode, ScreenIInv
  <2>2. phase' = "splash"
    BY <1>4 DEF SetMode
  <2> QED
    BY <1>1, <2>1, <2>2 DEF ScreenIInv, ScreenPlain, ScreenTold, Chosen
<1>5. CASE NoSuchMode(z, "final")
  <2>1. /\ phase = "second" /\ phase' = "final"
        /\ UNCHANGED <<current, screen, refusals, drawn, modes, vesa>>
    BY <1>5 DEF NoSuchMode, SecondMode, machineVars
  <2>2. current' = 0 /\ screen' = 0 /\ drawn' = -1 /\ refusals' = 0
    BY <2>1 DEF ScreenIInv, ScreenPlain
  <2>3. ASSUME vesa PROVE UsableModes = {}
    <3>1. z = Best /\ Matches(z) = {}
      BY <1>2, <1>5, <2>3 DEF SecondMode, NoSuchMode
    <3>2. DOMAIN modes = 1 .. Len(modes) /\ BestOf(Len(modes), z)
      BY <3>1, ModesAre, BestIs DEF ScreenIInv, ScreenShape
    <3> QED
      BY <3>1, <3>2 DEF BestOf, Matches, UsableModes
  <2>4. UsableModes' = UsableModes
    BY <2>1 DEF UsableModes, Usable
  <2>5. ScreenShown'
    BY <2>1, <2>2, <2>3, <2>4 DEF ScreenShown
  <2> QED
    BY <1>1, <2>1, <2>5 DEF ScreenIInv, ScreenPlain, ScreenTold, Chosen
<1> QED
  BY <1>3, <1>4, <1>5

LEMMA ScreenIInvNext ==
  ASSUME ScreenIInv, [ScreenNext]_screenVars PROVE ScreenIInv'
<1>1. CASE NoIniFile \/ SetUserBootArgs
  <2>1. /\ phase = "ini" /\ phase' = "first"
        /\ UNCHANGED <<settings, vesa, modes, current, screen, drawn, refusals>>
    BY <1>1 DEF NoIniFile, SetUserBootArgs, machineVars
  <2>2. ScreenShape' /\ ScreenPlain' /\ ScreenShown' /\ ScreenTold'
    BY <2>1 DEF ScreenIInv, ScreenShape, ScreenPlain, ScreenShown, ScreenTold
  <2>3. /\ settings.width \in Nat /\ settings.height \in Nat
        /\ settings.physWidth \in Nat /\ settings.physHeight \in Nat
    BY ScreenAssumption DEF ScreenIInv, ScreenShape
  <2>4. ASSUME wish' = None PROVE Chosen'
    BY <2>1, <2>3, <2>4 DEF Chosen, NotLarger, None, Size
  <2>5. ASSUME wish' = Size(Fitted(settings.width, settings.physWidth),
                            Fitted(settings.height, settings.physHeight), settings.depth)
        PROVE  Chosen'
    <3>1. PICK w, h : w = Fitted(settings.width, settings.physWidth)
                      /\ h = Fitted(settings.height, settings.physHeight)
      OBVIOUS
    <3>2. wish'.width = w /\ wish'.height = h
      BY <2>5, <3>1 DEF Size
    <3>3. NotLarger(w, settings.physWidth) /\ NotLarger(h, settings.physHeight)
      BY <2>3, <3>1, FittedIs
    <3> QED
      BY <2>1, <3>2, <3>3 DEF Chosen, NotLarger
  <2>6. wish = None
    BY <2>1 DEF ScreenIInv, ScreenShape
  <2> QED
    BY <1>1, <2>2, <2>4, <2>5, <2>6 DEF ScreenIInv, NoIniFile, SetUserBootArgs
<1>2. CASE NoSizeWanted
  <2>1. UNCHANGED <<settings, vesa, modes>>
    BY <1>2 DEF NoSizeWanted, machineVars
  <2>2. UsableModes' = UsableModes
    BY <2>1 DEF UsableModes, Usable
  <2> QED
    BY <1>2, <2>1, <2>2 DEF NoSizeWanted, ScreenIInv, ScreenShape, ScreenPlain,
                            ScreenShown, ScreenTold, Chosen
<1>3. CASE FirstMode
  BY <1>3, FirstModeKeeps
<1>4. CASE SecondMode
  BY <1>4, SecondModeKeeps
<1>5. CASE DrawSplash \/ FinalBootArgsSet
  <2>1. UNCHANGED <<settings, vesa, modes>>
    BY <1>5 DEF DrawSplash, FinalBootArgsSet, machineVars
  <2>2. UsableModes' = UsableModes
    BY <2>1 DEF UsableModes, Usable
  <2> QED
    BY <1>5, <2>1, <2>2 DEF DrawSplash, FinalBootArgsSet, ScreenIInv, ScreenShape,
                            ScreenPlain, ScreenShown, ScreenTold, Chosen
<1>6. CASE UNCHANGED screenVars
  <2>1. UNCHANGED <<phase, settings, vesa, modes, wish, current, screen, drawn, told, refusals>>
    BY <1>6 DEF screenVars
  <2>2. UsableModes' = UsableModes /\ Matches(wish)' = Matches(wish)
    BY <2>1 DEF UsableModes, Usable, Matches
  <2>3. ScreenShape' /\ ScreenPlain' /\ ScreenTold'
    BY <2>1 DEF ScreenIInv, ScreenShape, ScreenPlain, ScreenTold
  <2>4. ScreenShown'
    BY <2>1, <2>2 DEF ScreenIInv, ScreenShown
  <2>5. Chosen'
    BY <2>1, <2>2 DEF ScreenIInv, Chosen
  <2> QED
    BY <2>3, <2>4, <2>5 DEF ScreenIInv
<1> QED
  BY <1>1, <1>2, <1>3, <1>4, <1>5, <1>6 DEF ScreenNext

LEMMA WidestNext ==
  ASSUME ScreenIInv, [ScreenNext]_screenVars PROVE [Widest]_screenVars
<1> SUFFICES ASSUME ScreenNext, phase = "second", phase' = "splash"
             PROVE  \A i \in UsableModes : modes[i].width <= modes[current'].width
  BY DEF Widest
<1>1. SecondMode
  BY DEF ScreenNext, NoIniFile, SetUserBootArgs, NoSizeWanted, FirstMode, DrawSplash,
         FinalBootArgsSet
<1>2. PICK z : z = wish'
  OBVIOUS
<1>3. SetMode(z, "splash")
  BY <1>1, <1>2 DEF SecondMode, SetMode, NoSuchMode
<1>4. vesa /\ z = Best
  BY <1>1, <1>2, <1>3 DEF SecondMode, SetMode
<1>5. PICK c : c = current'
  OBVIOUS
<1>6. modes \in ModeLists /\ DOMAIN modes = 1 .. Len(modes) /\ BestOf(Len(modes), z)
  BY <1>4, ModesAre, BestIs DEF ScreenIInv, ScreenShape
<1>7. c \in UsableModes /\ SizeOf(modes[c]) = z
  BY <1>3, <1>5, <1>6, EarliestIs DEF SetMode
<1>8. PICK k \in 1 .. Len(modes) :
        /\ Usable(modes[k]) /\ z = SizeOf(modes[k])
        /\ \A j \in 1 .. Len(modes) : Usable(modes[j]) => modes[j].width <= modes[k].width
  BY <1>6, <1>7 DEF BestOf, UsableModes
<1>9. modes[c].width = modes[k].width
  BY <1>7, <1>8 DEF SizeOf, Size
<1> QED
  BY <1>5, <1>6, <1>8, <1>9 DEF UsableModes

(* What the splash screen was drawn for and the image is told is one mode: *)
(* the one asked for, or the widest that the list has of use, and no       *)
(* larger than the panel is asked for.  The screen is in that mode, or in  *)
(* text exactly when the BIOS refused to set it: for every list of modes   *)
(* and all settings.                                                       *)
THEOREM ScreenTrueHolds == ScreenSpec => ScreenTrue
<1>1. ScreenIInv => Described /\ Chosen
  BY DEF ScreenIInv, ScreenShown, ScreenTold, ScreenShape, Described
<1> QED
  BY <1>1, ScreenInitIInv, ScreenIInvNext, WidestNext, PTL DEF ScreenSpec, ScreenTrue

-----------------------------------------------------------------------------
(* The heap.  HeapInv together with TypeOK and NoLeak is inductive; the    *)
(* two lemmas about Absorb carry the merging cases of BootFree.  That free *)
(* neighbours are always merged is proved on top of it.                    *)

LEMMA RoundUpEnough ==
  ASSUME NEW n \in Requests, n < AllocLimit
  PROVE  RoundUp(n) \in Nat /\ RoundUp(n) >= n + HeaderSize
<1> DEFINE s == n + (HeaderSize + 3)
<1>1. n \in Nat /\ HeaderSize \in Nat /\ WrapAdd(n, HeaderSize + 3) = s
  BY HeapAssumption DEF WrapAdd
<1>2. s \in Nat /\ s % 4 \in 0 .. 3
  BY <1>1
<1>. QED BY <1>1, <1>2 DEF RoundUp

(* Three consecutive intact headers, and what Absorb makes of them.        *)
InRow(h, T, a, n, n2) ==
  /\ arena \in Nat /\ Layout(h, T)
  /\ a \in DOMAIN h /\ n \in DOMAIN h /\ n2 \in DOMAIN h
  /\ a # arena /\ n # arena
  /\ n = a + h[a].size /\ n2 = n + h[n].size

Absorbed(h, T, a, n, n2, g) ==
  /\ DOMAIN g = DOMAIN h \ {n}
  /\ g[a] = [h[a] EXCEPT !.size = h[a].size + h[n].size]
  /\ g[n2] = [h[n2] EXCEPT !.prevSize = h[a].size + h[n].size]
  /\ \A x \in DOMAIN h \ {a, n, n2} : g[x] = h[x]
  /\ Layout(g, T \ {n})

LEMMA AbsorbLayout ==
  ASSUME NEW h, NEW T, NEW a, NEW n, NEW n2, InRow(h, T, a, n, n2)
  PROVE  Absorbed(h, T, a, n, n2, Absorb(h, a, n, n2))
<1>. SUFFICES ASSUME arena \in Nat, Layout(h, T),
                     a \in DOMAIN h, n \in DOMAIN h, n2 \in DOMAIN h,
                     a # arena, n # arena,
                     n = a + h[a].size, n2 = n + h[n].size
              PROVE  Absorbed(h, T, a, n, n2, Absorb(h, a, n, n2))
  BY DEF InRow
<1> DEFINE g == Absorb(h, a, n, n2)
<1>. HeaderSize \in Nat \ {0} BY HeapAssumption
<1>1. /\ h \in [DOMAIN h -> Header] /\ DOMAIN h \subseteq T /\ T \subseteq 0 .. arena
      /\ ForwardLinks(h, T) /\ BackLinks(h, T) /\ EndMarker(h)
  BY DEF Layout
<1>2. /\ a \in Nat /\ n \in Nat /\ n2 \in Nat
      /\ h[a] \in Header /\ h[n] \in Header /\ h[n2] \in Header
      /\ h[a].size > 0 /\ h[n].size > 0 /\ a < n /\ n < n2
  BY <1>1 DEF ForwardLinks, Header
<1>3. h[n2].prevSize = h[n].size /\ h[n].prevSize = h[a].size
  BY <1>1 DEF ForwardLinks
<1>4. DOMAIN g = DOMAIN h \ {n}
  BY DEF Absorb, Restrict
<1>5. /\ g[a] = [h[a] EXCEPT !.size = h[a].size + h[n].size]
      /\ g[n2] = [h[n2] EXCEPT !.prevSize = h[a].size + h[n].size]
      /\ \A x \in DOMAIN h \ {a, n, n2} : g[x] = h[x]
  <2>1. h[a].size + h[n].size \in Nat /\ a # n2 /\ a # n /\ n # n2
    BY <1>2 DEF Header
  <2>2. h[n2].prevSize + h[a].size = h[a].size + h[n].size
    BY <1>2, <1>3 DEF Header
  <2>3. \A x \in DOMAIN h \ {a, n, n2} : g[x] = h[x]
    BY DEF Absorb, Restrict
  <2>4. g[a] = [h[a] EXCEPT !.size = h[a].size + h[n].size]
    BY <2>1 DEF Absorb, Restrict
  <2>5. g[n2] = [h[n2] EXCEPT !.prevSize = h[n2].prevSize + h[a].size]
    BY <2>1 DEF Absorb, Restrict
  <2>. QED BY <2>2, <2>3, <2>4, <2>5
<1>6. g \in [DOMAIN g -> Header]
  <2>1. g[a] \in Header /\ g[n2] \in Header
    BY <1>2, <1>5 DEF Header
  <2>2. \A x \in DOMAIN g : g[x] \in Header
    BY <1>1, <1>4, <1>5, <2>1
  <2>3. g = [x \in DOMAIN g |-> g[x]]
    BY DEF Absorb, Restrict
  <2>. QED BY <2>2, <2>3
<1>7. ForwardLinks(g, T \ {n})
  <2> SUFFICES ASSUME NEW x \in DOMAIN g \ {arena}
      PROVE /\ g[x].size >= HeaderSize
            /\ x + g[x].size \in T \ {n}
            /\ \A t \in T \ {n} : t <= x \/ t >= x + g[x].size
            /\ x + g[x].size \in DOMAIN g =>
                 g[x + g[x].size].prevSize = g[x].size
    BY DEF ForwardLinks
  <2>0. x \in DOMAIN h /\ x \in Nat /\ h[x] \in Header /\ x # n
    BY <1>1, <1>4
  <2>1. CASE x = a
    <3>1. g[x].size = h[a].size + h[n].size /\ x + g[x].size = n2
      BY <2>1, <1>2, <1>5 DEF Header
    <3>2. g[n2].prevSize = h[a].size + h[n].size
      BY <1>2, <1>5 DEF Header
    <3>3. \A t \in T \ {n} : t <= a \/ t >= n2
      BY <1>1, <1>2 DEF ForwardLinks
    <3>. QED BY <3>1, <3>2, <3>3, <2>1, <1>1, <1>2 DEF ForwardLinks, Header
  <2>2. CASE x # a
    <3>1. g[x].size = h[x].size
      BY <2>0, <2>2, <1>2, <1>4, <1>5 DEF Header
    <3>2. h[x].size >= HeaderSize /\ x + h[x].size \in T
          /\ \A t \in T : t <= x \/ t >= x + h[x].size
      BY <2>0, <1>1 DEF ForwardLinks
    <3>3. x + h[x].size # n /\ x + h[x].size # n2
      BY <3>2, <2>0, <2>2, <1>1, <1>2 DEF ForwardLinks, Header
    <3>4. ASSUME x + h[x].size \in DOMAIN h \ {n}
          PROVE  g[x + h[x].size].prevSize = h[x].size
      <4>1. h[x + h[x].size].prevSize = h[x].size
        BY <3>4, <2>0, <1>1 DEF ForwardLinks
      <4>2. CASE x + h[x].size = a
        BY <4>1, <4>2, <1>2, <1>5 DEF Header
      <4>3. CASE x + h[x].size # a
        BY <4>1, <4>3, <3>3, <3>4, <1>5
      <4>. QED BY <4>2, <4>3
    <3>. QED BY <3>1, <3>2, <3>3, <3>4, <1>4
  <2>. QED BY <2>1, <2>2
<1>8. BackLinks(g, T \ {n})
  <2> SUFFICES ASSUME NEW x \in DOMAIN g
      PROVE /\ x = 0 <=> g[x].prevSize = 0
            /\ x # 0 => /\ x - g[x].prevSize \in T \ {n}
                        /\ \A t \in T \ {n} : t >= x \/ t <= x - g[x].prevSize
    BY DEF BackLinks
  <2>0. x \in DOMAIN h /\ x \in Nat /\ h[x] \in Header /\ x # n
    BY <1>1, <1>4
  <2>1. CASE x = n2
    <3>1. g[x].prevSize = h[a].size + h[n].size /\ x - g[x].prevSize = a /\ x # 0
      BY <2>1, <1>2, <1>5 DEF Header
    <3>2. \A t \in T \ {n} : t >= n2 \/ t <= a
      BY <1>1, <1>2 DEF ForwardLinks
    <3>. QED BY <3>1, <3>2, <2>1, <1>1, <1>2 DEF Header
  <2>2. CASE x # n2
    <3>1. g[x].prevSize = h[x].prevSize
      BY <2>0, <2>2, <1>2, <1>4, <1>5 DEF Header
    <3>2. x = 0 <=> h[x].prevSize = 0
      BY <2>0, <1>1 DEF BackLinks
    <3>3. ASSUME x # 0 PROVE x - h[x].prevSize # n
      <4>1. x - h[x].prevSize \in T /\ \A t \in T : t >= x \/ t <= x - h[x].prevSize
        BY <3>3, <2>0, <1>1 DEF BackLinks
      <4>2. n2 >= x \/ n2 <= x - h[x].prevSize
        BY <4>1, <1>1
      <4>3. x <= n \/ x >= n2
        BY <2>0, <1>1, <1>2 DEF ForwardLinks
      <4>4. h[x].prevSize > 0
        BY <3>2, <3>3, <2>0 DEF Header
      <4>. QED BY <4>2, <4>3, <4>4, <2>0, <2>2, <1>2 DEF Header
    <3>. QED BY <3>1, <3>2, <3>3, <2>0, <1>1 DEF BackLinks
  <2>. QED BY <2>1, <2>2
<1>9. EndMarker(g)
  <2> SUFFICES ASSUME arena \in DOMAIN g PROVE g[arena].size = 0 /\ ~g[arena].free
    BY DEF EndMarker
  <2>1. h[arena].size = 0 /\ ~h[arena].free
    BY <1>1, <1>4 DEF EndMarker
  <2>2. CASE arena = n2
    BY <2>1, <2>2, <1>2, <1>5 DEF Header
  <2>3. CASE arena # n2
    BY <2>1, <2>3, <1>4, <1>5
  <2>. QED BY <2>2, <2>3
<1>10. DOMAIN g \subseteq T \ {n} /\ T \ {n} \subseteq 0 .. arena
  BY <1>1, <1>4
<1> HIDE DEF g
<1>. QED BY <1>4, <1>5, <1>6, <1>7, <1>8, <1>9, <1>10 DEF Layout, Absorbed, g

LEMMA FlagLayout ==
  ASSUME NEW h, NEW T, NEW b, NEW f \in BOOLEAN,
         arena \in Nat, Layout(h, T), b \in DOMAIN h, b # arena
  PROVE  LET g == [h EXCEPT ![b].free = f]
         IN  /\ DOMAIN g = DOMAIN h
             /\ g[b] = [h[b] EXCEPT !.free = f]
             /\ \A x \in DOMAIN h \ {b} : g[x] = h[x]
             /\ Layout(g, T)
<1> DEFINE g == [h EXCEPT ![b].free = f]
<1>1. /\ h \in [DOMAIN h -> Header] /\ DOMAIN h \subseteq T /\ T \subseteq 0 .. arena
      /\ ForwardLinks(h, T) /\ BackLinks(h, T) /\ EndMarker(h)
  BY DEF Layout
<1>2. /\ DOMAIN g = DOMAIN h
      /\ g[b] = [h[b] EXCEPT !.free = f]
      /\ \A x \in DOMAIN h \ {b} : g[x] = h[x]
  OBVIOUS
<1>3. h[b] \in Header /\ g[b] \in Header /\ g[b].size = h[b].size /\ g[b].prevSize = h[b].prevSize
  BY <1>1, <1>2 DEF Header
<1>4. \A x \in DOMAIN h : g[x].size = h[x].size /\ g[x].prevSize = h[x].prevSize
  BY <1>2, <1>3
<1>5. g \in [DOMAIN g -> Header]
  BY <1>1, <1>2, <1>3
<1>6. ForwardLinks(g, T)
  BY <1>1, <1>2, <1>4 DEF ForwardLinks
<1>7. BackLinks(g, T)
  BY <1>1, <1>2, <1>4 DEF BackLinks
<1>8. EndMarker(g)
  BY <1>1, <1>2 DEF EndMarker
<1> HIDE DEF g
<1>9. Layout(g, T)
  BY <1>1, <1>2, <1>5, <1>6, <1>7, <1>8 DEF Layout
<1>. QED BY <1>2, <1>9 DEF g

LEMMA CutLayout ==
  ASSUME NEW h, NEW T, NEW a, NEW w \in Nat, NEW g,
         arena \in Nat, Layout(h, T),
         a \in DOMAIN h, a # arena, a + h[a].size \in DOMAIN h,
         w >= HeaderSize, h[a].size - w >= HeaderSize,
         DOMAIN g = DOMAIN h \cup {a + (h[a].size - w)},
         g = [x \in DOMAIN g |-> g[x]],
         g[a + (h[a].size - w)] = [free |-> FALSE, prevSize |-> h[a].size - w, size |-> w],
         g[a] = [h[a] EXCEPT !.size = h[a].size - w],
         g[a + h[a].size] = [h[a + h[a].size] EXCEPT !.prevSize = w],
         \A x \in DOMAIN h \ {a, a + h[a].size} :
            x # a + (h[a].size - w) => g[x] = h[x]
  PROVE  Layout(g, T \cup {a + (h[a].size - w)})
<1> DEFINE top == a + (h[a].size - w)
           next == a + h[a].size
<1>. HeaderSize \in Nat \ {0} BY HeapAssumption
<1>1. /\ h \in [DOMAIN h -> Header] /\ DOMAIN h \subseteq T /\ T \subseteq 0 .. arena
      /\ ForwardLinks(h, T) /\ BackLinks(h, T) /\ EndMarker(h)
  BY DEF Layout
<1>2. /\ a \in Nat /\ h[a] \in Header /\ h[a].size \in Nat
      /\ next \in DOMAIN h /\ next \in 0 .. arena /\ h[next] \in Header
      /\ top \in Nat /\ a < top /\ top < next /\ h[a].size - w \in Nat
  BY <1>1 DEF Header
<1>3. top \notin T /\ (\A t \in T : t <= a \/ t >= next)
  BY <1>1, <1>2 DEF ForwardLinks
<1> HIDE DEF top, next
<1>4. /\ DOMAIN g = DOMAIN h \cup {top}
      /\ g[top] = [free |-> FALSE, prevSize |-> h[a].size - w, size |-> w]
      /\ g[a] = [h[a] EXCEPT !.size = h[a].size - w]
      /\ g[next] = [h[next] EXCEPT !.prevSize = w]
      /\ \A x \in DOMAIN h \ {a, next} : g[x] = h[x]
      /\ top + w = next /\ next - w = top /\ top - (h[a].size - w) = a
      /\ a + (h[a].size - w) = top /\ next = a + h[a].size
  <2>1. \A x \in DOMAIN h \ {a, next} : g[x] = h[x]
    BY <1>1, <1>3 DEF top, next
  <2>2. top + w = next /\ next - w = top /\ top - (h[a].size - w) = a
    BY <1>2 DEF top, next
  <2>. QED BY <2>1, <2>2 DEF top, next
<1>5. g \in [DOMAIN g -> Header]
  <2>1. g[top] \in Header /\ g[a] \in Header /\ g[next] \in Header
    BY <1>2, <1>4 DEF Header
  <2>2. \A x \in DOMAIN g : g[x] \in Header
    BY <1>1, <1>4, <2>1
  <2>. QED BY <2>2
<1>6. /\ g[top].size = w /\ g[top].prevSize = h[a].size - w /\ ~g[top].free
      /\ g[a].size = h[a].size - w /\ g[a].prevSize = h[a].prevSize
      /\ g[next].size = h[next].size /\ g[next].prevSize = w
      /\ g[next].free = h[next].free
  BY <1>2, <1>4 DEF Header
<1>7. ForwardLinks(g, T \cup {top})
  <2> SUFFICES ASSUME NEW x \in DOMAIN g \ {arena}
      PROVE /\ g[x].size >= HeaderSize
            /\ x + g[x].size \in T \cup {top}
            /\ \A t \in T \cup {top} : t <= x \/ t >= x + g[x].size
            /\ x + g[x].size \in DOMAIN g =>
                 g[x + g[x].size].prevSize = g[x].size
    BY DEF ForwardLinks
  <2>1. CASE x = top
    <3>1. g[x].size = w /\ x + g[x].size = next
      BY <2>1, <1>4, <1>6
    <3>2. next \in T \cup {top} /\ g[next].prevSize = w
      BY <1>1, <1>2, <1>6
    <3>3. \A t \in T \cup {top} : t <= top \/ t >= next
      <4>. TAKE t \in T \cup {top}
      <4>1. CASE t \in T
        <5>1. t <= a \/ t >= next
          BY <4>1, <1>3
        <5>2. t \in Nat
          BY <4>1, <1>1
        <5>. QED BY <5>1, <5>2, <1>2
      <4>. QED BY <4>1, <1>2
    <3>. QED BY <3>1, <3>2, <3>3, <2>1
  <2>2. CASE x = a
    <3>1. g[x].size = h[a].size - w /\ x + g[x].size = top
      BY <2>2, <1>4, <1>6
    <3>2. top \in DOMAIN g /\ g[top].prevSize = h[a].size - w
      BY <1>4, <1>6
    <3>3. \A t \in T \cup {top} : t <= a \/ t >= top
      <4>. TAKE t \in T \cup {top}
      <4>1. CASE t \in T
        <5>1. t <= a \/ t >= next
          BY <4>1, <1>3
        <5>2. t \in Nat
          BY <4>1, <1>1
        <5>. QED BY <5>1, <5>2, <1>2
      <4>. QED BY <4>1, <1>2
    <3>. QED BY <3>1, <3>2, <3>3, <2>2
  <2>3. CASE x # top /\ x # a
    <3>1. x \in DOMAIN h /\ x \in Nat /\ h[x] \in Header
      BY <2>3, <1>1, <1>4
    <3>2. g[x].size = h[x].size
      BY <2>3, <3>1, <1>4, <1>6
    <3>3. /\ h[x].size >= HeaderSize /\ x + h[x].size \in T
          /\ \A t \in T : t <= x \/ t >= x + h[x].size
          /\ x + h[x].size \in DOMAIN h => h[x + h[x].size].prevSize = h[x].size
      BY <3>1, <1>1 DEF ForwardLinks
    <3>4. x + h[x].size # next /\ (top <= x \/ top >= x + h[x].size)
      <4>1. (a <= x \/ a >= x + h[x].size) /\ (x <= a \/ x >= next)
        BY <3>1, <3>3, <1>1, <1>3
      <4>2. h[x].size \in Nat /\ h[x].size > 0 /\ x # a
        BY <3>1, <3>3, <2>3 DEF Header
      <4>. QED BY <4>1, <4>2, <3>1, <1>2
    <3>5. x + h[x].size \in DOMAIN g => g[x + h[x].size].prevSize = h[x].size
      <4>1. PICK y : y = x + h[x].size
        OBVIOUS
      <4>2. y \in T /\ y # top /\ y # next
        BY <3>3, <3>4, <4>1, <1>3
      <4>3. y \in DOMAIN g => y \in DOMAIN h /\ h[y].prevSize = h[x].size
        BY <3>3, <4>1, <4>2, <1>4
      <4>4. y \in DOMAIN h => g[y].prevSize = h[y].prevSize
        BY <4>2, <1>4, <1>6
      <4> QED BY <4>1, <4>3, <4>4
    <3>. QED BY <3>2, <3>3, <3>4, <3>5
  <2>. QED BY <2>1, <2>2, <2>3
<1>8. BackLinks(g, T \cup {top})
  <2> SUFFICES ASSUME NEW x \in DOMAIN g
      PROVE /\ x = 0 <=> g[x].prevSize = 0
            /\ x # 0 => /\ x - g[x].prevSize \in T \cup {top}
                        /\ \A t \in T \cup {top} : t >= x \/ t <= x - g[x].prevSize
    BY DEF BackLinks
  <2>1. CASE x = top
    BY <2>1, <1>1, <1>2, <1>3, <1>4, <1>6
  <2>2. CASE x = next
    BY <2>2, <1>1, <1>2, <1>3, <1>4, <1>6
  <2>3. CASE x # top /\ x # next
    <3>1. x \in DOMAIN h /\ x \in Nat /\ h[x] \in Header
      BY <2>3, <1>1, <1>4
    <3>2. g[x].prevSize = h[x].prevSize
      BY <2>3, <3>1, <1>4, <1>6
    <3>3. /\ x = 0 <=> h[x].prevSize = 0
          /\ x # 0 => /\ x - h[x].prevSize \in T
                      /\ \A t \in T : t >= x \/ t <= x - h[x].prevSize
      BY <3>1, <1>1 DEF BackLinks
    <3>4. x # 0 => top >= x \/ top <= x - h[x].prevSize
      <4> SUFFICES ASSUME x # 0 PROVE top >= x \/ top <= x - h[x].prevSize
        OBVIOUS
      <4>1. (next >= x \/ next <= x - h[x].prevSize) /\ (x <= a \/ x >= next)
        BY <3>1, <3>3, <1>1, <1>2, <1>3
      <4>2. h[x].prevSize \in Nat /\ x # next
        BY <3>1, <2>3 DEF Header
      <4>. QED BY <4>1, <4>2, <3>1, <1>2
    <3>. QED BY <3>2, <3>3, <3>4
  <2>. QED BY <2>1, <2>2, <2>3
<1>9. EndMarker(g)
  <2> SUFFICES ASSUME arena \in DOMAIN g PROVE g[arena].size = 0 /\ ~g[arena].free
    BY DEF EndMarker
  <2>1. arena \in DOMAIN h
    BY <1>2, <1>4
  <2>2. h[arena].size = 0 /\ ~h[arena].free
    BY <2>1, <1>1 DEF EndMarker
  <2>. QED BY <2>1, <2>2, <1>4, <1>6
<1>10. DOMAIN g \subseteq T \cup {top} /\ T \cup {top} \subseteq 0 .. arena
  BY <1>1, <1>2, <1>4
<1>11. Layout(g, T \cup {top})
  BY <1>5, <1>7, <1>8, <1>9, <1>10 DEF Layout
<1>. QED BY <1>11 DEF top

-----------------------------------------------------------------------------
IInv == TypeOK /\ HeapInv /\ NoLeak

LEMMA IInvInit == Init => IInv
<1> SUFFICES ASSUME Init PROVE IInv
  OBVIOUS
<1>1. TypeOK
  BY DEF Init, TypeOK, Header
<1>2. Layout(hdr, Starts) /\ Starts = {}
  BY DEF Init, Layout, ForwardLinks, BackLinks, EndMarker, Starts, Header
<1>3. HeapInv
  <2>1. arena < WordSize
    BY HeapAssumption DEF Init
  <2>2. DOMAIN live = {}
    BY DEF Init
  <2>. QED BY <1>2, <2>1, <2>2 DEF Init, HeapInv, Owned, SearchInv
<1>4. NoLeak
  BY DEF Init, NoLeak
<1>. QED BY <1>1, <1>3, <1>4 DEF IInv

LEMMA IInvHeapInit == IInv /\ BootHeapInit => IInv'
<1> SUFFICES ASSUME IInv, BootHeapInit PROVE IInv'
  OBVIOUS
<1>0. TypeOK /\ HeapInv /\ NoLeak
  BY DEF IInv
<1>. HeaderSize \in Nat \ {0} /\ BootStackSize \in Nat
  BY HeapAssumption
<1>1. ~heapUp /\ Starts = {} /\ live = [p \in {} |-> 0] /\ damaged = {}
  BY <1>0 DEF BootHeapInit, HeapInv, Starts
<1>2. PICK r \in Regions :
        LET end == r - BootStackSize - HeaderSize
        IN  IF r <= 0 \/ r < BootStackSize \/ end < 0
            THEN UNCHANGED <<heapUp, arena, hdr>>
            ELSE /\ heapUp' = TRUE
                 /\ arena' = end
                 /\ hdr' = [a \in {0, end} |->
                              IF a = end
                              THEN [free |-> FALSE, prevSize |-> end, size |-> 0]
                              ELSE [free |-> TRUE, prevSize |-> 0, size |-> end]]
  BY DEF BootHeapInit
<1> DEFINE end == r - BootStackSize - HeaderSize
<1>3. CASE r <= 0 \/ r < BootStackSize \/ end < 0
  <2>1. UNCHANGED <<heapUp, arena, hdr, damaged, live, released, cursor, asked, want>> /\ pc' = "idle"
    BY <1>2, <1>3 DEF BootHeapInit
  <2>2. TypeOK'
    BY <1>0, <2>1 DEF TypeOK
  <2>3. HeapInv'
    BY <1>0, <1>1, <2>1
    DEF HeapInv, Layout, ForwardLinks, BackLinks, EndMarker, Starts, Owned, SearchInv
  <2>4. NoLeak'
    BY <1>0, <2>1 DEF NoLeak
  <2>. QED BY <2>2, <2>3, <2>4 DEF IInv
<1>4. CASE ~(r <= 0 \/ r < BootStackSize \/ end < 0)
  <2>1. r \in Int /\ end \in Nat /\ end < WordSize /\ (end = 0 \/ end >= HeaderSize)
    BY <1>4, HeapAssumption
  <2> HIDE DEF end
  <2>2. /\ heapUp' = TRUE /\ arena' = end /\ pc' = "idle"
        /\ hdr' = [a \in {0, end} |->
                     IF a = end
                     THEN [free |-> FALSE, prevSize |-> end, size |-> 0]
                     ELSE [free |-> TRUE, prevSize |-> 0, size |-> end]]
        /\ UNCHANGED <<damaged, live, released, cursor, asked, want>>
    BY <1>2, <1>4 DEF BootHeapInit, end
  <2>3. /\ DOMAIN hdr' = {0, end} /\ Starts' = {0, end}
        /\ hdr'[end] = [free |-> FALSE, prevSize |-> end, size |-> 0]
        /\ end # 0 => hdr'[0] = [free |-> TRUE, prevSize |-> 0, size |-> end]
    BY <2>2, <1>1 DEF Starts
  <2>4. hdr' \in [DOMAIN hdr' -> Header]
    BY <2>1, <2>2 DEF Header
  <2>5. TypeOK'
    BY <1>0, <2>1, <2>2, <2>3, <2>4 DEF TypeOK
  <2>6. ForwardLinks(hdr, Starts)'
    BY <2>1, <2>2, <2>3 DEF ForwardLinks
  <2>7. BackLinks(hdr, Starts)' /\ EndMarker(hdr)'
    BY <2>1, <2>2, <2>3 DEF BackLinks, EndMarker
  <2>8. Layout(hdr, Starts)'
    BY <2>1, <2>2, <2>3, <2>4, <2>6, <2>7 DEF Layout
  <2>9. HeapInv'
    <3>1. DOMAIN live' = {} /\ damaged' = {}
      BY <1>1, <2>2
    <3>2. released' = {}
      <4>1. released = {}
        BY <1>0 DEF BootHeapInit, HeapInv
      <4>. QED BY <4>1, <2>2
    <3>. QED BY <2>1, <2>2, <2>3, <2>8, <3>1, <3>2 DEF HeapInv, Owned, SearchInv
  <2>10. NoLeak'
    BY <2>2, <2>3 DEF NoLeak
  <2>. QED BY <2>5, <2>9, <2>10 DEF IInv
<1>. QED BY <1>3, <1>4

(* The parts of HeapInv that the calls on a running heap start from.       *)
LEMMA HeapFacts ==
  ASSUME IInv, heapUp
  PROVE  /\ HeaderSize \in Nat \ {0} /\ arena \in Nat
         /\ hdr \in [DOMAIN hdr -> Header]
         /\ DOMAIN hdr \subseteq Starts /\ Starts \subseteq 0 .. arena
         /\ {0, arena} \subseteq Starts
         /\ Layout(hdr, Starts)
         /\ ForwardLinks(hdr, Starts) /\ BackLinks(hdr, Starts) /\ EndMarker(hdr)
         /\ DOMAIN hdr \cap damaged = {}
         /\ Owned(hdr, Starts, live)
         /\ pc # "boot" /\ arena < WordSize
BY HeapAssumption DEF IInv, TypeOK, HeapInv, Layout

LEMMA IInvSearch ==
  IInv /\ (\/ \E n \in Requests : BootAllocRefused(n)
           \/ \E n \in Requests : BootAllocBegin(n)
           \/ BootAllocFail
           \/ BootAllocNext) => IInv'
<1> SUFFICES ASSUME IInv,
                    \/ \E n \in Requests : BootAllocRefused(n)
                    \/ \E n \in Requests : BootAllocBegin(n)
                    \/ BootAllocFail
                    \/ BootAllocNext
             PROVE  IInv'
  OBVIOUS
<1>0. TypeOK /\ HeapInv /\ NoLeak
  BY DEF IInv
<1>1. CASE \E n \in Requests : BootAllocRefused(n)
  BY <1>0, <1>1
  DEF BootAllocRefused, vars, IInv, TypeOK, HeapInv, NoLeak, Layout, ForwardLinks, BackLinks,
      EndMarker, Starts, Owned, SearchInv, Fits
<1>2. ASSUME UNCHANGED <<heapUp, arena, hdr, damaged, live, released>>,
             pc = "boot" <=> pc' = "boot", SearchInv',
             pc' \in {"boot", "idle", "walk"}, cursor' \in Nat, asked' \in Nat, want' \in Nat
      PROVE  IInv'
  <2>1. TypeOK'
    BY <1>0, <1>2 DEF TypeOK
  <2>2. HeapInv'
    BY <1>0, <1>2 DEF HeapInv, Layout, ForwardLinks, BackLinks, EndMarker, Starts, Owned
  <2>3. NoLeak'
    BY <1>0, <1>2 DEF NoLeak
  <2>. QED BY <2>1, <2>2, <2>3 DEF IInv
<1>3. CASE \E n \in Requests : BootAllocBegin(n)
  <2>1. PICK n \in Requests : BootAllocBegin(n)
    BY <1>3
  <2>2. n < AllocLimit /\ n \in Nat /\ RoundUp(n) \in Nat
    BY <2>1, RoundUpEnough, HeapAssumption DEF BootAllocBegin
  <2>3. SearchInv'
    BY <2>1, <2>2, HeapFacts DEF BootAllocBegin, SearchInv, Starts
  <2>. QED BY <1>2, <2>1, <2>2, <2>3 DEF BootAllocBegin
<1>4. CASE BootAllocFail
  <2>1. SearchInv'
    BY <1>4 DEF BootAllocFail, Return, SearchInv
  <2>. QED BY <1>2, <1>4, <2>1 DEF BootAllocFail, Return
<1>5. CASE BootAllocNext
  <2>1. pc = "walk" /\ heapUp /\ SearchInv
    BY <1>0, <1>5 DEF BootAllocNext, HeapInv, SearchInv
  <2>2. cursor \in DOMAIN hdr /\ cursor # arena /\ ~Fits(cursor)
    BY <1>5, <2>1, HeapFacts DEF BootAllocNext, Intact, EndMarker
  <2>3. /\ cursor' = cursor + hdr[cursor].size /\ cursor' \in Starts
        /\ \A t \in Starts : t <= cursor \/ t >= cursor'
    BY <1>5, <2>1, <2>2, HeapFacts DEF BootAllocNext, After, ForwardLinks
  <2>4. \A a \in DOMAIN hdr : a < cursor' => ~Fits(a)
    <3> SUFFICES ASSUME NEW a \in DOMAIN hdr, a < cursor' PROVE ~Fits(a)
      OBVIOUS
    <3>1. a \in Nat /\ cursor \in Nat /\ cursor' \in Nat
      BY <2>1, <2>2, <2>3, HeapFacts
    <3>2. a <= cursor
      BY <2>1, <2>3, <3>1, HeapFacts
    <3>3. a < cursor => ~Fits(a)
      BY <2>1 DEF SearchInv
    <3>. QED BY <2>2, <3>1, <3>2, <3>3
  <2>5. SearchInv'
    BY <1>5, <2>1, <2>3, <2>4 DEF BootAllocNext, SearchInv, Starts, Fits
  <2>6. cursor' \in Nat /\ asked' \in Nat /\ want' \in Nat
    BY <1>0, <1>5, <2>1, <2>3, HeapFacts DEF BootAllocNext, TypeOK
  <2>. QED BY <1>2, <1>5, <2>5, <2>6 DEF BootAllocNext
<1>. QED BY <1>1, <1>3, <1>4, <1>5

LEMMA SearchFacts ==
  ASSUME IInv, pc = "walk"
  PROVE  asked \in Nat /\ want \in Nat /\ want >= asked + HeaderSize
<1>1. asked \in Requests /\ asked < AllocLimit /\ want = RoundUp(asked)
  BY DEF IInv, HeapInv, SearchInv
<1>2. RoundUp(asked) \in Nat /\ RoundUp(asked) >= asked + HeaderSize
  BY <1>1, RoundUpEnough
<1>3. asked \in Nat
  BY <1>1, HeapAssumption
<1>. QED BY <1>1, <1>2, <1>3

(* The operators of HeapInv read arena, which only BootHeapInit changes.    *)
LEMMA SameArena ==
  ASSUME arena' = arena
  PROVE  /\ Layout(hdr', Starts') <=> Layout(hdr, Starts)'
         /\ Owned(hdr', Starts', live') <=> Owned(hdr, Starts, live)'
BY DEF Layout, ForwardLinks, BackLinks, EndMarker, Owned

(* A step that hands out the block at b, the top of the free block at low  *)
(* (or all of it), which reaches up to next.                               *)
LEMMA IInvHandOut ==
  ASSUME IInv, pc = "walk", NEW b \in Nat, NEW next \in Starts,
         NEW low \in DOMAIN hdr, hdr[low].free, low <= b,
         HandOut(b + HeaderSize),
         UNCHANGED <<heapUp, arena, damaged>>,
         Layout(hdr', Starts'), b \in DOMAIN hdr', b # arena,
         Starts' = Starts \cup {b}, DOMAIN hdr' \cap damaged = {},
         ~hdr'[b].free,
         b \in DOMAIN hdr => hdr[b].free,
         b + HeaderSize + asked <= next, next <= arena,
         \A t \in Starts : t <= low \/ t >= next,
         \A x \in DOMAIN hdr : x # b => x \in DOMAIN hdr' /\ hdr'[x].free = hdr[x].free,
         \A x \in DOMAIN hdr' : x # b => x \in DOMAIN hdr
  PROVE  IInv'
<1> DEFINE p == b + HeaderSize
<1>0. TypeOK /\ HeapInv /\ NoLeak /\ SearchInv /\ heapUp
  BY DEF IInv, HeapInv, SearchInv
<1>1. /\ pc' = "idle" /\ cursor' = 0 /\ asked' = 0 /\ want' = 0
      /\ live' = [q \in DOMAIN live \cup {p} |-> IF q = p THEN asked ELSE live[q]]
      /\ released' = released \ {p}
  BY DEF HandOut, Return
<1>2. asked \in Nat /\ p \in Nat /\ p - HeaderSize = b /\ p <= arena
  <2>1. asked \in Nat /\ HeaderSize \in Nat /\ next \in Nat /\ arena \in Nat
    BY <1>0, HeapFacts DEF TypeOK
  <2>. QED BY <2>1
<1> HIDE DEF p
<1>3. TypeOK'
  <2>1. live' \in [DOMAIN live' -> Nat] /\ DOMAIN live' \subseteq Nat
    BY <1>0, <1>1, <1>2 DEF TypeOK
  <2>2. hdr' \in [DOMAIN hdr' -> Header] /\ DOMAIN hdr' \subseteq Nat
    BY <1>0 DEF Layout, TypeOK
  <2>. QED BY <1>0, <1>1, <2>1, <2>2 DEF TypeOK
<1>4. Owned(hdr', Starts', live')
  <2> SUFFICES ASSUME NEW q \in DOMAIN live'
      PROVE /\ q - HeaderSize \in Starts' \ {arena}
            /\ q - HeaderSize \in DOMAIN hdr' => ~hdr'[q - HeaderSize].free
            /\ \A t \in Starts' : t <= q - HeaderSize \/ t >= q + live'[q]
    BY DEF Owned
  <2>1. CASE q = p
    <3>1. live'[q] = asked
      BY <1>1, <2>1
    <3>2. next <= arena /\ next \in Nat /\ p + asked <= next /\ low \in Nat
      BY HeapFacts, <1>0 DEF p
    <3>3. \A t \in Starts' : t <= b \/ t >= p + asked
      <4> SUFFICES ASSUME NEW t \in Starts PROVE t <= b \/ t >= p + asked
        BY <1>2
      <4>1. t \in Nat /\ (t <= low \/ t >= next)
        BY <1>0, HeapFacts
      <4>. QED BY <4>1, <3>2, <1>2
    <3>. QED BY <3>1, <3>2, <3>3, <2>1, <1>2, <1>0, HeapFacts
  <2>2. CASE q # p
    <3>1. q \in DOMAIN live /\ live'[q] = live[q] /\ q \in Nat /\ live[q] \in Nat
      BY <1>0, <1>1, <2>2 DEF TypeOK
    <3>2. q - HeaderSize # b /\ HeaderSize \in Nat \ {0} /\ low \in Nat
      BY <2>2, <3>1, <1>0, HeapFacts DEF p
    <3>3. /\ q - HeaderSize \in Starts \ {arena}
          /\ q - HeaderSize \in DOMAIN hdr => ~hdr[q - HeaderSize].free
          /\ \A t \in Starts : t <= q - HeaderSize \/ t >= q + live[q]
      BY <3>1, <1>0, HeapFacts DEF Owned
    <3>4. b <= q - HeaderSize \/ b >= q + live[q]
      <4>1. q - HeaderSize <= low \/ q - HeaderSize >= next
        BY <3>3
      <4>2. (low <= q - HeaderSize \/ low >= q + live[q]) /\ q - HeaderSize # low
        BY <3>3, <1>0, HeapFacts
      <4>3. next \in Nat /\ b + HeaderSize <= next
        BY <1>0, <1>2, HeapFacts, <3>2 DEF TypeOK
      <4>. QED BY <4>1, <4>2, <4>3, <3>1, <3>2
    <3>. QED BY <3>1, <3>2, <3>3, <3>4
  <2>. QED BY <2>1, <2>2
<1>5. released' \cap DOMAIN live' = {} /\ \A q \in released' : q <= arena
  BY <1>0, <1>1 DEF HeapInv
<1>6. HeapInv'
  <2>1. SearchInv' /\ {0, arena} \subseteq Starts'
    BY <1>0, <1>1, HeapFacts DEF SearchInv
  <2>. QED BY <2>1, <1>0, <1>1, <1>4, <1>5, SameArena DEF HeapInv
<1>7. NoLeak'
  <2> SUFFICES ASSUME NEW a \in DOMAIN hdr', a # arena, ~hdr'[a].free
      PROVE a + HeaderSize \in DOMAIN live'
    BY DEF NoLeak
  <2>1. CASE a = b
    BY <2>1, <1>1 DEF p
  <2>2. CASE a # b
    BY <2>2, <1>0, <1>1 DEF NoLeak
  <2>. QED BY <2>1, <2>2
<1>. QED BY <1>3, <1>6, <1>7 DEF IInv

LEMMA IInvWhole == IInv /\ BootAllocWhole => IInv'
<1> SUFFICES ASSUME IInv, BootAllocWhole PROVE IInv'
  OBVIOUS
<1>0. TypeOK /\ HeapInv /\ NoLeak /\ SearchInv /\ heapUp /\ pc = "walk"
  BY DEF IInv, HeapInv, SearchInv, BootAllocWhole
<1> DEFINE b == cursor
           next == b + hdr[b].size
<1>1. b \in DOMAIN hdr /\ b # arena /\ hdr[b].free /\ hdr[b].size >= want
  BY <1>0, HeapFacts DEF BootAllocWhole, Intact, Fits, EndMarker
<1>2. /\ hdr' = [hdr EXCEPT ![b].free = FALSE]
      /\ HandOut(b + HeaderSize) /\ UNCHANGED <<heapUp, arena, damaged>>
  BY DEF BootAllocWhole
<1>3. /\ next \in Starts /\ next <= arena
      /\ \A t \in Starts : t <= b \/ t >= next
  BY <1>0, <1>1, HeapFacts DEF ForwardLinks
<1>4. b + HeaderSize + asked <= next
  <2>1. want >= asked + HeaderSize /\ want \in Nat /\ asked \in Nat
    BY <1>0, SearchFacts
  <2>. QED BY <2>1, <1>0, <1>1, HeapFacts DEF Header
<1> HIDE DEF b, next
<1>5. /\ DOMAIN hdr' = DOMAIN hdr /\ Layout(hdr', Starts)
      /\ \A x \in DOMAIN hdr \ {b} : hdr'[x] = hdr[x]
      /\ hdr'[b] = [hdr[b] EXCEPT !.free = FALSE]
  BY <1>0, <1>1, <1>2, HeapFacts, FlagLayout
<1>6. Starts' = Starts \cup {b} /\ b \in Nat
  BY <1>0, <1>1, <1>2, <1>5, HeapFacts DEF Starts
<1>7. Starts' = Starts /\ ~hdr'[b].free
  BY <1>0, <1>1, <1>5, <1>6, HeapFacts DEF Header
<1>8. Layout(hdr', Starts') /\ b \in DOMAIN hdr' /\ b <= b
  BY <1>1, <1>5, <1>6, <1>7
<1>9. DOMAIN hdr' \cap damaged = {}
  BY <1>0, <1>5, HeapFacts
<1>10. /\ \A x \in DOMAIN hdr : x # b => x \in DOMAIN hdr' /\ hdr'[x].free = hdr[x].free
       /\ \A x \in DOMAIN hdr' : x # b => x \in DOMAIN hdr
  BY <1>5
<1>. QED
  BY <1>0, <1>1, <1>2, <1>3, <1>4, <1>6, <1>7, <1>8, <1>9, <1>10, IInvHandOut

LEMMA IInvSplit == IInv /\ BootAllocSplit => IInv'
<1> SUFFICES ASSUME IInv, BootAllocSplit PROVE IInv'
  OBVIOUS
<1>0. TypeOK /\ HeapInv /\ NoLeak /\ SearchInv /\ heapUp /\ pc = "walk"
  BY DEF IInv, HeapInv, SearchInv, BootAllocSplit
<1> DEFINE low  == cursor
           next == low + hdr[low].size
           kept == hdr[low].size - want
           top  == low + kept
<1>1. /\ low \in DOMAIN hdr /\ low # arena /\ hdr[low].free /\ next \in DOMAIN hdr
      /\ kept >= HeaderSize + MinPayload
  BY <1>0, HeapFacts DEF BootAllocSplit, Intact, Fits, Divides, Rest, After, EndMarker
<1>2. HandOut(top + HeaderSize) /\ UNCHANGED <<heapUp, arena, damaged>>
  BY DEF BootAllocSplit, Rest
<1>3. want >= asked + HeaderSize /\ want \in Nat /\ asked \in Nat
  BY <1>0, SearchFacts
<1>4. /\ next \in Starts /\ next <= arena
      /\ \A t \in Starts : t <= low \/ t >= next
  BY <1>0, <1>1, HeapFacts DEF ForwardLinks
<1>5. /\ low \in Nat /\ hdr[low] \in Header /\ hdr[next] \in Header
      /\ kept \in Nat /\ kept >= HeaderSize /\ top \in Nat
      /\ low < top /\ top < next /\ top + HeaderSize + asked <= next
      /\ next \in Nat /\ low # next
  <2>1. low \in Nat /\ hdr[low] \in Header /\ hdr[next] \in Header
    BY <1>0, <1>1, HeapFacts
  <2>. QED BY <2>1, <1>0, <1>1, <1>3, HeapFacts, HeapAssumption DEF Header
<1>6. /\ DOMAIN hdr' = DOMAIN hdr \cup {top}
      /\ hdr' = [x \in DOMAIN hdr' |-> hdr'[x]]
      /\ hdr'[top] = [free |-> FALSE, prevSize |-> kept, size |-> want]
      /\ hdr'[low] = [hdr[low] EXCEPT !.size = kept]
      /\ hdr'[next] = [hdr[next] EXCEPT !.prevSize = want]
      /\ \A x \in DOMAIN hdr \ {low, next} : x # top => hdr'[x] = hdr[x]
  <2> DEFINE cut == [hdr EXCEPT ![next].prevSize = want, ![low].size = kept]
  <2>1. hdr' = [a \in DOMAIN hdr \cup {top} |->
                 IF a = top
                 THEN [free |-> FALSE, prevSize |-> kept, size |-> want]
                 ELSE cut[a]]
    BY DEF BootAllocSplit, Rest, After
  <2>2. /\ cut[low] = [hdr[low] EXCEPT !.size = kept]
        /\ cut[next] = [hdr[next] EXCEPT !.prevSize = want]
        /\ \A x \in DOMAIN hdr \ {low, next} : cut[x] = hdr[x]
    <3> HIDE DEF low, next, kept
    <3>. QED BY <1>1, <1>5
  <2> HIDE DEF cut, low, next, kept, top
  <2>. QED BY <2>1, <2>2, <1>1, <1>5
<1>7. Layout(hdr', Starts \cup {top})
  <2>1. /\ DOMAIN hdr' = DOMAIN hdr \cup {low + (hdr[low].size - want)}
        /\ hdr'[low + (hdr[low].size - want)] =
             [free |-> FALSE, prevSize |-> hdr[low].size - want, size |-> want]
        /\ hdr'[low] = [hdr[low] EXCEPT !.size = hdr[low].size - want]
        /\ hdr'[low + hdr[low].size] = [hdr[low + hdr[low].size] EXCEPT !.prevSize = want]
        /\ \A x \in DOMAIN hdr \ {low, low + hdr[low].size} :
             x # low + (hdr[low].size - want) => hdr'[x] = hdr[x]
    BY <1>6
  <2>2. want >= HeaderSize /\ hdr[low].size - want >= HeaderSize /\ hdr' = [x \in DOMAIN hdr' |-> hdr'[x]]
    BY <1>0, <1>3, <1>5, <1>6, HeapFacts
  <2>3. low \in DOMAIN hdr /\ low # arena /\ low + hdr[low].size \in DOMAIN hdr
    BY <1>1
  <2> HIDE DEF low, next, kept
  <2>4. Layout(hdr', Starts \cup {low + (hdr[low].size - want)})
    BY <2>1, <2>2, <2>3, <1>0, <1>3, HeapFacts, CutLayout
  <2>. QED BY <2>4 DEF kept
<1> HIDE DEF low, next, kept, top
<1>8. Starts' = Starts \cup {top} /\ top \notin Starts
  <2>1. top \notin Starts
    BY <1>4, <1>5
  <2>. QED BY <2>1, <1>2, <1>6 DEF Starts
<1>9. /\ top \in DOMAIN hdr' /\ ~hdr'[top].free /\ top # arena
      /\ DOMAIN hdr' \cap damaged = {}
      /\ top \notin DOMAIN hdr
  <2>1. top \notin damaged /\ top \notin DOMAIN hdr
    BY <1>8 DEF Starts
  <2>2. top # arena
    BY <1>0, <1>4, <1>5, HeapFacts
  <2>. QED BY <2>1, <2>2, <1>0, <1>6, HeapFacts
<1>10. \A x \in DOMAIN hdr : x # top => x \in DOMAIN hdr' /\ hdr'[x].free = hdr[x].free
  BY <1>1, <1>5, <1>6 DEF Header
<1>11. \A x \in DOMAIN hdr' : x # top => x \in DOMAIN hdr
  BY <1>6
<1>12. Layout(hdr', Starts')
  BY <1>7, <1>8
<1>13. low <= top
  BY <1>5
<1>. QED
  BY <1>0, <1>1, <1>2, <1>4, <1>5, <1>8, <1>9, <1>10, <1>11, <1>12, <1>13, IInvHandOut

(* A step that takes block p back: it may drop the header of p or of free  *)
(* blocks, and changes the free flag of p's header only.                   *)
LEMMA IInvTakeBack ==
  ASSUME IInv, heapUp, NEW p \in DOMAIN live,
         live' = Restrict(live, DOMAIN live \ {p}),
         released' = released \cup {p},
         UNCHANGED <<pc, heapUp, arena, damaged, cursor, asked, want>>,
         pc = "idle",
         Layout(hdr', Starts'), DOMAIN hdr' \subseteq DOMAIN hdr,
         0 \in Starts', arena \in Starts',
         \A x \in DOMAIN hdr : x \notin DOMAIN hdr' => hdr[x].free \/ x = p - HeaderSize,
         \A x \in DOMAIN hdr' :
            IF x = p - HeaderSize THEN hdr'[x].free ELSE hdr'[x].free = hdr[x].free
  PROVE  IInv'
<1>0. TypeOK /\ HeapInv /\ NoLeak
  BY DEF IInv
<1>1. /\ DOMAIN live' = DOMAIN live \ {p}
      /\ \A q \in DOMAIN live' : live'[q] = live[q]
      /\ live' = [q \in DOMAIN live' |-> live'[q]]
  BY DEF Restrict
<1>2. Starts' \subseteq Starts /\ DOMAIN hdr' \cap damaged' = {}
  BY HeapFacts DEF Starts
<1>3. TypeOK'
  <2>1. live' \in [DOMAIN live' -> Nat] /\ DOMAIN live' \subseteq Nat /\ p \in Nat
    BY <1>0, <1>1 DEF TypeOK
  <2>2. hdr' \in [DOMAIN hdr' -> Header] /\ DOMAIN hdr' \subseteq Nat
    BY <1>0 DEF Layout, TypeOK
  <2>. QED BY <1>0, <2>1, <2>2 DEF TypeOK
<1>4. Owned(hdr', Starts', live')
  <2> SUFFICES ASSUME NEW q \in DOMAIN live'
      PROVE /\ q - HeaderSize \in Starts' \ {arena}
            /\ q - HeaderSize \in DOMAIN hdr' => ~hdr'[q - HeaderSize].free
            /\ \A t \in Starts' : t <= q - HeaderSize \/ t >= q + live'[q]
    BY DEF Owned
  <2>1. /\ q - HeaderSize \in Starts \ {arena}
        /\ q - HeaderSize \in DOMAIN hdr => ~hdr[q - HeaderSize].free
        /\ \A t \in Starts : t <= q - HeaderSize \/ t >= q + live[q]
    BY <1>1, HeapFacts DEF Owned
  <2>2. q - HeaderSize # p - HeaderSize
    BY <1>0, <1>1, HeapFacts DEF TypeOK
  <2>3. q - HeaderSize \in Starts'
    BY <2>1, <2>2 DEF Starts
  <2>. QED BY <2>1, <2>2, <2>3, <1>1, <1>2
<1>5. p <= arena /\ p \in Nat
  <2>1. p \in Nat /\ live[p] \in Nat /\ arena \in Starts /\ arena \in Nat /\ HeaderSize \in Nat
    BY <1>0, HeapFacts DEF TypeOK
  <2>2. p - HeaderSize \in Starts \ {arena} /\ (arena <= p - HeaderSize \/ arena >= p + live[p])
    BY <2>1, HeapFacts DEF Owned
  <2>3. p - HeaderSize <= arena
    BY <2>2, HeapFacts
  <2>. QED BY <2>1, <2>2, <2>3
<1>6. HeapInv'
  <2>1. released' \cap DOMAIN live' = {} /\ \A q \in released' : q <= arena
    BY <1>0, <1>1, <1>5 DEF HeapInv
  <2>2. SearchInv'
    BY DEF SearchInv
  <2>3. arena' < WordSize /\ arena' = arena /\ (heapUp' => {0, arena'} \subseteq Starts')
    BY <1>0, <1>1, <1>2, <1>4 DEF HeapInv
  <2>. QED BY <1>0, <1>1, <2>1, <2>2, <2>3, <1>2, <1>4, SameArena DEF HeapInv
<1>7. NoLeak'
  <2> SUFFICES ASSUME NEW a \in DOMAIN hdr', a # arena, ~hdr'[a].free
      PROVE a + HeaderSize \in DOMAIN live'
    BY DEF NoLeak
  <2>1. a # p - HeaderSize /\ a + HeaderSize \in DOMAIN live
    BY <1>0 DEF NoLeak
  <2>2. a \in Nat /\ p \in Nat /\ HeaderSize \in Nat
    BY <1>5, HeapFacts
  <2>. QED BY <2>1, <2>2, <1>1
<1>. QED BY <1>3, <1>6, <1>7 DEF IInv

(* A free block below the block at b reaches exactly up to it.             *)
LEMMA PrevReaches ==
  ASSUME IInv, heapUp, NEW b \in DOMAIN hdr, b # arena, PrevIsFree(b)
  PROVE  LET q == b - hdr[b].prevSize
         IN  /\ q \in DOMAIN hdr /\ hdr[q].free /\ q # arena /\ q < b /\ q \in Nat
             /\ b = q + hdr[q].size
<1> DEFINE q == b - hdr[b].prevSize
<1>1. hdr[b].prevSize # 0 /\ q \in DOMAIN hdr /\ hdr[q].free
  BY DEF PrevIsFree, Intact
<1>2. /\ q # arena /\ q \in Nat /\ b \in Nat /\ b \in Starts
      /\ hdr[b] \in Header /\ hdr[q] \in Header
  BY <1>1, HeapFacts DEF EndMarker
<1>3. q < b
  BY <1>1, <1>2 DEF Header
<1>4. /\ q + hdr[q].size \in Starts /\ hdr[q].size >= HeaderSize
      /\ b <= q \/ b >= q + hdr[q].size
  BY <1>1, <1>2, HeapFacts DEF ForwardLinks
<1>5. q + hdr[q].size >= b \/ q + hdr[q].size <= q
  BY <1>2, <1>3, <1>4, HeapFacts DEF BackLinks
<1>6. b = q + hdr[q].size
  BY <1>2, <1>3, <1>4, <1>5, HeapFacts DEF Header
<1>. QED BY <1>1, <1>2, <1>3, <1>6

LEMMA IInvFree ==
  ASSUME IInv, NEW p \in DOMAIN live, BootFree(p)
  PROVE  IInv'
<1> DEFINE b == p - HeaderSize
           n == b + hdr[b].size
           n2 == n + hdr[n].size
           q == b - hdr[b].prevSize
           m == MarkFree(hdr, b)
<1>0. TypeOK /\ HeapInv /\ NoLeak
  BY DEF IInv
<1>1. heapUp
  BY <1>0 DEF HeapInv
<1>2. /\ live' = Restrict(live, DOMAIN live \ {p})
      /\ released' = released \cup {p}
      /\ UNCHANGED <<pc, heapUp, arena, damaged, cursor, asked, want>>
      /\ pc = "idle" /\ BootFreeBlock(b)
  BY DEF BootFree
<1>3. /\ b \in Starts /\ b # arena
      /\ b \in DOMAIN hdr => ~hdr[b].free
  BY <1>1, HeapFacts DEF Owned
<1> HIDE DEF b
(* Every outcome but FreeIgnored starts from the marked heap m.            *)
<1>4. ASSUME Freeing(b)
      PROVE  /\ b \in DOMAIN hdr /\ b \in Nat /\ DOMAIN m = DOMAIN hdr
             /\ m[b] = [hdr[b] EXCEPT !.free = TRUE] /\ m[b].free
             /\ m[b].size = hdr[b].size /\ m[b].prevSize = hdr[b].prevSize
             /\ \A x \in DOMAIN hdr \ {b} : m[x] = hdr[x]
             /\ Layout(m, Starts)
             /\ hdr[b].size > 0 /\ hdr[b].size \in Nat /\ n > b /\ n \in Nat
  <2>1. b \in DOMAIN hdr /\ b \in Nat /\ hdr[b] \in Header
    BY <1>1, <1>4, HeapFacts DEF Freeing, Intact
  <2>2. /\ DOMAIN m = DOMAIN hdr /\ m[b] = [hdr[b] EXCEPT !.free = TRUE]
        /\ \A x \in DOMAIN hdr \ {b} : m[x] = hdr[x]
        /\ Layout(m, Starts)
    BY <2>1, <1>1, <1>3, HeapFacts, FlagLayout DEF MarkFree
  <2>3. hdr[b].size >= HeaderSize
    BY <2>1, <1>1, <1>3, HeapFacts DEF ForwardLinks
  <2> HIDE DEF m
  <2>. QED BY <2>1, <2>2, <2>3, <1>1, HeapFacts DEF Header
<1>5. CASE FreeIgnored(b)
  <2>1. hdr' = hdr /\ Starts' = Starts /\ b \notin DOMAIN hdr
    BY <1>2, <1>3, <1>5 DEF FreeIgnored, Freeing, Intact, Starts
  <2>2. Layout(hdr', Starts') /\ 0 \in Starts' /\ arena \in Starts'
    BY <2>1, <1>1, HeapFacts
  <2>. QED BY <2>1, <2>2, <1>1, <1>2, IInvTakeBack DEF b
<1>6. ASSUME hdr' = m, Freeing(b)
      PROVE  IInv'
  <2>1. DOMAIN hdr' = DOMAIN hdr /\ Starts' = Starts
    BY <1>2, <1>4, <1>6 DEF Starts
  <2>2. Layout(hdr', Starts') /\ 0 \in Starts' /\ arena \in Starts'
    BY <2>1, <1>1, <1>4, <1>6, HeapFacts
  <2>3. \A x \in DOMAIN hdr' : IF x = b THEN hdr'[x].free ELSE hdr'[x].free = hdr[x].free
    BY <2>1, <1>4, <1>6
  <2> HIDE DEF m
  <2>. QED BY <2>1, <2>2, <2>3, <1>1, <1>2, IInvTakeBack DEF b
<1>7. CASE FreeBelowDamage(b) \/ FreeNoMerge(b)
  BY <1>6, <1>7 DEF FreeBelowDamage, FreeNoMerge
<1>8. ASSUME Freeing(b), n \in DOMAIN hdr, hdr[n].free, n2 \in DOMAIN hdr
      PROVE  LET g == Absorb(m, b, n, n2)
             IN  /\ DOMAIN g = DOMAIN hdr \ {n}
                 /\ g[b] = [m[b] EXCEPT !.size = hdr[b].size + hdr[n].size]
                 /\ g[n2] = [m[n2] EXCEPT !.prevSize = hdr[b].size + hdr[n].size]
                 /\ \A x \in DOMAIN hdr \ {b, n, n2} : g[x] = hdr[x]
                 /\ Layout(g, Starts \ {n})
                 /\ n # arena /\ n > b /\ n2 > n /\ n2 \in Nat /\ b \in DOMAIN hdr
                 /\ hdr[n].size \in Nat
  <2>1. n # arena /\ n # b
    BY <1>1, <1>4, <1>8, HeapFacts DEF EndMarker
  <2>2. hdr[n] \in Header /\ hdr[n].size >= HeaderSize
    BY <1>1, <1>8, <2>1, HeapFacts DEF ForwardLinks
  <2>3. m[n] = hdr[n] /\ n2 > n /\ n2 \in Nat /\ hdr[n].size \in Nat
    BY <1>1, <1>4, <1>8, <2>1, <2>2, HeapFacts DEF Header
  <2>4. n = b + m[b].size /\ n2 = n + m[n].size
    BY <1>4, <1>8, <2>3
  <2>5. m[n2] = hdr[n2]
    BY <1>4, <1>8, <2>3
  <2>6. /\ arena \in Nat /\ Layout(m, Starts)
        /\ b \in DOMAIN m /\ n \in DOMAIN m /\ n2 \in DOMAIN m /\ b # arena /\ n # arena
    BY <2>1, <1>1, <1>3, <1>4, <1>8, HeapFacts
  <2> HIDE DEF m, n, n2
  <2> DEFINE g == Absorb(m, b, n, n2)
  <2>7. /\ DOMAIN g = DOMAIN m \ {n}
        /\ g[b] = [m[b] EXCEPT !.size = m[b].size + m[n].size]
        /\ g[n2] = [m[n2] EXCEPT !.prevSize = m[b].size + m[n].size]
        /\ \A x \in DOMAIN m \ {b, n, n2} : g[x] = m[x]
        /\ Layout(g, Starts \ {n})
    <3>1. InRow(m, Starts, b, n, n2)
      BY <2>4, <2>6 DEF InRow
    <3>2. Absorbed(m, Starts, b, n, n2, g)
      BY <3>1, AbsorbLayout
    <3>. QED BY <3>2 DEF Absorbed
  <2> HIDE DEF g
  <2>8. /\ g[b] = [m[b] EXCEPT !.size = hdr[b].size + hdr[n].size]
        /\ g[n2] = [m[n2] EXCEPT !.prevSize = hdr[b].size + hdr[n].size]
    BY <2>3, <2>7, <1>4, <1>8
  <2>9. \A x \in DOMAIN hdr \ {b, n, n2} : g[x] = hdr[x]
    BY <2>7, <1>4, <1>8
  <2>10. n > b /\ DOMAIN g = DOMAIN hdr \ {n} /\ b \in DOMAIN hdr
    BY <2>7, <1>4, <1>8
  <2>. QED BY <2>1, <2>3, <2>7, <2>8, <2>9, <2>10 DEF g
<1>9. CASE FreeMergeNext(b)
  <2> DEFINE g == Absorb(m, b, n, n2)
  <2>1. Freeing(b) /\ n \in DOMAIN hdr /\ hdr[n].free /\ n2 \in DOMAIN hdr /\ hdr' = g
    BY <1>9 DEF FreeMergeNext, After, Intact
  <2>2. /\ DOMAIN g = DOMAIN hdr \ {n}
        /\ g[b] = [m[b] EXCEPT !.size = hdr[b].size + hdr[n].size]
        /\ g[n2] = [m[n2] EXCEPT !.prevSize = hdr[b].size + hdr[n].size]
        /\ \A x \in DOMAIN hdr \ {b, n, n2} : g[x] = hdr[x]
        /\ Layout(g, Starts \ {n})
        /\ n # arena /\ n > b /\ n2 > n /\ n2 \in Nat /\ b \in DOMAIN hdr
    BY <2>1, <1>8
  <2> HIDE DEF g, m, n, n2
  <2>3. Starts' = Starts \ {n}
    BY <2>1, <2>2, <1>1, <1>2, HeapFacts DEF Starts
  <2>4. 0 \in Starts' /\ arena \in Starts'
    BY <2>1, <2>2, <2>3, <1>1, <1>4, HeapFacts
  <2>5. hdr'[b].free /\ hdr'[n2].free = hdr[n2].free
    <3>1. m[b].free /\ m[n2] = hdr[n2] /\ m[b] \in Header /\ m[n2] \in Header
      BY <2>1, <2>2, <1>4, <1>1, HeapFacts DEF Layout, m
    <3>. QED BY <3>1, <2>1, <2>2 DEF Header
  <2>6. \A x \in DOMAIN hdr' : IF x = b THEN hdr'[x].free ELSE hdr'[x].free = hdr[x].free
    BY <2>1, <2>2, <2>5
  <2>7. DOMAIN hdr' \subseteq DOMAIN hdr /\ Layout(hdr', Starts')
    BY <2>1, <2>2, <2>3
  <2>8. \A x \in DOMAIN hdr : x \notin DOMAIN hdr' => hdr[x].free \/ x = b
    BY <2>1, <2>2
  <2>. QED BY <2>4, <2>6, <2>7, <2>8, <1>1, <1>2, IInvTakeBack DEF b
(* The block below swallows the block at b of a heap h that agrees with    *)
(* hdr on it.                                                              *)
<1>10. ASSUME PrevIsFree(b), Freeing(b), b \in DOMAIN hdr
       PROVE  /\ q \in DOMAIN hdr /\ hdr[q].free /\ q # arena /\ q < b /\ q \in Nat
              /\ b = q + hdr[q].size
  BY <1>1, <1>3, <1>10, PrevReaches
<1>11. CASE FreeMergePrev(b)
  <2> DEFINE g == Absorb(m, q, b, n)
  <2>1. Freeing(b) /\ n \in DOMAIN hdr /\ ~hdr[n].free /\ PrevIsFree(b) /\ hdr' = g
    BY <1>11 DEF FreeMergePrev, After, Intact
  <2>2. /\ q \in DOMAIN hdr /\ hdr[q].free /\ q # arena /\ q < b /\ q \in Nat
        /\ b = q + hdr[q].size
    BY <2>1, <1>4, <1>10
  <2>3. m[q] = hdr[q] /\ b = q + m[q].size /\ n = b + m[b].size /\ b \in DOMAIN m /\ n \in DOMAIN m /\ q \in DOMAIN m
        /\ m[n] = hdr[n] /\ b \in Nat
    BY <2>1, <2>2, <1>4
  <2> HIDE DEF m, n, q
  <2>4. /\ DOMAIN g = DOMAIN m \ {b}
        /\ g[q] = [m[q] EXCEPT !.size = m[q].size + m[b].size]
        /\ g[n] = [m[n] EXCEPT !.prevSize = m[q].size + m[b].size]
        /\ \A x \in DOMAIN m \ {q, b, n} : g[x] = m[x]
        /\ Layout(g, Starts \ {b})
    <3>1. arena \in Nat /\ Layout(m, Starts) /\ q # arena /\ b # arena
      BY <2>1, <2>2, <1>1, <1>3, <1>4, HeapFacts
    <3>2. InRow(m, Starts, q, b, n)
      BY <3>1, <2>3 DEF InRow
    <3>3. Absorbed(m, Starts, q, b, n, g)
      BY <3>2, AbsorbLayout
    <3>. QED BY <3>3 DEF Absorbed
  <2> HIDE DEF g
  <2>5. Starts' = Starts \ {b}
    BY <2>1, <2>4, <1>1, <1>2, <1>4, HeapFacts DEF Starts
  <2>6. 0 \in Starts' /\ arena \in Starts'
    BY <2>2, <2>3, <2>5, <1>1, <1>3, HeapFacts
  <2>7. m[q] \in Header /\ m[n] \in Header
    BY <2>1, <2>2, <2>3, <1>1, HeapFacts
  <2>8. g[q].free = hdr[q].free /\ g[n].free = hdr[n].free
    BY <2>3, <2>4, <2>7 DEF Header
  <2>9. \A x \in DOMAIN hdr' : IF x = b THEN hdr'[x].free ELSE hdr'[x].free = hdr[x].free
    BY <2>1, <2>4, <2>8, <1>4
  <2>10. DOMAIN hdr' \subseteq DOMAIN hdr /\ Layout(hdr', Starts')
    BY <2>1, <2>4, <2>5, <1>4
  <2>11. \A x \in DOMAIN hdr : x \notin DOMAIN hdr' => hdr[x].free \/ x = b
    BY <2>1, <2>4, <1>4
  <2>. QED BY <2>6, <2>9, <2>10, <2>11, <1>1, <1>2, IInvTakeBack DEF b
<1>12. CASE FreeMergeBoth(b)
  <2> DEFINE h == Absorb(m, b, n, n2)
             g == Absorb(h, q, b, n2)
  <2>1. /\ Freeing(b) /\ n \in DOMAIN hdr /\ hdr[n].free /\ n2 \in DOMAIN hdr
        /\ PrevIsFree(b) /\ hdr' = g
    BY <1>12 DEF FreeMergeBoth, After, Intact
  <2>2. /\ q \in DOMAIN hdr /\ hdr[q].free /\ q # arena /\ q < b /\ q \in Nat
        /\ b = q + hdr[q].size
    BY <2>1, <1>4, <1>10
  <2>3. /\ DOMAIN h = DOMAIN hdr \ {n}
        /\ h[b] = [m[b] EXCEPT !.size = hdr[b].size + hdr[n].size]
        /\ h[n2] = [m[n2] EXCEPT !.prevSize = hdr[b].size + hdr[n].size]
        /\ \A x \in DOMAIN hdr \ {b, n, n2} : h[x] = hdr[x]
        /\ Layout(h, Starts \ {n})
        /\ n # arena /\ n > b /\ n2 > n /\ n2 \in Nat /\ b \in DOMAIN hdr
        /\ hdr[n].size \in Nat
    BY <2>1, <1>8
  <2>4. /\ m[b] \in Header /\ m[n2] = hdr[n2] /\ m[n2] \in Header /\ b \in Nat
        /\ n = b + hdr[b].size /\ n2 = n + hdr[n].size /\ hdr[b].size \in Nat
    BY <2>1, <2>3, <1>1, <1>4, HeapFacts DEF Layout
  <2> HIDE DEF m, n, n2, q, h
  <2>5. /\ h[b].size = hdr[b].size + hdr[n].size
        /\ h[n2].free = hdr[n2].free
        /\ h[q] = hdr[q]
        /\ b \in DOMAIN h /\ n2 \in DOMAIN h /\ q \in DOMAIN h
    <3>1. q # b /\ q # n /\ q # n2 /\ b # n /\ b # n2 /\ n # n2 /\ n \in Nat
      <4>1. n \in Nat
        BY <2>4
      <4>2. q < b /\ b < n /\ n < n2 /\ q \in Nat /\ b \in Nat /\ n2 \in Nat
        BY <2>2, <2>3, <2>4
      <4>. QED BY <4>1, <4>2
    <3>2. h[q] = hdr[q] /\ b \in DOMAIN h /\ n2 \in DOMAIN h /\ q \in DOMAIN h
      BY <3>1, <2>1, <2>2, <2>3
    <3>3. h[b].size = hdr[b].size + hdr[n].size /\ h[n2].free = hdr[n2].free
      BY <2>3, <2>4 DEF Header
    <3>. QED BY <3>2, <3>3
  <2>6. b = q + h[q].size /\ n2 = b + h[b].size
    <3>1. b + (hdr[b].size + hdr[n].size) = (b + hdr[b].size) + hdr[n].size
      BY <2>3, <2>4
    <3>. QED BY <3>1, <2>2, <2>4, <2>5
  <2>7. /\ DOMAIN g = DOMAIN h \ {b}
        /\ g[q] = [h[q] EXCEPT !.size = h[q].size + h[b].size]
        /\ g[n2] = [h[n2] EXCEPT !.prevSize = h[q].size + h[b].size]
        /\ \A x \in DOMAIN h \ {q, b, n2} : g[x] = h[x]
        /\ Layout(g, (Starts \ {n}) \ {b})
    <3>1. arena \in Nat /\ Layout(h, Starts \ {n}) /\ q # arena /\ b # arena
      BY <2>2, <2>3, <1>1, <1>3, HeapFacts
    <3>2. InRow(h, Starts \ {n}, q, b, n2)
      BY <3>1, <2>5, <2>6 DEF InRow
    <3>3. Absorbed(h, Starts \ {n}, q, b, n2, g)
      BY <3>2, AbsorbLayout
    <3>. QED BY <3>3 DEF Absorbed
  <2> HIDE DEF g
  <2>8. Starts' = (Starts \ {n}) \ {b}
    BY <2>1, <2>3, <2>7, <1>1, <1>2, HeapFacts DEF Starts
  <2>9. 0 \in Starts' /\ arena \in Starts'
    <3>1. b # 0 /\ n # 0 /\ b # arena /\ n # arena
      <4>1. n \in Nat
        BY <2>4
      <4>2. q < b /\ b < n /\ q \in Nat /\ b \in Nat
        BY <2>2, <2>3, <2>4
      <4>3. n # arena /\ b # arena
        BY <2>3, <1>3
      <4>. QED BY <4>1, <4>2, <4>3
    <3>. QED BY <3>1, <2>8, <1>1, HeapFacts
  <2>10. h[q] \in Header /\ h[n2] \in Header
    BY <2>3, <2>5 DEF Layout
  <2>11. g[q].free = hdr[q].free /\ g[n2].free = hdr[n2].free
    BY <2>5, <2>7, <2>10 DEF Header
  <2>12. \A x \in DOMAIN hdr' : IF x = b THEN hdr'[x].free ELSE hdr'[x].free = hdr[x].free
    BY <2>1, <2>3, <2>7, <2>11
  <2>13. DOMAIN hdr' \subseteq DOMAIN hdr /\ Layout(hdr', Starts')
    BY <2>1, <2>3, <2>7, <2>8
  <2>14. \A x \in DOMAIN hdr : x \notin DOMAIN hdr' => hdr[x].free \/ x = b
    BY <2>1, <2>3, <2>7
  <2>. QED BY <2>9, <2>12, <2>13, <2>14, <1>1, <1>2, IInvTakeBack DEF b
<1>. QED BY <1>2, <1>5, <1>7, <1>9, <1>11, <1>12 DEF BootFreeBlock

LEMMA IInvFreeAgain ==
  ASSUME IInv, NEW p \in released, BootFreeAgain(p)
  PROVE  hdr' = hdr /\ IInv'
<1>0. TypeOK /\ HeapInv /\ NoLeak
  BY DEF IInv
<1>1. heapUp
  BY <1>0 DEF BootFreeAgain, HeapInv
<1>2. p \notin DOMAIN live /\ p <= arena /\ p \in Nat
  BY <1>0 DEF HeapInv, TypeOK
<1>3. ~Freeing(p - HeaderSize)
  <2>1. p - HeaderSize # arena /\ (p - HeaderSize) + HeaderSize = p
    BY <1>1, <1>2, HeapFacts
  <2>. QED BY <2>1, <1>0, <1>2 DEF NoLeak, Freeing, Intact
<1>4. hdr' = hdr /\ UNCHANGED vars
  BY <1>3 DEF BootFreeAgain, BootFreeBlock, FreeIgnored, FreeBelowDamage, FreeNoMerge,
              FreeMergeNext, FreeMergePrev, FreeMergeBoth, vars
<1>5. IInv'
  BY <1>0, <1>4 DEF vars, IInv, TypeOK, HeapInv, NoLeak, Layout, ForwardLinks, BackLinks,
                    EndMarker, Starts, Owned, SearchInv, Fits
<1>. QED BY <1>4, <1>5

LEMMA IInvOverrun ==
  ASSUME IInv, NEW p \in DOMAIN live, Overrun(p)
  PROVE  IInv'
<1> DEFINE n == After(p - HeaderSize)
<1>0. TypeOK /\ HeapInv /\ NoLeak /\ heapUp
  BY DEF IInv, HeapInv
<1>1. /\ n \in DOMAIN hdr /\ damaged' = damaged \cup {n} /\ pc = "idle"
      /\ hdr' = Restrict(hdr, DOMAIN hdr \ {n})
      /\ UNCHANGED <<pc, heapUp, arena, cursor, asked, want, live, released>>
  BY DEF Overrun, Intact
<1> HIDE DEF n
<1>2. /\ DOMAIN hdr' = DOMAIN hdr \ {n}
      /\ \A x \in DOMAIN hdr' : hdr'[x] = hdr[x]
      /\ hdr' = [x \in DOMAIN hdr' |-> hdr'[x]]
      /\ Starts' = Starts
  BY <1>1 DEF Restrict, Starts
<1>3. hdr' \in [DOMAIN hdr' -> Header] /\ DOMAIN hdr' \subseteq DOMAIN hdr
  BY <1>0, <1>2, HeapFacts
<1>4. ForwardLinks(hdr', Starts') /\ BackLinks(hdr', Starts') /\ EndMarker(hdr')
  <2>1. ForwardLinks(hdr', Starts)
    BY <1>0, <1>2, <1>3, HeapFacts DEF ForwardLinks
  <2>2. BackLinks(hdr', Starts) /\ EndMarker(hdr')
    BY <1>0, <1>2, <1>3, HeapFacts DEF BackLinks, EndMarker
  <2>. QED BY <2>1, <2>2, <1>2
<1>5. Layout(hdr', Starts')
  BY <1>0, <1>2, <1>3, <1>4, HeapFacts DEF Layout
<1>6. Owned(hdr', Starts', live')
  BY <1>0, <1>1, <1>2, HeapFacts DEF Owned
<1>7. DOMAIN hdr' \cap damaged' = {}
  BY <1>0, <1>1, <1>2, HeapFacts
<1>8. HeapInv'
  <2>1. SearchInv'
    BY <1>1 DEF SearchInv
  <2>. QED BY <2>1, <1>0, <1>1, <1>2, <1>5, <1>6, <1>7, SameArena DEF HeapInv
<1>9. TypeOK'
  BY <1>0, <1>1, <1>3, HeapFacts DEF TypeOK
<1>10. NoLeak'
  BY <1>0, <1>1, <1>2 DEF NoLeak
<1>. QED BY <1>8, <1>9, <1>10 DEF IInv

LEMMA IInvNext == IInv /\ [Next]_vars => IInv'
<1> SUFFICES ASSUME IInv, [Next]_vars PROVE IInv'
  OBVIOUS
<1>1. CASE UNCHANGED vars
  BY <1>1 DEF vars, IInv, TypeOK, HeapInv, NoLeak, Layout, ForwardLinks, BackLinks,
              EndMarker, Starts, Owned, SearchInv, Fits
<1>2. CASE BootFreeNull
  BY <1>1, <1>2 DEF BootFreeNull
<1>. QED
  BY <1>1, <1>2, IInvHeapInit, IInvSearch, IInvSplit, IInvWhole, IInvFree, IInvFreeAgain,
     IInvOverrun DEF Next

LEMMA IInvHolds == Spec => []IInv
  BY IInvInit, IInvNext, PTL DEF Spec

(* The heap's variables keep their types through every sequence of         *)
(* BootHeapInit, BootAlloc and BootFree calls (heap.c), whatever the sizes. *)
THEOREM TypeOKHolds == Spec => []TypeOK
<1>1. IInv => TypeOK
  BY DEF IInv
<1>. QED BY <1>1, IInvHolds, PTL

(* So do the layout of the headers and the ownership of the blocks.        *)
THEOREM HeapInvHolds == Spec => []HeapInv
<1>1. IInv => HeapInv
  BY DEF IInv
<1>. QED BY <1>1, IInvHolds, PTL

(* BootFree strands no block whose header it can read (heap.c BootFree).   *)
THEOREM NoLeakHolds == Spec => []NoLeak
<1>1. IInv => NoLeak
  BY DEF IInv
<1>. QED BY <1>1, IInvHolds, PTL

-----------------------------------------------------------------------------
(* No block of h but those in E is free together with the block above it.  *)
Apart(h, E) ==
  \A x \in DOMAIN h \ E : x # arena /\ h[x].free => ~h[x + h[x].size].free

(* Absorb leaves neighbours apart when the block above both is in use.     *)
LEMMA AbsorbApart ==
  ASSUME NEW h, NEW a, NEW n, NEW n2, NEW E,
         InRow(h, DOMAIN h, a, n, n2), Apart(h, E), ~h[n2].free
  PROVE  Apart(Absorb(h, a, n, n2), E \ {a, n})
<1> DEFINE g == Absorb(h, a, n, n2)
<1>. HeaderSize \in Nat \ {0} BY HeapAssumption
<1>1. /\ h \in [DOMAIN h -> Header] /\ DOMAIN h \subseteq 0 .. arena
      /\ arena \in Nat /\ ForwardLinks(h, DOMAIN h)
      /\ a \in DOMAIN h /\ n \in DOMAIN h /\ n2 \in DOMAIN h /\ a # arena /\ n # arena
      /\ n = a + h[a].size /\ n2 = n + h[n].size
  BY DEF InRow, Layout
<1>2. Absorbed(h, DOMAIN h, a, n, n2, g)
  BY AbsorbLayout
<1> HIDE DEF g
<1>3. /\ a \in Nat /\ n \in Nat /\ n2 \in Nat /\ a < n /\ n < n2
      /\ h[a] \in Header /\ h[n] \in Header /\ h[n2] \in Header
  BY <1>1 DEF ForwardLinks, Header
<1>4. /\ DOMAIN g = DOMAIN h \ {n}
      /\ g[a].size = h[a].size + h[n].size /\ g[a].free = h[a].free
      /\ g[n2].size = h[n2].size /\ g[n2].free = h[n2].free
      /\ \A x \in DOMAIN h \ {a, n, n2} : g[x] = h[x]
  BY <1>2, <1>3 DEF Absorbed, Header
<1>5. \A x \in DOMAIN h \ {n} : g[x].free = h[x].free /\ (x # a => g[x].size = h[x].size)
  BY <1>4
<1>6. SUFFICES ASSUME NEW x \in DOMAIN g \ (E \ {a, n}), x # arena, g[x].free
               PROVE  ~g[x + g[x].size].free
  BY DEF Apart, g
<1>7. CASE x = a
  <2>1. a + (h[a].size + h[n].size) = n2
    BY <1>1, <1>3 DEF Header
  <2>. QED BY <2>1, <1>4, <1>7
<1>8. CASE x # a
  <2>1. x \in DOMAIN h /\ x # n /\ x \in Nat /\ x \notin E /\ h[x] \in Header /\ h[x].free
    BY <1>1, <1>4, <1>5, <1>6, <1>8
  <2>2. PICK y : y = x + h[x].size
    OBVIOUS
  <2>3. /\ y \in DOMAIN h /\ y > x /\ y \in Nat
        /\ \A t \in DOMAIN h : t <= x \/ t >= y
    BY <1>1, <1>6, <2>1, <2>2 DEF ForwardLinks, Header
  <2>4. y # n
    <3>1. (a <= x \/ a >= y) /\ (x <= a \/ x >= n)
      BY <1>1, <2>1, <2>3 DEF ForwardLinks
    <3>. QED BY <3>1, <1>3, <1>8, <2>1, <2>3
  <2>5. ~h[y].free
    BY <1>6, <2>1, <2>2 DEF Apart
  <2>6. g[y].free = h[y].free /\ g[x].size = h[x].size
    BY <1>5, <1>8, <2>1, <2>3, <2>4
  <2>. QED BY <2>2, <2>5, <2>6
<1>. QED BY <1>7, <1>8

(* The block whose size a header keeps in prevSize is the one below it.    *)
LEMMA BelowIsPrev ==
  ASSUME NEW h, ForwardLinks(h, DOMAIN h), DOMAIN h \subseteq Nat, h \in [DOMAIN h -> Header],
         NEW x \in DOMAIN h, x # arena,
         NEW b \in DOMAIN h, x + h[x].size = b
  PROVE  x = b - h[b].prevSize /\ h[b].prevSize # 0
<1>1. h[b].prevSize = h[x].size /\ h[x].size >= HeaderSize /\ h[x].size \in Nat
  BY DEF ForwardLinks, Header
<1>. QED BY <1>1, HeapAssumption

(* What marking a block free does to an intact heap of merged neighbours.  *)
LEMMA MarkApart ==
  ASSUME IInv, heapUp, damaged = {}, Apart(hdr, {}), NEW b, b # arena, Freeing(b)
  PROVE  /\ Apart(MarkFree(hdr, b), {b, b - hdr[b].prevSize})
         /\ ~PrevIsFree(b) => Apart(MarkFree(hdr, b), {b})
         /\ ~PrevIsFree(b) /\ ~hdr[After(b)].free => Apart(MarkFree(hdr, b), {})
<1> DEFINE m == MarkFree(hdr, b)
           q == b - hdr[b].prevSize
<1>1. Starts = DOMAIN hdr /\ b \in DOMAIN hdr /\ hdr \in [DOMAIN hdr -> Header]
      /\ ForwardLinks(hdr, DOMAIN hdr) /\ DOMAIN hdr \subseteq Nat
  BY HeapFacts DEF Starts, Freeing, Intact
<1>2. /\ DOMAIN m = DOMAIN hdr
      /\ \A x \in DOMAIN hdr : /\ m[x].size = hdr[x].size
                               /\ x # b => m[x].free = hdr[x].free
  BY <1>1 DEF MarkFree, Header
<1> HIDE DEF m
<1>3. ASSUME NEW x \in DOMAIN hdr \ {b}, x # arena, m[x].free, m[x + m[x].size].free
      PROVE  x = q /\ PrevIsFree(b)
  <2>1. PICK y : y = x + hdr[x].size
    OBVIOUS
  <2>2. y \in DOMAIN hdr /\ hdr[x].free /\ ~hdr[y].free /\ m[y].free
    BY <1>1, <1>2, <1>3, <2>1 DEF ForwardLinks, Apart
  <2>3. y = b
    BY <2>2, <1>2
  <2>4. x = q /\ hdr[b].prevSize # 0
    BY <2>1, <2>3, <1>1, <1>3, BelowIsPrev
  <2>. QED BY <2>2, <2>4 DEF PrevIsFree, Intact
<1>4. Apart(m, {b, q})
  BY <1>2, <1>3 DEF Apart
<1>5. ASSUME ~PrevIsFree(b) PROVE Apart(m, {b})
  BY <1>2, <1>3, <1>5 DEF Apart
<1>6. ASSUME ~PrevIsFree(b), ~hdr[After(b)].free PROVE Apart(m, {})
  <2>1. After(b) # b /\ After(b) \in DOMAIN hdr
    BY <1>1, HeapAssumption DEF ForwardLinks, After, Header
  <2>2. m[b].size = hdr[b].size /\ ~m[b + m[b].size].free
    BY <2>1, <1>1, <1>2, <1>6 DEF After
  <2>. QED BY <2>2, <1>2, <1>3, <1>6 DEF Apart
<1>. QED BY <1>4, <1>5, <1>6 DEF m

LEMMA CoalescedFree ==
  ASSUME IInv, heapUp, damaged = {}, Apart(hdr, {}),
         NEW b \in Starts, b # arena, BootFreeBlock(b)
  PROVE  Apart(hdr', {})
<1> DEFINE m == MarkFree(hdr, b)
           q == b - hdr[b].prevSize
           n == b + hdr[b].size
           n2 == n + hdr[n].size
<1>1. Starts = DOMAIN hdr /\ b \in DOMAIN hdr
  BY DEF Starts
<1>2. CASE FreeIgnored(b)
  BY <1>2 DEF FreeIgnored
<1>3. SUFFICES ASSUME Freeing(b) PROVE Apart(hdr', {})
  BY <1>2 DEF BootFreeBlock, FreeBelowDamage, FreeNoMerge, FreeMergeNext, FreeMergePrev,
              FreeMergeBoth
<1>4. /\ DOMAIN m = DOMAIN hdr /\ Layout(m, DOMAIN m)
      /\ \A x \in DOMAIN hdr : /\ m[x].size = hdr[x].size /\ m[x].prevSize = hdr[x].prevSize
                               /\ x # b => m[x] = hdr[x]
  <2>1. /\ DOMAIN m = DOMAIN hdr /\ m[b] = [hdr[b] EXCEPT !.free = TRUE]
        /\ \A x \in DOMAIN hdr \ {b} : m[x] = hdr[x]
        /\ Layout(m, DOMAIN hdr)
    BY <1>1, HeapFacts, FlagLayout DEF MarkFree
  <2>2. hdr[b] \in Header
    BY <1>1, HeapFacts
  <2> HIDE DEF m
  <2>. QED BY <2>1, <2>2 DEF Header
<1>5. /\ Apart(m, {b, q})
      /\ ~PrevIsFree(b) => Apart(m, {b})
      /\ ~PrevIsFree(b) /\ ~hdr[n].free => Apart(m, {})
  BY <1>3, MarkApart DEF After
<1>6. /\ n \in DOMAIN hdr /\ n # b /\ b < n /\ n \in Nat /\ b \in Nat
      /\ arena \in Nat /\ hdr[b].size \in Nat
  BY <1>1, HeapFacts DEF ForwardLinks, Header
<1>7. ASSUME hdr[n].free
      PROVE  /\ n # arena /\ n2 \in DOMAIN hdr /\ n < n2 /\ n2 \in Nat /\ ~hdr[n2].free
             /\ InRow(m, DOMAIN m, b, n, n2)
  <2>1. n # arena
    BY <1>1, <1>6, <1>7, HeapFacts DEF EndMarker
  <2>2. n2 \in DOMAIN hdr /\ n < n2 /\ n2 \in Nat
    BY <1>1, <1>6, <2>1, HeapFacts DEF ForwardLinks, Header
  <2>3. ~hdr[n2].free
    BY <1>6, <1>7, <2>1 DEF Apart
  <2>4. InRow(m, DOMAIN m, b, n, n2)
    <3>1. n = b + m[b].size /\ n2 = n + m[n].size
      BY <1>1, <1>4, <1>6
    <3> HIDE DEF m, n, n2
    <3>. QED BY <3>1, <1>1, <1>4, <1>6, <2>1, <2>2 DEF InRow
  <2>. QED BY <2>1, <2>2, <2>3, <2>4
<1>8. ASSUME PrevIsFree(b)
      PROVE  q \in DOMAIN hdr /\ q # arena /\ q < b /\ q \in Nat /\ b = q + hdr[q].size
  BY <1>1, <1>8, PrevReaches
<1> HIDE DEF m
<1>9. CASE FreeBelowDamage(b)
  BY <1>6, <1>7, <1>9 DEF FreeBelowDamage, After, Intact
<1>10. CASE FreeNoMerge(b)
  BY <1>5, <1>10 DEF FreeNoMerge, After, m
<1>11. CASE FreeMergeNext(b)
  <2>1. hdr[n].free /\ ~PrevIsFree(b) /\ hdr' = Absorb(m, b, n, n2)
    BY <1>11 DEF FreeMergeNext, After, m
  <2>2. /\ InRow(m, DOMAIN m, b, n, n2) /\ Apart(m, {b}) /\ ~hdr[n2].free
        /\ n2 \in DOMAIN hdr /\ n2 # b
    BY <2>1, <1>5, <1>6, <1>7
  <2> HIDE DEF n, n2
  <2>3. Apart(Absorb(m, b, n, n2), {b} \ {b, n})
    BY <2>2, <1>4, AbsorbApart
  <2>. QED BY <2>1, <2>3 DEF Apart
<1>12. CASE FreeMergePrev(b)
  <2>1. ~hdr[n].free /\ PrevIsFree(b) /\ hdr' = Absorb(m, q, b, n)
    BY <1>12 DEF FreeMergePrev, After, m
  <2>2. InRow(m, DOMAIN m, q, b, n)
    <3>1. n = b + m[b].size /\ b = q + m[q].size /\ q \in DOMAIN hdr /\ q # arena
      BY <1>1, <1>4, <1>6, <1>8, <2>1
    <3> HIDE DEF n, q
    <3>. QED BY <3>1, <1>1, <1>4, <1>6 DEF InRow
  <2>3. ~m[n].free
    BY <1>4, <1>6, <2>1
  <2> HIDE DEF n, q
  <2>4. Apart(Absorb(m, q, b, n), {b, q} \ {q, b})
    BY <1>5, <2>2, <2>3, AbsorbApart
  <2>. QED BY <2>1, <2>4 DEF Apart
<1>13. CASE FreeMergeBoth(b)
  <2> DEFINE h == Absorb(m, b, n, n2)
  <2>1. hdr[n].free /\ PrevIsFree(b) /\ hdr' = Absorb(h, q, b, n2)
    BY <1>13 DEF FreeMergeBoth, After, m
  <2>2. /\ InRow(m, DOMAIN m, b, n, n2) /\ ~hdr[n2].free
        /\ n2 \in DOMAIN hdr /\ n < n2 /\ n2 \in Nat
        /\ q \in DOMAIN hdr /\ q # arena /\ q < b /\ q \in Nat /\ b = q + hdr[q].size
    BY <2>1, <1>7, <1>8
  <2>3. ~m[n2].free /\ m[q] = hdr[q]
    BY <1>4, <1>6, <2>2
  <2>4. m[b] \in Header /\ m[n2] \in Header /\ m[b].size = hdr[b].size /\ m[n].size = hdr[n].size
    BY <1>1, <1>4, <1>6, <2>2 DEF Layout
  <2>5. n2 = b + (m[b].size + m[n].size)
    <3>1. hdr[n].size \in Nat
      BY <1>1, <1>6, HeapFacts DEF Header
    <3>. QED BY <2>4, <3>1, <1>6
  <2> HIDE DEF h, n, n2, q
  <2>6. Absorbed(m, DOMAIN m, b, n, n2, h)
    BY <2>2, AbsorbLayout DEF h
  <2>7. /\ DOMAIN h = DOMAIN m \ {n} /\ Layout(h, DOMAIN h)
        /\ h[b].size = m[b].size + m[n].size /\ h[n2].free = m[n2].free /\ h[q] = hdr[q]
    <3>1. q # b /\ q # n /\ q # n2 /\ q \in DOMAIN m
      BY <1>4, <1>6, <2>2
    <3>. QED BY <2>3, <2>4, <2>6, <3>1 DEF Absorbed, Header
  <2>8. Apart(h, {b, q} \ {b, n})
    BY <1>5, <2>2, <2>3, AbsorbApart DEF h
  <2>9. InRow(h, DOMAIN h, q, b, n2)
    <3>1. q \in DOMAIN h /\ b \in DOMAIN h /\ n2 \in DOMAIN h
      BY <1>1, <1>4, <1>6, <2>2, <2>7
    <3>2. n2 = b + h[b].size /\ b = q + h[q].size
      BY <2>2, <2>5, <2>7
    <3>. QED BY <3>1, <3>2, <1>6, <2>2, <2>7 DEF InRow
  <2>10. Apart(Absorb(h, q, b, n2), ({b, q} \ {b, n}) \ {q, b})
    BY <2>3, <2>7, <2>8, <2>9, AbsorbApart
  <2>. QED BY <2>1, <2>10 DEF Apart
<1>. QED BY <1>2, <1>9, <1>10, <1>11, <1>12, <1>13 DEF BootFreeBlock

LEMMA CoalescedAlloc ==
  ASSUME IInv, damaged = {}, Apart(hdr, {}), BootAllocSplit \/ BootAllocWhole
  PROVE  Apart(hdr', {})
<1>0. heapUp /\ pc = "walk"
  BY DEF IInv, HeapInv, SearchInv, BootAllocSplit, BootAllocWhole
<1>1. Starts = DOMAIN hdr /\ hdr \in [DOMAIN hdr -> Header] /\ DOMAIN hdr \subseteq Nat
      /\ ForwardLinks(hdr, DOMAIN hdr) /\ HeaderSize \in Nat \ {0}
      /\ want \in Nat /\ want >= HeaderSize
  BY <1>0, HeapFacts, SearchFacts DEF Starts
<1>2. CASE BootAllocWhole
  <2>1. hdr' = [hdr EXCEPT ![cursor].free = FALSE] /\ cursor \in DOMAIN hdr
    BY <1>2 DEF BootAllocWhole, Intact
  <2>2. /\ DOMAIN hdr' = DOMAIN hdr
        /\ \A x \in DOMAIN hdr : hdr'[x].size = hdr[x].size /\ (hdr'[x].free => hdr[x].free)
    BY <1>1, <2>1 DEF Header
  <2>3. \A x \in DOMAIN hdr : x # arena => x + hdr[x].size \in DOMAIN hdr
    BY <1>1 DEF ForwardLinks
  <2>. QED BY <2>2, <2>3 DEF Apart
<1>3. CASE BootAllocSplit
  <2> DEFINE low  == cursor
             next == low + hdr[low].size
             kept == hdr[low].size - want
             top  == low + kept
  <2>1. /\ low \in DOMAIN hdr /\ next \in DOMAIN hdr /\ low # arena /\ hdr[low].free
        /\ kept >= HeaderSize + MinPayload
    BY <1>0, <1>3, HeapFacts DEF BootAllocSplit, Intact, After, Fits, Divides, Rest, EndMarker
  <2>2. /\ low \in Nat /\ next \in Nat /\ kept \in Nat /\ top \in Nat
        /\ low < top /\ top < next /\ hdr[low] \in Header /\ hdr[next] \in Header
    BY <1>1, <2>1, HeapAssumption DEF Header
  <2>3. \A t \in DOMAIN hdr : t <= low \/ t >= next
    BY <1>1, <2>1 DEF ForwardLinks
  <2> HIDE DEF low, next, kept, top
  <2>4. /\ DOMAIN hdr' = DOMAIN hdr \cup {top} /\ top \notin DOMAIN hdr
        /\ ~hdr'[top].free
        /\ hdr'[low].size = kept
        /\ \A x \in DOMAIN hdr : /\ hdr'[x].free = hdr[x].free
                                 /\ x # low => hdr'[x].size = hdr[x].size
    <3>0. PICK cut : cut = [hdr EXCEPT ![next].prevSize = want, ![low].size = kept]
      OBVIOUS
    <3>1. hdr' = [a \in DOMAIN hdr \cup {top} |->
                   IF a = top
                   THEN [free |-> FALSE, prevSize |-> kept, size |-> want]
                   ELSE cut[a]]
      BY <3>0, <1>3 DEF BootAllocSplit, Rest, After, low, next, kept, top
    <3>2. /\ cut[low] = [hdr[low] EXCEPT !.size = kept]
          /\ cut[next] = [hdr[next] EXCEPT !.prevSize = want]
          /\ \A x \in DOMAIN hdr \ {low, next} : cut[x] = hdr[x]
      BY <3>0, <2>1, <2>2
    <3>3. top \notin DOMAIN hdr
      BY <2>2, <2>3
    <3>4. hdr'[top].free = FALSE /\ \A x \in DOMAIN hdr : hdr'[x] = cut[x]
      BY <3>1, <3>3
    <3>5. /\ cut[low].size = kept /\ cut[low].free = hdr[low].free
          /\ cut[next].size = hdr[next].size /\ cut[next].free = hdr[next].free
      BY <3>2, <2>2 DEF Header
    <3>6. \A x \in DOMAIN hdr : /\ cut[x].free = hdr[x].free
                                /\ x # low => cut[x].size = hdr[x].size
      BY <3>2, <3>5
    <3>7. DOMAIN hdr' = DOMAIN hdr \cup {top} /\ hdr'[low] = cut[low]
      BY <2>1, <3>1, <3>4
    <3>. QED BY <3>3, <3>4, <3>5, <3>6, <3>7
  <2>5. low + kept = top
    BY DEF top
  <2>6. ASSUME NEW x \in DOMAIN hdr', x # arena, hdr'[x].free
        PROVE  ~hdr'[x + hdr'[x].size].free
    <3>1. CASE x = low
      BY <3>1, <2>4, <2>5
    <3>2. CASE x # low
      <4>1. x \in DOMAIN hdr /\ hdr[x].free /\ hdr'[x].size = hdr[x].size
        BY <3>2, <2>4, <2>6
      <4>2. x + hdr[x].size \in DOMAIN hdr /\ ~hdr[x + hdr[x].size].free
        BY <4>1, <1>1, <2>6 DEF ForwardLinks, Apart
      <4>. QED BY <4>1, <4>2, <2>4
    <3>. QED BY <3>1, <3>2
  <2>. QED BY <2>6 DEF Apart
<1>. QED BY <1>2, <1>3

LEMMA CoalescedNext == IInv /\ Coalesced /\ [Next]_vars => Coalesced'
<1> SUFFICES ASSUME IInv, Coalesced, [Next]_vars, damaged' = {},
                    NEW x \in DOMAIN hdr', x # arena', hdr'[x].free
             PROVE  ~hdr'[x + hdr'[x].size].free
  BY DEF Coalesced, After
<1>1. ASSUME damaged = {} PROVE Apart(hdr, {})
  BY <1>1 DEF Coalesced, Apart, After
<1>2. ASSUME Apart(hdr', {}), arena' = arena
      PROVE  ~hdr'[x + hdr'[x].size].free
  BY <1>2 DEF Apart
<1>3. CASE UNCHANGED <<hdr, damaged, arena>>
  BY <1>1, <1>2, <1>3
<1>4. CASE UNCHANGED vars \/ BootFreeNull \/ (\E n \in Requests : BootAllocRefused(n))
           \/ (\E n \in Requests : BootAllocBegin(n)) \/ BootAllocFail \/ BootAllocNext
  BY <1>3, <1>4 DEF vars, BootFreeNull, BootAllocRefused, BootAllocBegin, BootAllocFail,
                    BootAllocNext
<1>5. CASE BootAllocSplit \/ BootAllocWhole
  <2>1. damaged = {} /\ arena' = arena
    BY <1>5 DEF BootAllocSplit, BootAllocWhole
  <2>. QED BY <1>1, <1>2, <1>5, <2>1, CoalescedAlloc
<1>6. CASE \E p \in DOMAIN live : BootFree(p)
  <2>1. PICK p \in DOMAIN live : BootFree(p)
    BY <1>6
  <2>2. damaged = {} /\ arena' = arena /\ BootFreeBlock(p - HeaderSize)
    BY <2>1 DEF BootFree
  <2>3. heapUp
    BY DEF IInv, HeapInv
  <2>4. p - HeaderSize \in Starts /\ p - HeaderSize # arena
    BY <2>3, HeapFacts DEF Owned
  <2>. QED BY <1>1, <1>2, <2>2, <2>3, <2>4, CoalescedFree
<1>7. CASE \E p \in released : BootFreeAgain(p)
  <2>1. hdr' = hdr /\ UNCHANGED <<damaged, arena>>
    BY <1>7, IInvFreeAgain DEF BootFreeAgain
  <2>. QED BY <1>3, <2>1
<1>8. CASE \E p \in DOMAIN live : Overrun(p)
  BY <1>8 DEF Overrun
<1>9. CASE BootHeapInit
  <2>1. PICK r \in Regions :
          LET end == r - BootStackSize - HeaderSize
          IN  IF r <= 0 \/ r < BootStackSize \/ end < 0
              THEN UNCHANGED <<heapUp, arena, hdr>>
              ELSE /\ heapUp' = TRUE
                   /\ arena' = end
                   /\ hdr' = [a \in {0, end} |->
                                IF a = end
                                THEN [free |-> FALSE, prevSize |-> end, size |-> 0]
                                ELSE [free |-> TRUE, prevSize |-> 0, size |-> end]]
    BY <1>9 DEF BootHeapInit
  <2>2. CASE UNCHANGED <<heapUp, arena, hdr>>
    BY <1>3, <1>9, <2>2 DEF BootHeapInit
  <2>3. CASE ~UNCHANGED <<heapUp, arena, hdr>>
    <3> DEFINE end == r - BootStackSize - HeaderSize
    <3>1. end \in Int
      BY HeapAssumption
    <3> HIDE DEF end
    <3>2. /\ arena' = end
          /\ hdr' = [a \in {0, end} |->
                       IF a = end
                       THEN [free |-> FALSE, prevSize |-> end, size |-> 0]
                       ELSE [free |-> TRUE, prevSize |-> 0, size |-> end]]
      BY <2>1, <2>3 DEF end
    <3>3. x = 0 /\ hdr'[x].size = end /\ hdr'[end].free = FALSE
      BY <3>2
    <3>. QED BY <3>1, <3>2, <3>3
  <2>. QED BY <2>2, <2>3
<1>. QED BY <1>4, <1>5, <1>6, <1>7, <1>8, <1>9 DEF Next

(* While no header is destroyed, BootFree never leaves two free blocks     *)
(* side by side, whatever order the blocks are given back in (heap.c).     *)
THEOREM CoalescedHolds == Spec => []Coalesced
<1>1. Init => Coalesced
  BY DEF Init, Coalesced
<1>2. Spec => []IInv
  BY IInvHolds
<1>. QED BY <1>1, <1>2, CoalescedNext, PTL DEF Spec

LEMMA IInvDisjoint == IInv => LiveDisjoint
<1> SUFFICES ASSUME IInv, NEW p \in DOMAIN live
             PROVE  /\ p + live[p] <= arena
                    /\ \A q \in DOMAIN live : p < q => p + live[p] <= q - HeaderSize
                    /\ \A a \in Starts : a >= p => p + live[p] <= a
  BY DEF LiveDisjoint
<1>1. heapUp /\ TypeOK
  BY DEF IInv, HeapInv
<1>2. p \in Nat /\ live[p] \in Nat /\ HeaderSize \in Nat \ {0}
  BY <1>1, HeapFacts DEF TypeOK
<1>3. ASSUME NEW t \in Starts, t > p - HeaderSize
      PROVE  t >= p + live[p]
  <2>1. t <= p - HeaderSize \/ t >= p + live[p]
    BY <1>1, HeapFacts DEF Owned
  <2>2. t \in Nat
    BY <1>1, HeapFacts
  <2>. QED BY <2>1, <2>2, <1>2, <1>3
<1>4. p + live[p] <= arena
  <2>1. p - HeaderSize \in Starts \ {arena} /\ Starts \subseteq 0 .. arena
        /\ arena \in Starts /\ arena \in Nat
    BY <1>1, HeapFacts DEF Owned
  <2>2. arena > p - HeaderSize
    BY <2>1, <1>2
  <2>. QED BY <2>1, <2>2, <1>2, <1>3
<1>5. ASSUME NEW q \in DOMAIN live, p < q
      PROVE  p + live[p] <= q - HeaderSize
  <2>1. q - HeaderSize \in Starts /\ q \in Nat
    BY <1>1, HeapFacts DEF Owned, TypeOK
  <2>2. q - HeaderSize > p - HeaderSize
    BY <2>1, <1>2, <1>5
  <2>. QED BY <2>1, <2>2, <1>2, <1>3
<1>6. ASSUME NEW a \in Starts, a >= p
      PROVE  p + live[p] <= a
  <2>1. a \in Nat
    BY <1>1, HeapFacts
  <2>. QED BY <2>1, <1>2, <1>3, <1>6
<1>. QED BY <1>4, <1>5, <1>6

(* No two blocks the clients own overlap, and no header lies inside one,   *)
(* for every heap and every set of request sizes (BootAlloc, BootFree).    *)
THEOREM LiveDisjointHolds == Spec => []LiveDisjoint
<1>1. Spec => []IInv
  BY IInvHolds
<1>. QED BY <1>1, IInvDisjoint, PTL

LEMMA HandsOutFresh ==
  ASSUME IInv, BootAllocSplit \/ BootAllocWhole
  PROVE  \E p \in (0 .. arena) \ DOMAIN live :
           live' = [q \in DOMAIN live \cup {p} |-> IF q = p THEN asked ELSE live[q]]
<1>0. heapUp /\ SearchInv /\ TypeOK /\ pc = "walk"
  BY DEF IInv, HeapInv, SearchInv, BootAllocSplit, BootAllocWhole
<1>1. /\ cursor \in DOMAIN hdr /\ cursor # arena /\ hdr[cursor].free
      /\ hdr[cursor].size >= want /\ cursor \in Nat /\ hdr[cursor].size \in Nat
  <2>1. Intact(cursor) /\ hdr[cursor].size # 0 /\ Fits(cursor)
    BY DEF BootAllocSplit, BootAllocWhole
  <2>2. hdr[cursor] \in Header /\ cursor \in Nat
    BY <2>1, <1>0 DEF Intact, TypeOK
  <2>3. EndMarker(hdr)
    BY <1>0, HeapFacts
  <2>. QED BY <2>1, <2>2, <2>3 DEF Intact, Fits, EndMarker, Header
<1>2. /\ cursor + hdr[cursor].size \in Starts
      /\ \A t \in Starts : t <= cursor \/ t >= cursor + hdr[cursor].size
  BY <1>0, <1>1, HeapFacts DEF ForwardLinks
<1>3. asked \in Nat /\ want \in Nat /\ want >= asked + HeaderSize /\ want > 0
  BY <1>0, SearchFacts, HeapFacts
<1>4. PICK b \in Nat : /\ HandOut(b + HeaderSize) /\ cursor <= b
                       /\ b + want <= cursor + hdr[cursor].size
  <2>1. CASE BootAllocWhole
    BY <2>1, <1>1, <1>3 DEF BootAllocWhole
  <2>2. CASE BootAllocSplit
    <3>1. HandOut(cursor + Rest(cursor) + HeaderSize) /\ Rest(cursor) >= HeaderSize + MinPayload
      BY <2>2 DEF BootAllocSplit, Divides
    <3>2. Rest(cursor) = hdr[cursor].size - want /\ Rest(cursor) \in Nat
      BY <3>1, <1>1, <1>3, HeapAssumption DEF Rest
    <3>. QED BY <3>1, <3>2, <1>1, <1>3
  <2>. QED BY <2>1, <2>2
<1>5. b + HeaderSize \notin DOMAIN live
  <2> SUFFICES ASSUME b + HeaderSize \in DOMAIN live PROVE FALSE
    OBVIOUS
  <2>1. (b + HeaderSize) - HeaderSize = b
    BY <1>0, HeapFacts
  <2>2. b \in Starts /\ (b \in DOMAIN hdr => ~hdr[b].free)
    BY <2>1, <1>0, HeapFacts DEF Owned
  <2>3. b <= cursor
    BY <2>2, <1>1, <1>2, <1>3, <1>4
  <2>. QED BY <2>2, <2>3, <1>1, <1>4
<1>6. b + HeaderSize \in 0 .. arena
  <2>1. cursor + hdr[cursor].size <= arena /\ arena \in Nat /\ HeaderSize \in Nat
    BY <1>0, <1>2, HeapFacts
  <2>. QED BY <2>1, <1>1, <1>3, <1>4
<1>7. live' = [q \in DOMAIN live \cup {b + HeaderSize} |->
                 IF q = b + HeaderSize THEN asked ELSE live[q]]
  BY <1>4 DEF HandOut
<1>. QED BY <1>5, <1>6, <1>7

(* Where each step outside the search starts, and what it leaves alone.    *)
LEMMA PcOfSteps ==
  /\ BootHeapInit => pc = "boot" /\ live' = live
  /\ \A n \in Requests : BootAllocRefused(n) => pc' = pc /\ live' = live
  /\ \A n \in Requests : BootAllocBegin(n) => pc = "idle" /\ live' = live
  /\ BootAllocNext => pc' = pc /\ live' = live
  /\ BootAllocFail => live' = live
  /\ \A p \in DOMAIN live : BootFree(p) => pc = "idle"
  /\ \A p \in released : BootFreeAgain(p) => pc = "idle" /\ live' = live
  /\ BootFreeNull => pc' = pc /\ live' = live
  /\ \A p \in DOMAIN live : Overrun(p) => pc = "idle" /\ live' = live
<1>1. BootHeapInit => pc = "boot" /\ live' = live
  BY DEF BootHeapInit
<1>2. \A n \in Requests : BootAllocRefused(n) => pc' = pc /\ live' = live
  BY DEF BootAllocRefused, vars
<1>3. \A n \in Requests : BootAllocBegin(n) => pc = "idle" /\ live' = live
  BY DEF BootAllocBegin
<1>4. BootAllocNext => pc' = pc /\ live' = live
  BY DEF BootAllocNext
<1>5. BootAllocFail => live' = live
  BY DEF BootAllocFail
<1>6. \A p \in DOMAIN live : BootFree(p) => pc = "idle"
  BY DEF BootFree
<1>7. \A p \in released : BootFreeAgain(p) => pc = "idle" /\ live' = live
  BY DEF BootFreeAgain
<1>8. BootFreeNull => pc' = pc /\ live' = live
  BY DEF BootFreeNull, vars
<1>9. \A p \in DOMAIN live : Overrun(p) => pc = "idle" /\ live' = live
  BY DEF Overrun
<1>. QED BY <1>1, <1>2, <1>3, <1>4, <1>5, <1>6, <1>7, <1>8, <1>9

(* BootAlloc fails on an intact heap only when no free block would do.     *)
THEOREM FailOnlyWhenFullHolds == Spec => FailOnlyWhenFull
<1>1. ASSUME IInv, [Next]_vars,
             pc = "walk", pc' = "idle", live' = live, damaged = {}
      PROVE  \A a \in DOMAIN hdr : ~(hdr[a].free /\ hdr[a].size >= want)
  <2>0. heapUp /\ SearchInv /\ TypeOK /\ HeapInv /\ Starts = DOMAIN hdr
    BY <1>1 DEF IInv, HeapInv, SearchInv, Starts
  <2>1. ~(BootAllocSplit \/ BootAllocWhole)
    <3> SUFFICES ASSUME BootAllocSplit \/ BootAllocWhole PROVE FALSE
      OBVIOUS
    <3>1. PICK p \in (0 .. arena) \ DOMAIN live :
            live' = [q \in DOMAIN live \cup {p} |-> IF q = p THEN asked ELSE live[q]]
      BY <1>1, HandsOutFresh
    <3>2. p \in DOMAIN live'
      BY <3>1
    <3>. QED BY <1>1, <3>1, <3>2
  <2>2. BootAllocFail
    BY <1>1, <2>1, PcOfSteps DEF Next, vars
  <2>3. cursor \in DOMAIN hdr
    BY <1>1, <2>0 DEF SearchInv
  <2>4. CASE cursor # arena
    <3>1. hdr[cursor].size >= HeaderSize /\ After(cursor) \in DOMAIN hdr
      BY <1>1, <2>0, <2>3, <2>4, HeapFacts DEF ForwardLinks, After
    <3>. QED BY <3>1, <1>1, <2>0, <2>2, <2>3, HeapFacts DEF BootAllocFail, StopsWithNull, Intact, Header
  <2>5. CASE cursor = arena
    <3> SUFFICES ASSUME NEW a \in DOMAIN hdr PROVE ~Fits(a)
      BY DEF Fits
    <3>1. a \in Nat /\ a <= arena /\ arena \in Nat
      BY <1>1, <2>0, HeapFacts
    <3>2. CASE a = arena
      BY <3>2, <1>1, <2>0, HeapFacts DEF EndMarker, Fits
    <3>3. CASE a < arena
      BY <3>3, <2>5, <1>1, <2>0 DEF SearchInv
    <3>. QED BY <3>1, <3>2, <3>3
  <2>. QED BY <2>4, <2>5
<1>2. IInv /\ [Next]_vars =>
        [pc = "walk" /\ pc' = "idle" /\ live' = live /\ damaged = {}
           => \A a \in DOMAIN hdr : ~(hdr[a].free /\ hdr[a].size >= want)]_vars
  BY <1>1
<1>3. Spec => []IInv
  BY IInvHolds
<1>. QED BY <1>2, <1>3, PTL DEF Spec, FailOnlyWhenFull

(* BootFree of a block that was freed before changes no header.            *)
THEOREM DoubleFreeHarmlessHolds == Spec => DoubleFreeHarmless
<1>1. IInv /\ [Next]_vars => [(\E p \in released : BootFreeAgain(p)) => hdr' = hdr]_vars
  BY IInvFreeAgain
<1>2. Spec => []IInv
  BY IInvHolds
<1>. QED BY <1>1, <1>2, PTL DEF Spec, DoubleFreeHarmless

-----------------------------------------------------------------------------
(* Every call of heap.c is a step of the abstract allocator or changes     *)
(* nothing the clients own: the heap implements BlockAllocator.            *)
THEOREM ImplementsAllocator == Spec => AllocatorSpec
<1>1. Init => Allocator!Init
  BY DEF Init, Allocator!Init
<1>2. ASSUME IInv, IInv', [Next]_vars
      PROVE  [Allocator!Next]_live
  <2>1. CASE BootAllocSplit \/ BootAllocWhole
    <3>1. PICK p \in (0 .. arena) \ DOMAIN live :
            live' = [q \in DOMAIN live \cup {p} |-> IF q = p THEN asked ELSE live[q]]
      BY <1>2, <2>1, HandsOutFresh
    <3>2. heapUp /\ SearchInv /\ asked \in Requests /\ TypeOK /\ LiveDisjoint'
      <4>1. pc = "walk"
        BY <2>1 DEF BootAllocSplit, BootAllocWhole
      <4>2. IInv' => LiveDisjoint'
        BY IInvDisjoint, PTL
      <4>. QED BY <1>2, <4>1, <4>2 DEF IInv, HeapInv, SearchInv
    <3>3. p \in (0 .. (WordSize - 1)) \ DOMAIN live
      <4>1. arena < WordSize /\ arena \in Nat /\ WordSize \in Nat
        BY <1>2, <3>2, HeapFacts, HeapAssumption
      <4>. QED BY <4>1, <3>1
    <3>4. ASSUME NEW q \in DOMAIN live
          PROVE  Allocator!Disjoint(p, asked, q, live[q])
      <4>1. q # p /\ live'[p] = asked /\ live'[q] = live[q]
            /\ p \in DOMAIN live' /\ q \in DOMAIN live'
        BY <3>1, <3>4
      <4>2. p \in Nat /\ q \in Nat /\ asked \in Nat /\ live[q] \in Nat /\ HeaderSize \in Nat
        BY <1>2, <3>1, <3>2, <3>4, HeapFacts DEF TypeOK
      <4>3. /\ p < q => p + asked <= q - HeaderSize
            /\ q < p => q + live[q] <= p - HeaderSize
        BY <3>2, <4>1 DEF LiveDisjoint
      <4>. QED BY <4>1, <4>2, <4>3 DEF Allocator!Disjoint
    <3>5. Allocator!Alloc(asked)
      <4>1. p \in DOMAIN live' \ DOMAIN live
        BY <3>1
      <4>. QED BY <3>1, <3>3, <3>4, <4>1 DEF Allocator!Alloc
    <3>. QED BY <3>2, <3>5 DEF Allocator!Next
  <2>2. CASE \E p \in DOMAIN live : BootFree(p)
    BY <2>2 DEF BootFree, Restrict, Allocator!Next, Allocator!Free, Allocator!Restrict
  <2>3. CASE ~(BootAllocSplit \/ BootAllocWhole) /\ ~(\E p \in DOMAIN live : BootFree(p))
    BY <1>2, <2>3, PcOfSteps DEF Next, vars
  <2>. QED BY <2>1, <2>2, <2>3
<1>3. Spec => []IInv
  BY IInvHolds
<1>. QED BY <1>1, <1>2, <1>3, PTL DEF Spec, AllocatorSpec, Allocator!Spec
=============================================================================
