---------------------------- MODULE WecBootProofs ----------------------------
(***************************************************************************)
(* Theorems about a boot of wecloader, for every disk, every store image,  *)
(* every order of its records and every menu.  What runs was placed whole, *)
(* every state returns its handles, and a store download that reports      *)
(* success has filled every segment: these share one inductive invariant,  *)
(* which says for each place what is held, what will be returned and what  *)
(* is loaded.  Saving the settings spares the image next to them.  The     *)
(* clock and the countdown of the menu are right (ClockInv).               *)
(***************************************************************************)
EXTENDS WecBoot, SequenceTheorems, TLAPS

Fresh == {"POWERON", "CONFIG", "menu.open", "DOWNLOAD", "PRELOAD",
          "LOAD_ULDR", "LOAD_OS"}
MenuPlaces == {"menu.time", "menu.poll", "menu.end", "menu", "menu.close"}
PreRead == {"pre.part", "pre.read"}
PrePlaces == PreRead \cup {"pre.clean"}
UldrPlaces == {"uldr.part", "uldr.load", "uldr.clean"}
OsPlaces == {"os.part", "os.load", "os.fat", "os.file", "os.nk", "os.clean"}
StoreLoop == {"store.data", "store.segment", "store.write"}
StorePlaces == StoreLoop \cup {"store.format", "store.clean"}
Ended == {"FAILURE", "RUN", "running"}
Places == Fresh \cup MenuPlaces \cup PrePlaces \cup UldrPlaces \cup OsPlaces
          \cup {"down.init", "down.type", "ram.data", "down.clean"}
          \cup StorePlaces \cup Ended

(* What is open at each place.                                             *)
HeldInv ==
  /\ pc \in Fresh => held = {}
  /\ pc \in MenuPlaces => held \subseteq {"terminal"}
  /\ pc \in PrePlaces => held \subseteq {"partition", "block"}
  /\ pc \in UldrPlaces => held \subseteq {"block", "uldr partition"}
  /\ pc \in OsPlaces => held \subseteq {"file", "fat", "partition", "block"}
  /\ pc = "down.init" => held = {"transport"}
  /\ pc \in {"down.type", "ram.data"} => held = {"transport", "download"}
  /\ pc \in StorePlaces =>
       /\ "download" \in held
       /\ held \subseteq {"transport", "download", "block", "segment"}
  /\ pc = "down.clean" =>
       /\ held \subseteq {"transport", "download"}
       /\ "download" \in held \/ rc = "FAILURE"
  /\ pc \in Ended => held \subseteq {"transport", "uldr partition"}

(* What the state is going to return.                                      *)
ResultInv ==
  /\ pc \in Places
  /\ pc \in PreRead => rc = "LOAD_OS"
  /\ pc = "pre.clean" => rc \in {"LOAD_OS", "LOAD_ULDR"}
  /\ pc \in {"uldr.clean", "os.clean"} => rc \in {"FAILURE", "RUN"}
  /\ pc = "down.clean" => rc \in {"FAILURE", "RUN", "PRELOAD"}
  /\ pc = "store.clean" => rc \in {"FAILURE", "PRELOAD"}
  /\ pc \notin PrePlaces \cup {"uldr.clean", "os.clean", "down.clean", "store.clean"}
       => rc = "FAILURE"

(* What is in memory.                                                      *)
Ready ==
  \/ runAddress # "0" /\ runAddress = placed
  \/ runAddress = "0" /\ launch # "0" /\ launch = placed

PlacedInv ==
  /\ pc = "running" => runAddress # "0" /\ runAddress = placed
  /\ pc = "RUN" \/ rc = "RUN" => Ready
  /\ pc \notin {"RUN", "running"} /\ rc # "RUN" => runAddress = "0"

(* What is on the disk: the first n records are where they belong.         *)
Landed(n) == \A i \in 1 .. n : order[i].sector \in part[order[i].segment]

StoreInv ==
  /\ DOMAIN part = Segment
  /\ pc \in StoreLoop =>
       order \in Orders /\ \A s \in Segment : part[s] \subseteq Need[s]
  /\ pc = "store.data" =>
       next \in 0 .. Len(order) /\ sectors = next /\ Landed(next)
  /\ pc \in {"store.segment", "store.write"} =>
       next \in 1 .. Len(order) /\ sectors = next - 1 /\ Landed(next - 1)
  /\ pc \in {"store.data", "store.segment"} => open = segment
  /\ pc = "store.write" => open = Record.segment
  /\ pc = "store.write" => segment = open
  /\ StoreWhole

IInv == HeldInv /\ ResultInv /\ PlacedInv /\ StoreInv

-----------------------------------------------------------------------------
USE DEF Fresh, MenuPlaces, PreRead, PrePlaces, UldrPlaces, OsPlaces, StoreLoop,
        StorePlaces, Ended, Places, Goes, Opens

(* The power on state.                                                     *)
LEMMA IInvInit == Init => IInv
  BY BootAssumption
  DEF Init, ConfigInit, IInv, HeldInv, ResultInv, PlacedInv, Ready, StoreInv,
      StoreWhole, Whole

(* The three loads and PRELOAD.                                            *)
LEMMA LoadsKeep == IInv /\ Loads => IInv'
<1> SUFFICES ASSUME IInv, Loads PROVE IInv'
  OBVIOUS
<1> USE DEF IInv, Quiet, Loading, clockVars, configVars, menuVars, loadVars,
        storeVars, runVars, downVars, Fails
<1>1. CASE PreLoad
  <2>1. HeldInv' /\ ResultInv'
    <3>1. CASE settings.update
      BY <1>1, <3>1 DEF PreLoad, HeldInv, ResultInv
    <3>2. CASE ~settings.update
      <4>1. /\ pc = "PRELOAD" /\ rc' = "LOAD_OS"
            /\ Opens("block", "pre.part") \/ Goes("pre.clean")
        BY <1>1, <3>2 DEF PreLoad
      <4>2. held = {}
        BY <4>1 DEF HeldInv
      <4> QED  BY <4>1, <4>2 DEF HeldInv, ResultInv
    <3> QED  BY <3>1, <3>2
  <2>2. PlacedInv'
    BY <1>1 DEF PreLoad, PlacedInv, ResultInv, Ready
  <2>3. StoreInv'
    BY <1>1 DEF PreLoad, StoreInv, StoreWhole, Whole, Landed, Record
  <2> QED  BY <2>1, <2>2, <2>3
<1>2. CASE PreLoadPartition
  <2>1. HeldInv' /\ ResultInv'
    BY <1>2 DEF PreLoadPartition, HeldInv, ResultInv
  <2>2. PlacedInv'
    BY <1>2 DEF PreLoadPartition, PlacedInv, ResultInv, Ready
  <2>3. StoreInv'
    BY <1>2 DEF PreLoadPartition, StoreInv, StoreWhole, Whole, Landed, Record
  <2> QED  BY <2>1, <2>2, <2>3
<1>3. CASE PreLoadRead
  <2>1. HeldInv' /\ ResultInv'
    BY <1>3 DEF PreLoadRead, HeldInv, ResultInv
  <2>2. PlacedInv'
    BY <1>3 DEF PreLoadRead, PlacedInv, ResultInv, Ready
  <2>3. StoreInv'
    BY <1>3 DEF PreLoadRead, StoreInv, StoreWhole, Whole, Landed, Record
  <2> QED  BY <2>1, <2>2, <2>3
<1>4. CASE PreLoadCleanUp
  <2>1. HeldInv' /\ ResultInv'
    BY <1>4 DEF PreLoadCleanUp, PreLoadCloses, HeldInv, ResultInv
  <2>2. PlacedInv'
    BY <1>4 DEF PreLoadCleanUp, PreLoadCloses, PlacedInv, ResultInv, Ready
  <2>3. StoreInv'
    BY <1>4 DEF PreLoadCleanUp, PreLoadCloses, StoreInv, StoreWhole, ResultInv
  <2> QED  BY <2>1, <2>2, <2>3
<1>5. CASE LoadUldr
  <2>1. HeldInv' /\ ResultInv'
    BY <1>5 DEF LoadUldr, HeldInv, ResultInv
  <2>2. PlacedInv'
    BY <1>5 DEF LoadUldr, PlacedInv, ResultInv, Ready
  <2>3. StoreInv'
    BY <1>5 DEF LoadUldr, StoreInv, StoreWhole, Whole, Landed, Record
  <2> QED  BY <2>1, <2>2, <2>3
<1>6. CASE LoadUldrPartition
  <2>1. HeldInv' /\ ResultInv'
    BY <1>6 DEF LoadUldrPartition, HeldInv, ResultInv
  <2>2. PlacedInv'
    BY <1>6 DEF LoadUldrPartition, PlacedInv, ResultInv, Ready
  <2>3. StoreInv'
    BY <1>6 DEF LoadUldrPartition, StoreInv, StoreWhole, Whole, Landed, Record
  <2> QED  BY <2>1, <2>2, <2>3
<1>7. CASE LoadUldrImage
  <2>1. HeldInv' /\ ResultInv'
    BY <1>7 DEF LoadUldrImage, Placed, LoadFails, HeldInv, ResultInv
  <2>2. PlacedInv'
    BY <1>7 DEF LoadUldrImage, Placed, LoadFails, PlacedInv, ResultInv, Ready
  <2>3. StoreInv'
    BY <1>7 DEF LoadUldrImage, Placed, LoadFails, StoreInv, StoreWhole, Whole, Landed, Record
  <2> QED  BY <2>1, <2>2, <2>3
<1>8. CASE LoadUldrCleanUp
  <2>1. HeldInv' /\ ResultInv'
    BY <1>8 DEF LoadUldrCleanUp, HeldInv, ResultInv
  <2>2. PlacedInv'
    BY <1>8 DEF LoadUldrCleanUp, PlacedInv, ResultInv, Ready
  <2>3. StoreInv'
    BY <1>8 DEF LoadUldrCleanUp, StoreInv, StoreWhole, ResultInv
  <2> QED  BY <2>1, <2>2, <2>3
<1>9. CASE LoadOs
  <2>1. HeldInv' /\ ResultInv'
    BY <1>9 DEF LoadOs, HeldInv, ResultInv
  <2>2. PlacedInv'
    BY <1>9 DEF LoadOs, PlacedInv, ResultInv, Ready
  <2>3. StoreInv'
    BY <1>9 DEF LoadOs, StoreInv, StoreWhole, Whole, Landed, Record
  <2> QED  BY <2>1, <2>2, <2>3
<1>10. CASE LoadOsPartition
  <2>1. HeldInv' /\ ResultInv'
    BY <1>10 DEF LoadOsPartition, HeldInv, ResultInv
  <2>2. PlacedInv'
    BY <1>10 DEF LoadOsPartition, PlacedInv, ResultInv, Ready
  <2>3. StoreInv'
    BY <1>10 DEF LoadOsPartition, StoreInv, StoreWhole, Whole, Landed, Record
  <2> QED  BY <2>1, <2>2, <2>3
<1>11. CASE LoadOsImage
  <2>1. HeldInv' /\ ResultInv'
    BY <1>11 DEF LoadOsImage, Placed, LoadFails, HeldInv, ResultInv
  <2>2. PlacedInv'
    BY <1>11 DEF LoadOsImage, Placed, LoadFails, PlacedInv, ResultInv, Ready
  <2>3. StoreInv'
    BY <1>11 DEF LoadOsImage, Placed, LoadFails, StoreInv, StoreWhole, Whole, Landed, Record
  <2> QED  BY <2>1, <2>2, <2>3
<1>12. CASE LoadOsFat
  <2>1. HeldInv' /\ ResultInv'
    BY <1>12 DEF LoadOsFat, HeldInv, ResultInv
  <2>2. PlacedInv'
    BY <1>12 DEF LoadOsFat, PlacedInv, ResultInv, Ready
  <2>3. StoreInv'
    BY <1>12 DEF LoadOsFat, StoreInv, StoreWhole, Whole, Landed, Record
  <2> QED  BY <2>1, <2>2, <2>3
<1>13. CASE LoadOsFile
  <2>1. HeldInv' /\ ResultInv'
    BY <1>13 DEF LoadOsFile, HeldInv, ResultInv
  <2>2. PlacedInv'
    BY <1>13 DEF LoadOsFile, PlacedInv, ResultInv, Ready
  <2>3. StoreInv'
    BY <1>13 DEF LoadOsFile, StoreInv, StoreWhole, Whole, Landed, Record
  <2> QED  BY <2>1, <2>2, <2>3
<1>14. CASE LoadOsNk
  <2>1. HeldInv' /\ ResultInv'
    BY <1>14 DEF LoadOsNk, Placed, LoadFails, HeldInv, ResultInv
  <2>2. PlacedInv'
    BY <1>14 DEF LoadOsNk, Placed, LoadFails, PlacedInv, ResultInv, Ready
  <2>3. StoreInv'
    BY <1>14 DEF LoadOsNk, Placed, LoadFails, StoreInv, StoreWhole, Whole, Landed, Record
  <2> QED  BY <2>1, <2>2, <2>3
<1>15. CASE LoadOsCleanUp
  <2>1. HeldInv' /\ ResultInv'
    BY <1>15 DEF LoadOsCleanUp, HeldInv, ResultInv
  <2>2. PlacedInv'
    BY <1>15 DEF LoadOsCleanUp, PlacedInv, ResultInv, Ready
  <2>3. StoreInv'
    BY <1>15 DEF LoadOsCleanUp, StoreInv, StoreWhole, ResultInv
  <2> QED  BY <2>1, <2>2, <2>3
<1> QED  BY <1>1, <1>2, <1>3, <1>4, <1>5, <1>6, <1>7, <1>8, <1>9, <1>10, <1>11, <1>12, <1>13, <1>14, <1>15 DEF Loads

(* The download.                                                           *)
LEMMA DownloadsKeep == IInv /\ Downloads => IInv'
<1> SUFFICES ASSUME IInv, Downloads PROVE IInv'
  OBVIOUS
<1> USE DEF IInv, Quiet, Loading, clockVars, configVars, menuVars, loadVars,
        storeVars, runVars, downVars, Fails
<1>1. CASE Download
  <2>1. HeldInv' /\ ResultInv'
    BY <1>1 DEF Download, HeldInv, ResultInv
  <2>2. PlacedInv'
    BY <1>1 DEF Download, PlacedInv, ResultInv, Ready
  <2>3. StoreInv'
    BY <1>1 DEF Download, StoreInv, StoreWhole, Whole, Landed, Record
  <2> QED  BY <2>1, <2>2, <2>3
<1>2. CASE DownloadInit
  <2>1. HeldInv' /\ ResultInv'
    BY <1>2 DEF DownloadInit, HeldInv, ResultInv
  <2>2. PlacedInv'
    BY <1>2 DEF DownloadInit, PlacedInv, ResultInv, Ready
  <2>3. StoreInv'
    BY <1>2 DEF DownloadInit, StoreInv, StoreWhole, Whole, Landed, Record
  <2> QED  BY <2>1, <2>2, <2>3
<1>3. CASE Jump
  <2>1. HeldInv' /\ ResultInv'
    BY <1>3 DEF Jump, HeldInv, ResultInv
  <2>2. PlacedInv'
    BY <1>3 DEF Jump, PlacedInv, ResultInv, Ready
  <2>3. StoreInv'
    BY <1>3 DEF Jump, StoreInv, StoreWhole, Whole, Landed, Record
  <2> QED  BY <2>1, <2>2, <2>3
<1>4. CASE UnknownType
  <2>1. HeldInv' /\ ResultInv'
    BY <1>4 DEF UnknownType, HeldInv, ResultInv
  <2>2. PlacedInv'
    BY <1>4 DEF UnknownType, PlacedInv, ResultInv, Ready
  <2>3. StoreInv'
    BY <1>4 DEF UnknownType, StoreInv, StoreWhole, Whole, Landed, Record
  <2> QED  BY <2>1, <2>2, <2>3
<1>5. CASE RamImage
  <2>1. HeldInv' /\ ResultInv'
    BY <1>5 DEF RamImage, HeldInv, ResultInv
  <2>2. PlacedInv'
    BY <1>5 DEF RamImage, PlacedInv, ResultInv, Ready
  <2>3. StoreInv'
    BY <1>5 DEF RamImage, StoreInv, StoreWhole, Whole, Landed, Record
  <2> QED  BY <2>1, <2>2, <2>3
<1>6. CASE RamData
  <2>1. HeldInv' /\ ResultInv'
    BY <1>6 DEF RamData, HeldInv, ResultInv
  <2>2. PlacedInv'
    BY <1>6 DEF RamData, PlacedInv, ResultInv, Ready
  <2>3. StoreInv'
    BY <1>6 DEF RamData, StoreInv, StoreWhole, Whole, Landed, Record
  <2> QED  BY <2>1, <2>2, <2>3
<1>7. CASE RamDone
  <2>1. HeldInv' /\ ResultInv'
    BY <1>7 DEF RamDone, LastRecord, HeldInv, ResultInv
  <2>2. PlacedInv'
    BY <1>7 DEF RamDone, LastRecord, PlacedInv, ResultInv, Ready
  <2>3. StoreInv'
    BY <1>7 DEF RamDone, LastRecord, StoreInv, StoreWhole, Whole, Landed, Record
  <2> QED  BY <2>1, <2>2, <2>3
<1>8. CASE RamFails
  <2>1. HeldInv' /\ ResultInv'
    BY <1>8 DEF RamFails, HeldInv, ResultInv
  <2>2. PlacedInv'
    BY <1>8 DEF RamFails, PlacedInv, ResultInv, Ready
  <2>3. StoreInv'
    BY <1>8 DEF RamFails, StoreInv, StoreWhole, Whole, Landed, Record
  <2> QED  BY <2>1, <2>2, <2>3
<1>9. CASE StoreImage
  <2>1. HeldInv' /\ ResultInv'
    BY <1>9 DEF StoreImage, HeldInv, ResultInv
  <2>2. PlacedInv'
    BY <1>9 DEF StoreImage, PlacedInv, ResultInv, Ready
  <2>3. StoreInv'
    BY <1>9 DEF StoreImage, StoreInv, StoreWhole, Whole, Landed, Record
  <2> QED  BY <2>1, <2>2, <2>3
<1>10. CASE StoreFormat
  <2>1. HeldInv' /\ ResultInv'
    BY <1>10 DEF StoreFormat, Formatted, HeldInv, ResultInv
  <2>2. PlacedInv'
    BY <1>10 DEF StoreFormat, Formatted, PlacedInv, ResultInv, Ready
  <2>3. StoreInv'
    <3>1. part' = [t \in Segment |-> {}] /\ (pc' # "store.clean" \/ rc' # "PRELOAD")
      BY <1>10 DEF StoreFormat, Formatted, ResultInv
    <3>2. order' \in Orders => Len(order') \in Nat
      BY BootAssumption
    <3> QED  BY <1>10, <3>1, <3>2
             DEF StoreFormat, Formatted, StoreInv, StoreWhole, Landed, ResultInv
  <2> QED  BY <2>1, <2>2, <2>3
<1>11. CASE FormatFails
  <2>1. HeldInv' /\ ResultInv'
    BY <1>11 DEF FormatFails, HeldInv, ResultInv
  <2>2. PlacedInv'
    BY <1>11 DEF FormatFails, PlacedInv, ResultInv, Ready
  <2>3. StoreInv'
    BY <1>11 DEF FormatFails, StoreInv, StoreWhole, ResultInv
  <2> QED  BY <2>1, <2>2, <2>3
<1>12. CASE StoreData
  <2>1. HeldInv' /\ ResultInv'
    BY <1>12 DEF StoreData, Total, HeldInv, ResultInv
  <2>2. PlacedInv'
    BY <1>12 DEF StoreData, Total, PlacedInv, ResultInv, Ready
  <2>2a. Len(order) \in Nat
    BY <1>12, BootAssumption DEF StoreData, StoreInv
  <2>3. StoreInv'
    BY <1>12, <2>2a
    DEF StoreData, Total, StoreInv, StoreWhole, Landed, Record, ResultInv
  <2> QED  BY <2>1, <2>2, <2>3
<1>13. CASE StoreSegment
  <2>1. HeldInv' /\ ResultInv'
    <3>1. pc = "store.segment" /\ rc' = rc
      BY <1>13 DEF StoreSegment
    <3>2. CASE NewSegment
      <4>1. \/ pc' = "store.write" /\ held' = held \cup {"segment"}
            \/ pc' = "store.clean" /\ held' = held \ {"segment"}
        BY <1>13, <3>2 DEF StoreSegment
      <4> QED  BY <3>1, <4>1 DEF HeldInv, ResultInv
    <3>3. CASE ~NewSegment
      <4>1. pc' = "store.write" /\ held' = held
        BY <1>13, <3>3 DEF StoreSegment
      <4> QED  BY <3>1, <4>1 DEF HeldInv, ResultInv
    <3> QED  BY <3>2, <3>3
  <2>2. PlacedInv'
    BY <1>13 DEF StoreSegment, NewSegment, PlacedInv, ResultInv, Ready
  <2>3. StoreInv'
    <3>1. CASE NewSegment
      BY <1>13, <3>1
      DEF StoreSegment, StoreInv, StoreWhole, Landed, Record, ResultInv
    <3>2. CASE ~NewSegment
      BY <1>13, <3>2
      DEF StoreSegment, NewSegment, StoreInv, StoreWhole, Landed, Record, ResultInv
    <3> QED  BY <3>1, <3>2
  <2> QED  BY <2>1, <2>2, <2>3
<1>14. CASE StoreWrite
  <2>1. HeldInv' /\ ResultInv'
    BY <1>14 DEF StoreWrite, HeldInv, ResultInv
  <2>2. PlacedInv'
    BY <1>14 DEF StoreWrite, PlacedInv, ResultInv, Ready
  <2>3. StoreInv'
    <3>1. CASE UNCHANGED <<part, sectors>> /\ Goes("store.clean")
      BY <1>14, <3>1 DEF StoreWrite, StoreInv, StoreWhole, ResultInv
    <3>2. CASE /\ part' = [part EXCEPT ![open] = @ \cup {Record.sector}]
               /\ sectors' = sectors + 1 /\ Goes("store.data")
      <4>1. /\ order \in Orders /\ next \in 1 .. Len(order) /\ open = Record.segment
            /\ sectors = next - 1 /\ Landed(next - 1) /\ segment = open
            /\ DOMAIN part = Segment /\ \A t \in Segment : part[t] \subseteq Need[t]
        BY <1>14, <3>2 DEF StoreWrite, StoreInv
      <4>2. /\ Len(order) \in Nat /\ Record.sector \in Need[Record.segment]
            /\ \A i \in 1 .. Len(order) : order[i].segment \in Segment
        <5>1. order \in Seq([segment : Segment, sector : Nat])
          BY <4>1, BootAssumption
        <5>2. \A i \in 1 .. Len(order) : order[i] \in [segment : Segment, sector : Nat]
          BY <5>1, ElementOfSeq
        <5>3. Len(order) \in Nat
          BY <5>1
        <5>4. \A i \in 1 .. Len(order) :
                order[i].segment \in Segment /\ order[i].sector \in Need[order[i].segment]
          BY <4>1, <5>2, BootAssumption
        <5> QED  BY <4>1, <5>3, <5>4 DEF Record
      <4>3. DOMAIN part' = Segment /\ \A t \in Segment : part'[t] \subseteq Need[t]
        BY <3>2, <4>1, <4>2
      <4>4. order' = order /\ next' = next /\ segment' = segment /\ open' = open
        BY <1>14 DEF StoreWrite
      <4>5. Landed(next)'
        <5> SUFFICES ASSUME NEW i \in 1 .. next
                     PROVE  order[i].sector \in part'[order[i].segment]
          BY <4>4 DEF Landed
        <5>1. CASE i = next
          BY <5>1, <3>2, <4>1, <4>2 DEF Record
        <5>2. CASE i # next
          <6>1. i \in 1 .. (next - 1) /\ order[i].segment \in Segment
            BY <5>2, <4>1, <4>2
          <6> QED  BY <6>1, <3>2, <4>1 DEF Landed
        <5> QED  BY <5>1, <5>2
      <4> QED  BY <3>2, <4>1, <4>2, <4>3, <4>4, <4>5 DEF StoreInv, StoreWhole
    <3> QED  BY <1>14, <3>1, <3>2 DEF StoreWrite
  <2> QED  BY <2>1, <2>2, <2>3
<1>15. CASE StoreDone
  <2>1. HeldInv' /\ ResultInv'
    BY <1>15 DEF StoreDone, Total, HeldInv, ResultInv
  <2>2. PlacedInv'
    BY <1>15 DEF StoreDone, Total, PlacedInv, ResultInv, Ready
  <2>3. StoreInv'
    <3>1. /\ order \in Orders /\ sectors = next /\ next \in 0 .. Len(order)
          /\ Landed(next) /\ sectors >= Len(order)
          /\ \A t \in Segment : part[t] \subseteq Need[t]
      BY <1>15 DEF StoreDone, Total, StoreInv
    <3>2. Len(order) \in Nat
      BY <3>1, BootAssumption
    <3>3. next = Len(order)
      BY <3>1, <3>2
    <3>4. ASSUME NEW t \in Segment  PROVE Whole(t)
      <4>1. ASSUME NEW n \in Need[t]  PROVE n \in part[t]
        <5>1. PICK i \in 1 .. Len(order) : order[i] = [segment |-> t, sector |-> n]
          BY <3>1, BootAssumption
        <5>2. order[i].sector \in part[order[i].segment]
          BY <3>1, <3>3 DEF Landed
        <5> QED  BY <5>1, <5>2
      <4> QED  BY <3>1, <4>1 DEF Whole
    <3> QED  BY <1>15, <3>4 DEF StoreDone, StoreInv, StoreWhole, Whole
  <2> QED  BY <2>1, <2>2, <2>3
<1>16. CASE StoreCleanUp
  <2>1. HeldInv' /\ ResultInv'
    BY <1>16 DEF StoreCleanUp, HeldInv, ResultInv
  <2>2. PlacedInv'
    BY <1>16 DEF StoreCleanUp, PlacedInv, ResultInv, Ready
  <2>3. StoreInv'
    BY <1>16 DEF StoreCleanUp, StoreInv, StoreWhole, Whole, Landed, Record
  <2> QED  BY <2>1, <2>2, <2>3
<1>17. CASE DownloadCleanUp
  <2>1. HeldInv' /\ ResultInv'
    BY <1>17 DEF DownloadCleanUp, HeldInv, ResultInv
  <2>2. PlacedInv'
    BY <1>17 DEF DownloadCleanUp, PlacedInv, ResultInv, Ready
  <2>3. StoreInv'
    BY <1>17 DEF DownloadCleanUp, StoreInv, StoreWhole, ResultInv
  <2> QED  BY <2>1, <2>2, <2>3
<1> QED  BY <1>1, <1>2, <1>3, <1>4, <1>5, <1>6, <1>7, <1>8, <1>9, <1>10, <1>11, <1>12, <1>13, <1>14, <1>15, <1>16, <1>17 DEF Downloads

(* The settings, the menu and the clock leave everything else alone.       *)
LEMMA ConfigKeeps == IInv /\ Configure => IInv'
<1> SUFFICES ASSUME IInv, Configure PROVE IInv'
  OBVIOUS
<1> USE DEF IInv
<1>1. UNCHANGED <<rc, loadVars>>
  BY DEF Configure
<1>2. \/ pc \in {"CONFIG", "menu.open"} \cup MenuPlaces
  BY DEF Configure, ConfigStep, User, ConfigState, OpenTerminal, ReadClock,
         Counting, TakeTime, SameSecond, NextSecond, CountdownEnds,
         CloseTerminal, SelectDevice, SaveSettings, LeaveMenu, TimePasses
<1>3. /\ pc' \in {"LOAD_ULDR", "DOWNLOAD", "PRELOAD", "FAILURE", "menu.open"}
                 \cup MenuPlaces
      /\ HeldInv'
  <2>1. CASE ConfigState
    BY <2>1 DEF ConfigState, HeldInv
  <2>2. CASE OpenTerminal
    BY <2>2 DEF OpenTerminal, HeldInv, ByDevice
  <2>3. CASE CloseTerminal
    BY <2>3 DEF CloseTerminal, HeldInv, ByDevice
  <2>4. CASE TakeTime \/ SameSecond \/ NextSecond \/ CountdownEnds \/ LeaveMenu
    BY <2>4 DEF TakeTime, SameSecond, NextSecond, Round, CountdownEnds, LeaveMenu,
                HeldInv
  <2>5. CASE ReadClock \/ SelectDevice \/ SaveSettings \/ TimePasses
    BY <2>5 DEF ReadClock, Counting, SelectDevice, SaveSettings, TimePasses, HeldInv
  <2> QED  BY <2>1, <2>2, <2>3, <2>4, <2>5 DEF Configure, ConfigStep, User
<1>4. ResultInv'
  BY <1>1, <1>2, <1>3 DEF ResultInv
<1>5. PlacedInv'
  BY <1>1, <1>2, <1>3
  DEF PlacedInv, ResultInv, Ready, loadVars, runVars
<1>6. StoreInv'
  BY <1>1, <1>3 DEF StoreInv, StoreWhole, loadVars, storeVars
<1> QED  BY <1>3, <1>4, <1>5, <1>6

(* Power on and OEMBootRun.                                                *)
LEMMA EndsKeep == IInv /\ (PowerOn \/ Run) => IInv'
<1> SUFFICES ASSUME IInv, PowerOn \/ Run PROVE IInv'
  OBVIOUS
<1> USE DEF IInv, Quiet, Loading, loadVars, storeVars, runVars, downVars
<1>1. HeldInv' /\ ResultInv'
  BY DEF PowerOn, Run, HeldInv, ResultInv
<1>2. PlacedInv'
  BY DEF PowerOn, Run, PlacedInv, ResultInv, Ready
<1>3. StoreInv'
  BY DEF PowerOn, Run, StoreInv, StoreWhole, Whole
<1> QED  BY <1>1, <1>2, <1>3

LEMMA IInvNext == IInv /\ [Next]_vars => IInv'
<1> SUFFICES ASSUME IInv, [Next]_vars PROVE IInv'
  OBVIOUS
<1>1. CASE Next
  BY <1>1, ConfigKeeps, EndsKeep, LoadsKeep, DownloadsKeep DEF Next, Boots
<1>2. CASE UNCHANGED vars
  <2>1. UNCHANGED <<pc, held, rc, part, runAddress, launch, placed, order, next,
                    segment, open, sectors>>
    BY <1>2 DEF vars, loadVars, storeVars, runVars, downVars
  <2>2. HeldInv'
    BY <2>1 DEF IInv, HeldInv
  <2>2a. ResultInv'
    BY <2>1 DEF IInv, ResultInv
  <2>3. PlacedInv'
    BY <2>1 DEF IInv, PlacedInv, Ready
  <2>4. StoreInv'
    <3>1. (Landed(next))' = Landed(next) /\ (Landed(next - 1))' = Landed(next - 1)
          /\ Record' = Record /\ StoreWhole' = StoreWhole
      BY <2>1 DEF Landed, Record, StoreWhole, Whole
    <3> QED  BY <2>1, <3>1 DEF IInv, StoreInv
  <2> QED  BY <2>2, <2>2a, <2>3, <2>4 DEF IInv
<1> QED  BY <1>1, <1>2

LEMMA IInvHolds == Spec => []IInv
  BY IInvInit, IInvNext, PTL DEF Spec

-----------------------------------------------------------------------------
(* The processor is sent only to an image that is whole in memory, whatever*)
(* failed on the way and whichever state placed it (run.c:104).            *)
THEOREM RunsWhatIsPlacedHolds == Spec => []RunsWhatIsPlaced
<1>1. IInv => RunsWhatIsPlaced
  BY DEF IInv, PlacedInv, RunsWhatIsPlaced
<1> QED  BY <1>1, IInvHolds, PTL

(* Each boot state starts with nothing open of the states before, save the *)
(* two handles that nothing comes after (drivers.c:243, loaduldr.c:34).    *)
THEOREM HandlesReturnedHolds == Spec => []HandlesReturned
<1>1. IInv => HandlesReturned
  BY DEF IInv, HeldInv, HandlesReturned, States
<1> QED  BY <1>1, IInvHolds, PTL

(* A store download that reports success has filled every segment, whatever*)
(* order the records come in (download.c:127-197).                         *)
THEOREM StoreWholeHolds == Spec => []StoreWhole
<1>1. IInv => StoreWhole
  BY DEF IInv, StoreInv
<1> QED  BY <1>1, IInvHolds, PTL

-----------------------------------------------------------------------------
(* Saving: the sector behind the data sectors, which the search may end at,*)
(* is no image, and a search that ends at an image is not written to.      *)
SectorInv ==
  /\ DOMAIN sector = 0 .. DataSectors
  /\ sector[DataSectors].kind # "image"

LEMMA WriteSparesImages ==
  ASSUME SectorInv, NEW s, Writable(sector),
         sector' = WriteConfigToDisk(sector, s)
  PROVE  /\ SectorInv'
         /\ \A i \in 0 .. DataSectors :
              sector[i].kind = "image" => sector'[i] = sector[i]
<1> DEFINE at == FoundAt(sector)
<1> DEFINE new == IF at = DataSectors THEN Plain("other")
                  ELSE Config([s EXCEPT !.update = FALSE])
<1>1. sector' = [sector EXCEPT ![at] = new]
  BY DEF WriteConfigToDisk
<1>2. new.kind # "image"
  BY DEF Plain, Config
<1>3. sector[at].kind # "image"
  BY DEF Writable, SectorInv
<1>4. DataSectors \in 0 .. DataSectors
  BY ConfigAssumption
<1> HIDE DEF at, new
<1> QED  BY <1>1, <1>2, <1>3, <1>4 DEF SectorInv

(* Only three steps write the data sectors.                                *)
LEMMA SectorSteps ==
  ASSUME [Next]_vars
  PROVE  \/ UNCHANGED sector
         \/ \E s : Writable(sector) /\ sector' = WriteConfigToDisk(sector, s)
         \/ /\ pc = "store.format"
            /\ sector' = [i \in 0 .. DataSectors |->
                            Plain(IF i = DataSectors THEN "fat" ELSE "other")]
<1> USE DEF Quiet, Loading, configVars
<1>1. CASE Configure
  BY <1>1 DEF Configure, ConfigStep, User, ConfigState, OpenTerminal, ReadClock,
              TakeTime, SameSecond, NextSecond, CountdownEnds, CloseTerminal,
              SelectDevice, SaveSettings, LeaveMenu, TimePasses
<1>2. CASE Loads
  BY <1>2 DEF Loads, PreLoad, PreLoadPartition, PreLoadRead, PreLoadCleanUp,
              Placed, LoadFails, LoadUldr, LoadUldrPartition, LoadUldrImage,
              LoadUldrCleanUp, LoadOs, LoadOsPartition, LoadOsImage, LoadOsFat,
              LoadOsFile, LoadOsNk, LoadOsCleanUp
<1>3. CASE StoreFormat
  BY <1>3 DEF StoreFormat, Formatted
<1>4. CASE StoreDone
  BY <1>4 DEF StoreDone
<1>5. CASE Downloads /\ ~StoreFormat /\ ~StoreDone
  BY <1>5 DEF Downloads, Download, DownloadInit, Jump, UnknownType, RamImage,
              RamData, RamDone, RamFails, StoreImage, FormatFails, StoreData,
              StoreSegment, StoreWrite, StoreCleanUp, DownloadCleanUp
<1>6. CASE PowerOn \/ Run
  BY <1>6 DEF PowerOn, Run
<1>7. CASE UNCHANGED vars
  BY <1>7 DEF vars
<1> QED  BY <1>1, <1>2, <1>3, <1>4, <1>5, <1>6, <1>7 DEF Next, Boots

(* Only formatting changes the sector where the image of the loader itself *)
(* begins; saving, by the user or after a download, does not (config.c:441).*)
THEOREM ImageKeptHolds == Spec => ImageKept
<1>1. Init => SectorInv
  BY ConfigAssumption DEF Init, ConfigInit, SectorInv
<1>2. SectorInv /\ [Next]_vars => SectorInv'
  <2> SUFFICES ASSUME SectorInv, [Next]_vars PROVE SectorInv'
    OBVIOUS
  <2>1. CASE UNCHANGED sector
    BY <2>1 DEF SectorInv
  <2>2. CASE \E s : Writable(sector) /\ sector' = WriteConfigToDisk(sector, s)
    BY <2>2, WriteSparesImages
  <2>3. CASE sector' = [i \in 0 .. DataSectors |->
                          Plain(IF i = DataSectors THEN "fat" ELSE "other")]
    BY <2>3, ConfigAssumption DEF SectorInv, Plain
  <2> QED  BY <2>1, <2>2, <2>3, SectorSteps
<1>3. SectorInv /\ [Next]_vars =>
        [pc # "store.format" =>
           \A i \in 0 .. DataSectors :
             sector[i].kind = "image" => sector'[i] = sector[i]]_sector
  <2> SUFFICES ASSUME SectorInv, [Next]_vars, pc # "store.format",
                      sector' # sector
               PROVE  \A i \in 0 .. DataSectors :
                        sector[i].kind = "image" => sector'[i] = sector[i]
    OBVIOUS
  <2>1. PICK s : Writable(sector) /\ sector' = WriteConfigToDisk(sector, s)
    BY SectorSteps
  <2> QED  BY <2>1, WriteSparesImages
<1> QED  BY <1>1, <1>2, <1>3, PTL DEF Spec, ImageKept
-----------------------------------------------------------------------------
(* The clock.  Arithmetic with a symbolic divisor first.                   *)
LEMMA DivMod ==
  ASSUME NEW a \in Nat, NEW n \in Nat \ {0}
  PROVE  /\ a \div n \in Nat /\ a % n \in 0 .. n - 1
         /\ a = n * (a \div n) + (a % n)
<1>1. PICK q \in Int : q = a \div n
  OBVIOUS
<1>2. PICK r \in 0 .. n - 1 : r = a % n
  OBVIOUS
<1>3. n * q <= a /\ a < n * q + n
  BY <1>1
<1>4. q \in Nat
  BY <1>3
<1>5. a = n * q + r
  BY <1>1, <1>2, <1>3
<1> QED
  BY <1>1, <1>2, <1>4, <1>5

LEMMA ModIs ==
  ASSUME NEW n \in Nat \ {0}, NEW q \in Nat, NEW r \in 0 .. n - 1
  PROVE  (n * q + r) % n = r
<1>1. PICK a \in Nat : a = n * q + r
  OBVIOUS
<1>2. PICK p \in Nat, s \in 0 .. n - 1 : s = a % n /\ a = n * p + s
  BY DivMod
<1>3. p = q
  BY <1>1, <1>2
<1> QED
  BY <1>1, <1>2, <1>3

LEMMA HourFacts ==
  /\ SecondsPerMinute \in Nat /\ SecondsPerMinute >= 2
  /\ MinutesPerHour \in Nat /\ MinutesPerHour >= 2
  /\ Hour \in Nat /\ Hour >= 4 /\ Wrap \in Nat \ {0}
<1>1. /\ SecondsPerMinute \in Nat /\ SecondsPerMinute >= 2
      /\ MinutesPerHour \in Nat /\ MinutesPerHour >= 2 /\ Wrap \in Nat \ {0}
  BY ClockAssumption
<1>2. SecondsPerMinute * MinutesPerHour >= 4 /\ SecondsPerMinute * MinutesPerHour \in Nat
  BY <1>1
<1> QED
  BY <1>1, <1>2 DEF Hour

LEMMA ZeroInRange ==
  /\ 0 \in 0 .. (Hour - 1) /\ 0 \in 0 .. (SecondsPerMinute - 1)
  /\ 0 \in 0 .. (MinutesPerHour - 1) /\ 0 \in 0 .. (Wrap - 1) /\ 0 \in 0 .. Count
BY HourFacts, ConfigAssumption

(* The registers hold the seconds of the hour.                             *)
LEMMA Registers ==
  ASSUME NEW t \in 0 .. (Hour - 1)
  PROVE  /\ t % SecondsPerMinute \in 0 .. (SecondsPerMinute - 1)
         /\ t \div SecondsPerMinute \in 0 .. (MinutesPerHour - 1)
         /\ (t \div SecondsPerMinute) * SecondsPerMinute + (t % SecondsPerMinute) = t
<1>1. PICK S \in Nat \ {0}, M \in Nat \ {0} :
        S = SecondsPerMinute /\ M = MinutesPerHour
  BY HourFacts
<1>2. t \in Nat /\ t < S * M
  BY <1>1, HourFacts DEF Hour
<1>3. PICK q \in Nat, r \in 0 .. S - 1 :
        q = t \div S /\ r = t % S /\ t = S * q + r
  <2>1. t \div S \in Nat /\ t % S \in 0 .. S - 1 /\ t = S * (t \div S) + (t % S)
    BY <1>2, DivMod
  <2> QED  BY <2>1
<1>4. q < M
  BY <1>2, <1>3
<1>5. q * S + r = t
  BY <1>3
<1> QED
  BY <1>1, <1>3, <1>4, <1>5

(* A tick shows in the second, also when the minute or the hour is full.   *)
LEMMA SecondAdvances ==
  ASSUME NEW t \in 0 .. (Hour - 1)
  PROVE  /\ (t + 1) % Hour \in 0 .. (Hour - 1)
         /\ ((t + 1) % Hour) % SecondsPerMinute # t % SecondsPerMinute
<1>1. PICK S \in Nat, M \in Nat, H \in Nat :
        S = SecondsPerMinute /\ M = MinutesPerHour /\ H = Hour
  BY HourFacts
<1>2. S >= 2 /\ M >= 2 /\ H >= 4 /\ H = S * M /\ t \in Nat /\ t < H
  BY <1>1, HourFacts DEF Hour
<1>2a. S \in Nat \ {0} /\ t \in Nat /\ 0 \in 0 .. S - 1 /\ 1 \in 0 .. S - 1
  BY <1>2
<1>3. PICK u \in 0 .. H - 1 : u = (t + 1) % H
  BY <1>2
<1>4. PICK q \in Nat, r \in 0 .. S - 1 : r = t % S /\ t = S * q + r
  <2>1. t \div S \in Nat /\ t % S \in 0 .. S - 1 /\ t = S * (t \div S) + (t % S)
    BY <1>2a, DivMod
  <2> QED  BY <2>1
<1>5. u % S # r
  <2>1. CASE t + 1 = H
    <3>1. u = 0
      <4>1. (H * 1 + 0) % H = 0
        BY <1>2, ModIs
      <4> QED  BY <4>1, <2>1, <1>2, <1>3
    <3>2. u % S = 0
      BY <3>1, <1>2
    <3>3. r # 0
      <4> SUFFICES ASSUME r = 0 PROVE FALSE
        OBVIOUS
      <4>1. S * q + 1 = S * M + 0
        BY <2>1, <1>2, <1>4
      <4>2. (S * q + 1) % S = 1 /\ (S * M + 0) % S = 0
        BY <1>2a, ModIs
      <4> QED  BY <4>1, <4>2
    <3> QED  BY <3>2, <3>3
  <2>2. CASE t + 1 # H
    <3>1. u = t + 1
      <4>1. t + 1 \in 0 .. H - 1
        BY <2>2, <1>2
      <4>2. (H * 0 + (t + 1)) % H = t + 1
        BY <4>1, <1>2, ModIs
      <4> QED  BY <4>2, <1>2, <1>3
    <3>2. CASE r + 1 < S
      <4>1. r + 1 \in 0 .. S - 1 /\ u = S * q + (r + 1)
        BY <3>1, <3>2, <1>2, <1>4
      <4>2. u % S = r + 1
        BY <4>1, <1>2, ModIs
      <4> QED  BY <4>2
    <3>3. CASE r + 1 = S
      <4>1. u = S * (q + 1) + 0 /\ q + 1 \in Nat /\ 0 \in 0 .. S - 1
        BY <3>1, <3>3, <1>2, <1>4
      <4>2. u % S = 0
        BY <4>1, <1>2, ModIs
      <4> QED  BY <4>2, <3>3, <1>2
    <3> QED  BY <3>2, <3>3, <1>2
  <2> QED  BY <2>1, <2>2
<1> QED
  BY <1>1, <1>3, <1>4, <1>5

(* Taking the difference over the hour recovers the ticks in between.      *)
LEMMA SinceIsElapsed ==
  ASSUME prevOffset \in 0 .. (Hour - 1), NEW u \in 0 .. (Hour - 1)
  PROVE  Since((prevOffset + u) % Hour) = u
<1>1. PICK p \in Nat, H \in Nat \ {0} : p = prevOffset /\ H = Hour
  BY HourFacts
<1>2. p < H /\ u \in Nat /\ u < H
  BY <1>1, HourFacts
<1>3. PICK o \in Int : o = (p + u) % H
  BY <1>2
<1>4. CASE p + u < H
  <2>1. (H * 0 + (p + u)) % H = p + u
    BY <1>2, <1>4, ModIs
  <2>2. o = p + u
    BY <2>1, <1>2, <1>3
  <2> QED  BY <2>2, <1>1, <1>2, <1>3 DEF Since
<1>5. CASE p + u >= H
  <2>1. (H * 1 + (p + u - H)) % H = p + u - H
    BY <1>2, <1>5, ModIs
  <2>2. o = p + u - H
    BY <2>1, <1>2, <1>3
  <2> QED  BY <2>2, <1>1, <1>2, <1>3 DEF Since
<1> QED
  BY <1>4, <1>5, <1>2
LEMMA SuccMod ==
  ASSUME NEW a \in Nat, NEW n \in Nat \ {0}
  PROVE  ((a % n) + 1) % n = (a + 1) % n
<1>1. PICK q \in Nat, r \in 0 .. n - 1 : r = a % n /\ a = n * q + r
  <2>1. a \div n \in Nat /\ a % n \in 0 .. n - 1 /\ a = n * (a \div n) + (a % n)
    BY DivMod
  <2> QED  BY <2>1
<1>2. CASE r + 1 < n
  <2>1. r + 1 \in 0 .. n - 1 /\ a + 1 = n * q + (r + 1) /\ r + 1 = n * 0 + (r + 1)
    BY <1>1, <1>2
  <2>2. (n * q + (r + 1)) % n = r + 1 /\ (n * 0 + (r + 1)) % n = r + 1
    BY <2>1, ModIs
  <2> QED  BY <1>1, <2>1, <2>2
<1>3. CASE r + 1 = n
  <2>1. a + 1 = n * (q + 1) + 0 /\ r + 1 = n * 1 + 0 /\ q + 1 \in Nat /\ 0 \in 0 .. n - 1
    BY <1>1, <1>3
  <2>2. (n * (q + 1) + 0) % n = 0 /\ (n * 1 + 0) % n = 0
    BY <2>1, ModIs
  <2> QED  BY <1>1, <2>1, <2>2
<1> QED  BY <1>1, <1>2, <1>3

-----------------------------------------------------------------------------
(* The clock while the countdown runs.  Before the first call of a         *)
(* countdown there is no base to count from.                               *)
Based == pc = "menu.poll" \/ count < Count

(* A value that was read agrees with the clock as long as no tick came.    *)
ReadInv ==
  /\ rpc = "minute" /\ ~ticked => rsec = Second
  /\ rpc = "again" => /\ ~ticked => rsec = Second
                      /\ rsec = Second => rmin = Minute

(* No tick is lost between the calls, and none between the seconds the     *)
(* countdown has gone down.                                                *)
CountInv ==
  /\ uip => unseen < Hour - 1
  /\ ~Counting => rpc = "idle"
  /\ pc \in {"POWERON", "CONFIG", "menu.open"} => unseen = 0
  /\ Counting =>
       /\ Based => total = (prevOffset + unseen) % Hour
       /\ waited = Count \/ waited >= (Count - count) + unseen
       /\ count \in 1 .. Count
  /\ pc = "menu.poll" => tick = time
  /\ pc = "menu.end" /\ key = "none" => waited = Count

ClockType ==
  /\ total \in 0 .. (Hour - 1) /\ unseen \in 0 .. (Hour - 1)
  /\ uip \in BOOLEAN /\ ticked \in BOOLEAN
  /\ rpc \in {"idle", "status", "second", "minute", "again"}
  /\ rsec \in 0 .. (SecondsPerMinute - 1) /\ rmin \in 0 .. (MinutesPerHour - 1)
  /\ prevOffset \in 0 .. (Hour - 1) /\ tick \in 0 .. (Wrap - 1)
  /\ waited \in 0 .. Count

ClockInv == ClockType /\ ReadInv /\ CountInv

LEMMA ClockInvInit == Init => ClockInv
<1> SUFFICES ASSUME Init PROVE ClockInv
  OBVIOUS
<1>1. /\ total \in 0 .. (Hour - 1) /\ uip = FALSE /\ ticked = FALSE
      /\ rpc = "idle" /\ rsec = 0 /\ rmin = 0 /\ tick = 0 /\ prevOffset = 0
      /\ unseen = 0 /\ pc = "POWERON" /\ waited = 0
  BY DEF Init, ConfigInit, ClockInit
<1>2. ClockType
  BY <1>1, ZeroInRange DEF ClockType
<1>3. ReadInv /\ CountInv
  BY <1>1 DEF ReadInv, CountInv, Counting
<1> QED  BY <1>2, <1>3 DEF ClockInv

(* What a call returns: the second it read first stands still.             *)
LEMMA Returned ==
  ASSUME ClockInv, Counting, ClockReturns
  PROVE  /\ rpc' = "idle" /\ unseen' = 0 /\ prevOffset' = total
         /\ Based => tick' = (tick + unseen) % Wrap
         /\ UNCHANGED <<total, uip>> /\ ticked' = FALSE
         /\ rsec' = 0 /\ rmin' = 0 /\ tick' \in 0 .. (Wrap - 1)
<1>1. /\ rpc = "again" /\ rpc' = "idle" /\ rsec = Second
      /\ tick' = (tick + Since(Offset)) % Wrap /\ prevOffset' = Offset
      /\ unseen' = 0 /\ UNCHANGED <<total, uip>> /\ ticked' = FALSE
      /\ rsec' = 0 /\ rmin' = 0
  BY DEF ClockReturns, Steady
<1>2. total \in 0 .. (Hour - 1) /\ unseen \in 0 .. (Hour - 1)
      /\ prevOffset \in 0 .. (Hour - 1) /\ tick \in 0 .. (Wrap - 1)
  BY DEF ClockInv, ClockType
<1>3. Offset = total
  <2>1. rmin = Minute
    BY <1>1 DEF ClockInv, ReadInv
  <2>2. (total \div SecondsPerMinute) * SecondsPerMinute + (total % SecondsPerMinute) = total
    BY <1>2, Registers
  <2> QED  BY <2>1, <2>2, <1>1 DEF Offset, Second, Minute
<1>4. ASSUME Based PROVE tick' = (tick + unseen) % Wrap
  <2>1. total = (prevOffset + unseen) % Hour
    BY <1>4 DEF ClockInv, CountInv
  <2>2. Since((prevOffset + unseen) % Hour) = unseen
    BY <1>2, SinceIsElapsed
  <2> QED  BY <2>1, <2>2, <1>1, <1>3
<1>5. tick' \in 0 .. (Wrap - 1)
  <2>1. Since(total) \in Int
    BY <1>2, HourFacts DEF Since
  <2>2. PICK w \in Nat \ {0} : w = Wrap
    BY HourFacts
  <2>3. PICK n \in Int : n = tick + Since(total)
    BY <2>1, <1>2, HourFacts
  <2>4. n % w \in 0 .. (w - 1)
    OBVIOUS
  <2> QED  BY <2>2, <2>3, <2>4, <1>1, <1>3
<1> QED  BY <1>1, <1>3, <1>4, <1>5

LEMMA TimeKeeps == ClockInv /\ TimePasses => ClockInv'
<1> SUFFICES ASSUME ClockInv, TimePasses PROVE ClockInv'
  OBVIOUS
<1>0. ClockType /\ ReadInv /\ CountInv /\ Counting /\ UNCHANGED <<pc, count, time, key>>
  BY DEF ClockInv, TimePasses
<1>1. CASE Announce /\ UNCHANGED waited
  <2>1. /\ unseen < Hour - 1 /\ uip' = TRUE
        /\ UNCHANGED <<total, ticked, unseen, rpc, rsec, rmin, tick, prevOffset, waited>>
    BY <1>1 DEF Announce, clockSw
  <2>2. ClockType' /\ ReadInv'
    BY <1>0, <2>1 DEF ClockType, ReadInv, Second, Minute
  <2>3. CountInv'
    BY <1>0, <2>1 DEF CountInv, Counting, Based
  <2> QED  BY <2>2, <2>3 DEF ClockInv
<1>2. CASE Tick /\ waited' = IF waited < Count THEN waited + 1 ELSE waited
  <2>1. /\ uip /\ ~ticked /\ uip' = FALSE /\ total' = (total + 1) % Hour
        /\ unseen' = unseen + 1 /\ ticked' = (rpc \notin {"idle", "status"})
        /\ UNCHANGED <<rpc, rsec, rmin, tick, prevOffset>>
    BY <1>2 DEF Tick, clockSw
  <2>2. total \in 0 .. (Hour - 1) /\ unseen \in 0 .. (Hour - 1) /\ unseen < Hour - 1
        /\ prevOffset \in 0 .. (Hour - 1) /\ waited \in 0 .. Count /\ count \in 1 .. Count
    BY <1>0, <2>1 DEF ClockType, CountInv
  <2>3. total' \in 0 .. (Hour - 1) /\ Second' # Second
    BY <2>1, <2>2, SecondAdvances DEF Second
  <2>4. unseen' \in 0 .. (Hour - 1) /\ waited' \in 0 .. Count
    BY <2>1, <2>2, <1>2, HourFacts, ConfigAssumption
  <2>5. ClockType'
    BY <1>0, <2>1, <2>3, <2>4 DEF ClockType
  <2>6. ReadInv'
    BY <1>0, <2>1, <2>3 DEF ReadInv
  <2>7. ASSUME Based PROVE total' = (prevOffset + unseen') % Hour
    <3>1. PICK a \in Nat, H \in Nat \ {0} : a = prevOffset + unseen /\ H = Hour
      BY <2>2, HourFacts
    <3>2. total = a % H /\ total' = (total + 1) % H
      BY <1>0, <2>1, <2>7, <3>1 DEF CountInv
    <3>3. ((a % H) + 1) % H = (a + 1) % H
      BY <3>1, SuccMod
    <3>4. prevOffset + unseen' = a + 1
      BY <2>1, <2>2, <3>1, HourFacts
    <3> QED  BY <3>1, <3>2, <3>3, <3>4
  <2>8. waited' = Count \/ waited' >= (Count - count) + unseen'
    <3>1. waited = Count \/ waited >= (Count - count) + unseen
      BY <1>0 DEF CountInv
    <3> QED  BY <3>1, <1>2, <2>1, <2>2, HourFacts, ConfigAssumption
  <2>9. CountInv'
    BY <1>0, <2>1, <2>2, <2>7, <2>8 DEF CountInv, Counting, Based
  <2> QED  BY <2>5, <2>6, <2>9 DEF ClockInv
<1> QED  BY <1>1, <1>2 DEF TimePasses

LEMMA ReadKeeps == ClockInv /\ ReadClock => ClockInv'
<1> SUFFICES ASSUME ClockInv, ReadClock PROVE ClockInv'
  OBVIOUS
<1>0. /\ ClockType /\ ReadInv /\ CountInv /\ Counting
      /\ UNCHANGED <<pc, count, time, key, waited>>
  BY DEF ClockInv, ReadClock, menuVars
<1>1. /\ UNCHANGED <<total, uip, unseen, tick, prevOffset>>
      /\ rpc' \in {"idle", "status", "second", "minute", "again"}
      /\ ticked' \in BOOLEAN
      /\ rsec' \in {rsec, Second} /\ rmin' \in {rmin, Minute}
      /\ ReadInv'
  <2>1. CASE CallClock
    BY <2>1, <1>0 DEF CallClock, clockHw, ReadInv, ClockType
  <2>2. CASE ReadStatus
    BY <2>2, <1>0 DEF ReadStatus, ReadInv, ClockType
  <2>3. CASE ReadSecond
    BY <2>3, <1>0 DEF ReadSecond, clockHw, ReadInv, ClockType, Second
  <2>4. CASE ReadMinute
    BY <2>4, <1>0 DEF ReadMinute, clockHw, ReadInv, ClockType, Second, Minute
  <2>5. CASE Retry
    BY <2>5, <1>0 DEF Retry, ReadInv, ClockType
  <2> QED  BY <2>1, <2>2, <2>3, <2>4, <2>5 DEF ReadClock, ClockStep
<1>2. Second \in 0 .. (SecondsPerMinute - 1) /\ Minute \in 0 .. (MinutesPerHour - 1)
  BY <1>0, Registers DEF ClockType, Second, Minute
<1>3. ClockType'
  BY <1>0, <1>1, <1>2 DEF ClockType
<1>4. CountInv'
  BY <1>0, <1>1 DEF CountInv, Counting, Based
<1> QED  BY <1>1, <1>3, <1>4 DEF ClockInv

LEMMA TakenKeeps == ClockInv /\ (TakeTime \/ SameSecond \/ NextSecond) => ClockInv'
<1> SUFFICES ASSUME ClockInv, TakeTime \/ SameSecond \/ NextSecond PROVE ClockInv'
  OBVIOUS
<1>0. ClockType /\ ReadInv /\ CountInv /\ Counting /\ ClockReturns
  BY DEF ClockInv, TakeTime, SameSecond, NextSecond, Counting
<1>1. /\ rpc' = "idle" /\ unseen' = 0 /\ prevOffset' = total
      /\ Based => tick' = (tick + unseen) % Wrap
      /\ UNCHANGED <<total, uip>> /\ ticked' = FALSE
      /\ rsec' = 0 /\ rmin' = 0 /\ tick' \in 0 .. (Wrap - 1)
  BY <1>0, Returned
<1>2. /\ total \in 0 .. (Hour - 1) /\ unseen \in Nat /\ waited \in 0 .. Count
      /\ count \in 1 .. Count /\ waited' = waited
      /\ Count \in Nat \ {0}
  BY <1>0, HourFacts, ConfigAssumption
  DEF ClockType, CountInv, TakeTime, SameSecond, NextSecond
<1>3. ClockType' /\ ReadInv'
  BY <1>0, <1>1, <1>2, ZeroInRange DEF ClockType, ReadInv
<1>4. total' = (prevOffset' + unseen') % Hour /\ (uip' => unseen' < Hour - 1)
  <2>1. PICK H \in Nat \ {0} : H = Hour
    BY HourFacts
  <2>2. (H * 0 + total) % H = total
    BY <1>2, <2>1, ModIs
  <2>3. (total + 0) % H = total
    BY <2>2, <1>2, <2>1, HourFacts
  <2> QED  BY <2>1, <2>3, <1>1, <1>2, HourFacts
<1>5. waited = Count \/ waited >= (Count - count) + unseen
  BY <1>0 DEF CountInv
<1>6. CASE TakeTime
  <2>1. time' = tick' /\ pc' = "menu.poll" /\ count' = count
    BY <1>6 DEF TakeTime
  <2> QED  BY <2>1, <1>1, <1>2, <1>3, <1>4, <1>5 DEF ClockInv, CountInv, Counting
<1>7. CASE SameSecond
  <2>1. /\ pc = "menu.poll" /\ tick' = time /\ time' = time
        /\ \/ key' = "space" /\ pc' = "menu.end"
           \/ pc' = pc /\ count' = count
    BY <1>7 DEF SameSecond
  <2> QED  BY <2>1, <1>1, <1>2, <1>3, <1>4, <1>5 DEF ClockInv, CountInv, Counting
<1>8. CASE NextSecond
  <2>1. /\ pc = "menu.poll" /\ tick' # time /\ time' = time /\ count' = count - 1
        /\ pc' = IF count' > 0 THEN "menu.time" ELSE "menu.end"
    BY <1>8 DEF NextSecond, Less, Left, Round
  <2>2. unseen >= 1
    <3> SUFFICES ASSUME unseen = 0 PROVE FALSE
      BY <1>2
    <3>1. tick = time /\ tick \in 0 .. (Wrap - 1) /\ tick' = (tick + 0) % Wrap
      BY <1>0, <1>1, <2>1 DEF CountInv, ClockType, Based
    <3>2. PICK w \in Nat \ {0} : w = Wrap
      BY HourFacts
    <3>3. (w * 0 + tick) % w = tick
      BY <3>1, <3>2, ModIs
    <3> QED  BY <3>1, <3>2, <3>3, <2>1
  <2>3. waited = Count \/ waited >= Count - count'
    BY <1>2, <1>5, <2>1, <2>2
  <2>4. pc' = "menu.end" => waited = Count
    BY <1>2, <2>1, <2>3
  <2> QED  BY <2>1, <2>3, <2>4, <1>1, <1>2, <1>3, <1>4 DEF ClockInv, CountInv, Counting
<1> QED  BY <1>6, <1>7, <1>8

(* The menu is opened with a clock nobody has read, and left with a clock  *)
(* nobody reads.                                                           *)
LEMMA MenuKeeps ==
  ClockInv /\ (ConfigState \/ OpenTerminal \/ CountdownEnds \/ CloseTerminal \/ User)
    => ClockInv'
<1> SUFFICES ASSUME ClockInv,
                    ConfigState \/ OpenTerminal \/ CountdownEnds \/ CloseTerminal \/ User
             PROVE  ClockInv'
  OBVIOUS
<1>0. ClockType /\ ReadInv /\ CountInv
  BY DEF ClockInv
<1>1. pc \in {"CONFIG", "menu.open", "menu.end", "menu.close", "menu"} /\ rpc = "idle"
  BY <1>0 DEF ConfigState, OpenTerminal, CountdownEnds, CloseTerminal, User, SelectDevice,
              SaveSettings, LeaveMenu, CountInv, Counting
<1>2. CASE ClockRests /\ (UNCHANGED waited \/ waited' = 0)
           /\ ~Counting' /\ pc' \notin {"menu.end", "menu.poll"}
  <2>1. ClockType'
    BY <1>0, <1>2, ZeroInRange DEF ClockRests, ClockType
  <2>2. ReadInv' /\ CountInv'
    BY <1>2 DEF ClockRests, ReadInv, CountInv
  <2> QED  BY <2>1, <2>2 DEF ClockInv
<1>3. CASE UNCHANGED <<clockVars, menuVars>> /\ ~Counting' /\ pc' # "menu.end"
           /\ (pc' \in {"POWERON", "CONFIG", "menu.open"} => pc = "CONFIG")
  BY <1>0, <1>1, <1>3
  DEF ClockInv, ClockType, ReadInv, CountInv, Counting, clockVars, clockHw, clockSw,
      menuVars, Second, Minute
<1>4. CASE OpenTerminal
  <2>1. CASE Opens("terminal", "menu.time") /\ count' = Count
             /\ UNCHANGED <<clockVars, configVars, time, key, waited>>
    <3>1. /\ pc = "menu.open" /\ unseen = 0 /\ Count \in Nat \ {0}
          /\ waited \in 0 .. Count
      BY <1>0, <1>4, ConfigAssumption DEF OpenTerminal, CountInv, ClockType
    <3>2. /\ UNCHANGED <<total, uip, ticked, unseen, rpc, rsec, rmin, tick, prevOffset,
                         waited>>
          /\ pc' = "menu.time" /\ count' = Count
      BY <2>1 DEF clockVars, clockHw, clockSw
    <3>3. ClockType' /\ ReadInv'
      BY <1>0, <3>2 DEF ClockType, ReadInv, Second, Minute
    <3>4. CountInv'
      BY <1>0, <3>1, <3>2 DEF CountInv, Counting, Based
    <3> QED  BY <3>3, <3>4 DEF ClockInv
  <2>2. CASE Goes(ByDevice) /\ ClockRests /\ UNCHANGED <<configVars, menuVars>>
    BY <1>2, <2>2 DEF ByDevice, Counting, menuVars
  <2> QED  BY <1>4, <2>1, <2>2 DEF OpenTerminal
<1>5. CASE CountdownEnds
  BY <1>2, <1>5 DEF CountdownEnds, Counting
<1>6. CASE ConfigState
  BY <1>3, <1>6 DEF ConfigState, Counting
<1>7. CASE CloseTerminal
  BY <1>3, <1>7 DEF CloseTerminal, ByDevice, Counting
<1>8. CASE User
  BY <1>3, <1>8 DEF User, SelectDevice, SaveSettings, LeaveMenu, Counting
<1> QED  BY <1>4, <1>5, <1>6, <1>7, <1>8

(* Everything outside the configuration leaves clock and menu alone.       *)
LEMMA BootsSpareMenu ==
  ASSUME IInv, Boots
  PROVE  /\ UNCHANGED <<clockVars, menuVars>>
         /\ pc \notin MenuPlaces \cup {"menu.open"} /\ pc' \notin MenuPlaces
         /\ pc' \in {"POWERON", "CONFIG", "menu.open"} => pc = "POWERON"
<1> USE DEF Quiet, Loading
<1>1. CASE PowerOn
  BY <1>1 DEF PowerOn
<1>2. CASE Run
  BY <1>2 DEF Run
<1>3. CASE PreLoadCleanUp \/ LoadUldrCleanUp \/ LoadOsCleanUp \/ DownloadCleanUp
  <2>1. /\ UNCHANGED <<clockVars, menuVars>> /\ pc' = rc
        /\ pc \in {"pre.clean", "uldr.clean", "os.clean", "down.clean"}
    BY <1>3 DEF PreLoadCleanUp, LoadUldrCleanUp, LoadOsCleanUp, DownloadCleanUp
  <2>2. rc \in {"LOAD_OS", "LOAD_ULDR", "FAILURE", "RUN", "PRELOAD"}
    BY <2>1 DEF IInv, ResultInv
  <2> QED  BY <2>1, <2>2
<1>4. CASE Loads /\ ~(PreLoadCleanUp \/ LoadUldrCleanUp \/ LoadOsCleanUp)
  BY <1>4 DEF Loads, PreLoad, PreLoadPartition, PreLoadRead, LoadUldr,
              LoadUldrPartition, LoadUldrImage, LoadOs, LoadOsPartition, LoadOsImage,
              LoadOsFat, LoadOsFile, LoadOsNk, Placed, LoadFails
<1>5. CASE Downloads /\ ~DownloadCleanUp
  BY <1>5 DEF Downloads, Download, DownloadInit, Jump, UnknownType, RamImage, RamData,
              RamDone, RamFails, StoreImage, StoreFormat, FormatFails, StoreData,
              StoreSegment, StoreWrite, StoreDone, StoreCleanUp
<1> QED  BY <1>1, <1>2, <1>3, <1>4, <1>5 DEF Boots

LEMMA ClockInvNext == IInv /\ ClockInv /\ [Next]_vars => ClockInv'
<1> SUFFICES ASSUME IInv, ClockInv, [Next]_vars PROVE ClockInv'
  OBVIOUS
<1>1. CASE Configure
  BY <1>1, TimeKeeps, ReadKeeps, TakenKeeps, MenuKeeps DEF Configure, ConfigStep
<1>2. CASE Boots
  <2>1. /\ UNCHANGED <<clockVars, menuVars>>
        /\ pc \notin MenuPlaces \cup {"menu.open"} /\ pc' \notin MenuPlaces
        /\ pc' \in {"POWERON", "CONFIG", "menu.open"} => pc = "POWERON"
    BY <1>2, BootsSpareMenu
  <2> QED  BY <2>1 DEF ClockInv, ClockType, ReadInv, CountInv, Counting, clockVars,
                       clockHw, clockSw, menuVars, Second, Minute
<1>3. CASE UNCHANGED vars
  BY <1>3 DEF vars, ClockInv, ClockType, ReadInv, CountInv, Counting, Based, clockVars,
              clockHw, clockSw, menuVars, Second, Minute
<1> QED  BY <1>1, <1>2, <1>3 DEF Next

(* The call that ends is the one whose result the countdown takes.         *)
LEMMA ReturnIsTaken ==
  ASSUME IInv, ClockInv, [Next]_vars, rpc = "again", rpc' = "idle"
  PROVE  Counting /\ ClockReturns
<1>1. Counting
  BY DEF ClockInv, CountInv
<1>2. pc \in {"menu.time", "menu.poll"}
  BY <1>1 DEF Counting
<1>3. ~Boots /\ ~UNCHANGED vars
  BY <1>2, BootsSpareMenu DEF vars, clockVars, clockSw
<1>4. CASE TakeTime \/ SameSecond \/ NextSecond
  BY <1>1, <1>4 DEF TakeTime, SameSecond, NextSecond
<1>5. CASE ReadClock \/ TimePasses
  BY <1>5 DEF ReadClock, CallClock, ClockStep, ReadStatus, ReadSecond, ReadMinute, Retry,
              TimePasses, Announce, Tick, clockSw
<1>6. CASE ConfigState \/ OpenTerminal \/ CountdownEnds \/ CloseTerminal \/ User
  BY <1>2, <1>6 DEF ConfigState, OpenTerminal, CountdownEnds, CloseTerminal, User,
                    SelectDevice, SaveSettings, LeaveMenu
<1> QED  BY <1>3, <1>4, <1>5, <1>6 DEF Next, Configure, ConfigStep

(* OEMBootGetTickCount loses no tick and counts none twice, and an         *)
(* untouched countdown gives the user its full time, for every length of   *)
(* minute, hour and countdown (init.c:376-407, config.c:1346-1359).        *)
THEOREM ClockTrueHolds == Spec => ClockTrue
<1>1. IInv /\ ClockInv /\ [Next]_vars =>
        [rpc = "again" /\ rpc' = "idle" /\ (count < Count \/ pc = "menu.poll")
           => tick' = (tick + unseen) % Wrap]_<<clockVars, menuVars, pc>>
  BY ReturnIsTaken, Returned DEF Based
<1>2. ClockInv => (pc = "menu.end" /\ key = "none" => waited = Count)
  BY DEF ClockInv, CountInv
<1> QED  BY <1>1, <1>2, ClockInvInit, ClockInvNext, IInvHolds, PTL DEF Spec, ClockTrue
=============================================================================
