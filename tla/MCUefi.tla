------------------------------- MODULE MCUefi -------------------------------
(* UefiBoot on eight pages of four bytes, with images that start inside a  *)
(* page, and a read buffer of three bytes that splits every header.        *)
EXTENDS UefiBoot

CONSTANT Cuts   \* "whole": complete files; "short": files cut off anywhere

Rec(a, n, ok) == [address |-> a, length |-> n, right |-> ok]
Image(sign, start, size, records, launch) ==
  [sign |-> sign, start |-> start, size |-> size, records |-> records, launch |-> launch]

(* Two records in order, one over the end of the other, one alone, and a   *)
(* record of no bytes; none; no start address; a start in another page;    *)
(* start addresses with bits that are cleared and with the one that is not.*)
GoodImages ==
  {Image("right", 13, 5, <<Rec(13, 2, TRUE), Rec(15, 3, TRUE)>>, 128 + 32 + 13),
   Image("first", 13, 5, <<Rec(16, 2, TRUE), Rec(13, 3, TRUE)>>, 16),
   Image("right", 12, 4, <<Rec(12, 0, TRUE), Rec(12, 4, TRUE)>>, 64 + 12),
   Image("right", 14, 4, <<Rec(14, 4, TRUE)>>, 0),
   Image("right", 12, 1, <<>>, 12)}

(* A wrong sum in the second record, records below, above and around the   *)
(* image, one that wraps, one of no bytes outside it; images that wrap,    *)
(* are as long as can be, overlap the boot arguments or lie above RAM.     *)
BadImages ==
  {Image("wrong", 13, 5, <<Rec(13, 2, TRUE)>>, 13),
   Image("right", 13, 5, <<Rec(13, 2, TRUE), Rec(15, 3, FALSE)>>, 13),
   Image("right", 13, 5, <<Rec(12, 2, TRUE)>>, 13),
   Image("right", 13, 5, <<Rec(16, 3, TRUE)>>, 13),
   Image("right", 13, 5, <<Rec(254, 4, TRUE)>>, 13),
   Image("right", 13, 5, <<Rec(20, 0, TRUE)>>, 13),
   Image("right", 252, 5, <<Rec(252, 2, TRUE)>>, 252),
   Image("right", 5, 246, <<Rec(5, 3, TRUE)>>, 5),
   Image("right", 9, 3, <<Rec(9, 3, TRUE)>>, 9),
   Image("right", 45, 3, <<Rec(45, 3, TRUE)>>, 45)}

RECURSIVE DataBytes(_)
DataBytes(rs) == IF rs = <<>> THEN 0 ELSE rs[1].length + DataBytes(Tail(rs))
FullSize(i) ==
  SignSize + HeaderSize + DataBytes(i.records) + RecordHeaderSize * (Len(i.records) + 1)
Cut(i, n) ==
  [sign |-> i.sign, start |-> i.start, size |-> i.size, records |-> i.records,
   launch |-> i.launch, cut |-> n]

MCFiles ==
  {NoFile} \cup
  IF Cuts = "whole" THEN {Cut(i, FullSize(i)) : i \in GoodImages \cup BadImages}
  ELSE UNION {{Cut(i, n) : n \in 0 .. FullSize(i)} : i \in GoodImages}

(* Settings of this and of another version; the disk, the debugger's       *)
(* device; an update asked for.                                            *)
MCVariables ==
  {[current |-> c, device |-> d, update |-> u, ours |-> FALSE] :
     c \in BOOLEAN, d \in {"store", "edbg"}, u \in BOOLEAN}

Region(kind, start, pages) == [kind |-> kind, start |-> start, pages |-> pages]
PlainMap == <<Region("ram", 0, 4), Region("keep", 6, 1), Region("ram", 4, 2)>>
MCMaps ==
  LET some == {Region("ram", 0, 3), Region("keep", 3, 1), Region("ram", 4, 2),
               Region("keep", 6, 1), Region("other", 7, 1)}
  IN {m \in [1 .. 3 -> some] : \A i, j \in 1 .. 3 : m[i] = m[j] => i = j}
       \cup {<<>>, PlainMap}

(* Only one file is booted under every map, with every setting and with    *)
(* firmware in the image's way.                                            *)
OneFile == CHOOSE f \in Files \ {NoFile} : f.cut > 0 /\ f.launch = 16
MCInit ==
  /\ Init
  /\ map # PlainMap => image = OneFile /\ var = NoVariable /\ taken = {0, 7}
  /\ taken # {0, 7} => var = NoVariable
  /\ var # NoVariable => image = OneFile

ASSUME MCLayout == Layout /\ RecordsApart

MCSpec == MCInit /\ [][Next]_vars /\ WF_vars(LoaderStep)
=============================================================================
