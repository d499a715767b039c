----------------------------- MODULE CepcProofs -----------------------------
(***************************************************************************)
(* Theorems about loadcepc, for every image, every block of extended       *)
(* memory and every order of failures: the block is given back on every    *)
(* way to DOS, and an image that is started is whole in memory.  For every *)
(* set of files and every moment at which the host rewrites one: a file    *)
(* command leaves no search open and delivers what it was asked for.  And  *)
(* for every file, call and damage to its messages: a call to the host     *)
(* returns what the host answered, or fails.                               *)
(***************************************************************************)
EXTENDS CepcLoad, CepcTool, PpfsLink, SequenceTheorems, WellFoundedInduction,
        TLAPS

(* Where the program has nothing, where it has a block, where it has an    *)
(* image.                                                                  *)
Early == {"dos", "query", "allocate"}
Holding == {"zero", "open", "signature", "header", "chunk", "a20", "jump", "launched"}
Loading == {"header", "chunk", "a20", "jump", "launched"}

(* The handle names the block exactly while it is taken, and it is taken   *)
(* from the allocation on.                                                 *)
BlockInv ==
  /\ handle = "ours" <=> block # "free"
  /\ lpc \in Early => block = "free"
  /\ lpc = "lock" => block = "allocated"
  /\ lpc \in Holding => block = "locked"
  /\ block = "free" \/ lpc \in {"lock", "zero"} => ram = Blank
  /\ lpc \in Early \cup {"lock", "zero", "open", "signature"} =>
       sections = <<>> /\ sec = 0 /\ off = 0
  /\ lpc \in {"open", "signature"} => ram = [b \in Block |-> Zero]

(* Between two sections the last one is loaded to its end; inside one an   *)
(* even number of bytes is, and some are left.                             *)
PlaceInv ==
  /\ lpc \in {"header", "a20", "jump", "launched"} /\ sec > 0 => off = Here.size
  /\ lpc = "chunk" => sec > 0 /\ off < Here.size /\ off % 2 = 0
  /\ lpc \in {"a20", "jump", "launched"} => sec = Len(sections)

(* What the moves so far have written: of section k the bytes before the   *)
(* offset, and the byte behind it once it is complete.                     *)
Moved(k) == IF k = sec THEN off ELSE sections[k].size
HasByte(k, b) == b >= sections[k].addr /\ b < sections[k].addr + Moved(k)
HasPad(k, b) == Moved(k) = sections[k].size /\ IsPad(sections[k], b)
Touched(k, b) == HasByte(k, b) \/ HasPad(k, b)
Untouched(k, b) == \A j \in (k + 1) .. sec : ~Touched(j, b)

ByteRight(b) ==
  \/ ram[b] = Zero /\ Untouched(0, b)
  \/ \E k \in 1 .. sec : ram[b] = k /\ HasByte(k, b) /\ Untouched(k, b)
  \/ \E k \in 1 .. sec : ram[b] = Stale /\ HasPad(k, b) /\ Untouched(k, b)

RamInv == lpc \in Loading => \A b \in Block : ByteRight(b)

LoadIInv == LoadTypeOK /\ BlockInv /\ PlaceInv /\ RamInv

-----------------------------------------------------------------------------
(* A section of the image in hand.                                         *)
LEMMA SectionType ==
  ASSUME LoadTypeOK, NEW k \in 1 .. Len(sections)
  PROVE  sections[k].addr \in Nat /\ sections[k].size \in Nat
<1> DEFINE S == [addr : 1 .. (AddressSpace - 1), size : 0 .. (AddressSpace - 1)]
<1>1. sections # <<>>
  BY DEF LoadTypeOK
<1>2. sections \in Seq(S)
  BY <1>1, LoadAssumption DEF LoadTypeOK
<1>3. sections[k] \in S
  <2> HIDE DEF S
  <2> QED
    BY <1>2, ElementOfSeq
<1> QED
  BY <1>3, LoadAssumption

LEMMA LoadInitIInv == LoadInit => LoadIInv
<1> SUFFICES ASSUME LoadInit PROVE LoadIInv
  OBVIOUS
<1>1. ram \in [Block -> -2 .. Len(sections)]
  BY DEF LoadInit, Blank, Old
<1>2. LoadTypeOK
  BY <1>1 DEF LoadInit, LoadTypeOK
<1>3. BlockInv
  BY DEF LoadInit, BlockInv, Early, Holding
<1>4. PlaceInv
  BY DEF LoadInit, PlaceInv
<1>5. RamInv
  BY DEF LoadInit, RamInv, Loading
<1> QED
  BY <1>2, <1>3, <1>4, <1>5 DEF LoadIInv
-----------------------------------------------------------------------------
(* One lemma for each part of the invariant.                               *)

LEMMA LengthType ==
  ASSUME NEW s \in Images \cup {<<>>}
  PROVE  Len(s) \in Nat
<1> DEFINE S == [addr : 1 .. (AddressSpace - 1), size : 0 .. (AddressSpace - 1)]
<1>1. CASE s = <<>>
  BY <1>1
<1>2. CASE s \in Seq(S)
  <2> HIDE DEF S
  <2> QED
    BY <1>2, LenProperties
<1> QED
  BY <1>1, <1>2, LoadAssumption

LEMMA LoadTypes ==
  ASSUME LoadTypeOK
  PROVE  Len(sections) \in Nat /\ sec \in 0 .. Len(sections) /\ off \in Nat
<1>2. Len(sections) \in Nat
  BY LengthType DEF LoadTypeOK
<1>3. CASE sec = 0
  BY <1>2, <1>3 DEF LoadTypeOK
<1>4. CASE sec # 0
  <2>1. Here.size \in Nat
    BY <1>2, <1>4, SectionType DEF LoadTypeOK, Here
  <2> QED
    BY <1>2, <1>4, <2>1 DEF LoadTypeOK
<1> QED
  BY <1>3, <1>4

(* What one move takes of a section of which o bytes are moved.            *)
LEMMA ChunkType == ChunkSize \in Nat /\ ChunkSize > 0 /\ ChunkSize % 2 = 0
BY LoadAssumption

LEMMA MoveLength ==
  ASSUME NEW long \in Nat, NEW o \in Nat, o < long,
         NEW n, n = IF long - o < ChunkSize THEN long - o ELSE ChunkSize
  PROVE  n \in Nat /\ n > 0 /\ o + n <= long
BY ChunkType

LEMMA EvenAfter ==
  ASSUME NEW o \in Nat, o % 2 = 0, NEW n \in Nat, n % 2 = 0
  PROVE  (o + n) % 2 = 0
OBVIOUS

LEMMA LoadTypeNext ==
  ASSUME LoadIInv, [LoadNext]_loadVars
  PROVE  LoadTypeOK'
<1> USE DEF LoadIInv, asked, memory
<1>0. Len(sections) \in Nat /\ sec \in 0 .. Len(sections) /\ off \in Nat
  BY LoadTypes
<1>1. ASSUME UNCHANGED <<sections, ram, sec, off>>,
             lpc' \in {"dos", "query", "allocate", "lock", "zero", "open", "signature",
                       "header", "chunk", "a20", "jump", "launched", "main_error"},
             source' \in {"file", "parallel", "serial"},
             handle' \in {"none", "ours", "junk"},
             block' \in {"free", "allocated", "locked"}
      PROVE  LoadTypeOK'
  BY <1>1 DEF LoadTypeOK, Here
<1>2. CASE StartLoad \/ QueryFree \/ Allocate \/ Lock
  <2>1. UNCHANGED <<sections, ram, sec, off>>
    BY <1>2 DEF StartLoad, QueryFree, Allocate, Lock
  <2>2. /\ source' \in {"file", "parallel", "serial"}
        /\ handle' \in {"none", "ours", "junk"}
        /\ block' \in {"free", "allocated", "locked"}
    BY <1>2 DEF StartLoad, QueryFree, Allocate, Lock, LoadTypeOK
  <2>3. lpc' \in {"query", "allocate", "lock", "zero", "main_error"}
    BY <1>2 DEF StartLoad, QueryFree, Allocate, Lock
  <2> QED
    BY <1>1, <2>1, <2>2, <2>3
<1>3. CASE ZeroBlock
  <2>1. ram' \in [Block -> -2 .. Len(sections)]
    BY <1>0, <1>3 DEF ZeroBlock, Zero, LoadTypeOK
  <2> QED
    BY <1>3, <2>1 DEF ZeroBlock, LoadTypeOK, Here
<1>4. CASE OpenImageFile \/ ReadLastHeader \/ MoveFails \/ EnableA20 \/ Launch \/ ReadFails
  <2>1. UNCHANGED <<sections, ram, sec, off, source, handle, block>>
    BY <1>4 DEF OpenImageFile, ReadLastHeader, MoveFails, EnableA20, Launch, ReadFails
  <2>2. lpc' \in {"signature", "main_error", "a20", "jump", "launched"}
    BY <1>4 DEF OpenImageFile, ReadLastHeader, MoveFails, EnableA20, Launch, ReadFails
  <2> QED
    BY <1>1, <2>1, <2>2 DEF LoadTypeOK
<1>5. CASE ReadSignature
  <2>1. CASE UNCHANGED sections
    BY <1>1, <1>5, <2>1 DEF ReadSignature, LoadTypeOK
  <2>2. CASE sections' \in Images
    <3>2. Len(sections') \in Nat
      BY <2>2, LengthType
    <3>3. sections = <<>> /\ sec = 0 /\ off = 0 /\ ram = [b \in Block |-> Zero]
      BY <1>5 DEF ReadSignature, BlockInv
    <3>4. ram' \in [Block -> -2 .. Len(sections')]
      BY <1>5, <3>2, <3>3 DEF ReadSignature, Zero
    <3> QED
      BY <1>5, <2>2, <3>2, <3>3, <3>4 DEF ReadSignature, LoadTypeOK
  <2> QED
    BY <1>5, <2>1, <2>2 DEF ReadSignature
<1>6. CASE ReadHeader
  <2>1. sections[sec + 1].size \in Nat
    BY <1>0, <1>6, SectionType DEF ReadHeader
  <2> QED
    BY <1>0, <1>6, <2>1 DEF ReadHeader, LoadTypeOK, Here
<1>7. CASE Chunk
  <2>1. sec > 0 /\ off < Here.size /\ Here.size \in Nat
    BY <1>0, <1>7, SectionType DEF Chunk, PlaceInv, Here
  <2>2. off' \in 0 .. Here.size
    <3>1. ThisMuch \in Nat /\ off + ThisMuch <= Here.size
      BY <1>0, <2>1, MoveLength DEF ThisMuch
    <3>2. off' = off + ThisMuch
      BY <1>7 DEF Chunk, NextOffset
    <3> QED
      BY <1>0, <2>1, <3>1, <3>2
  <2>3. ram' \in [Block -> -2 .. Len(sections)]
    BY <1>0, <1>7 DEF Chunk, Stale, LoadTypeOK
  <2> QED
    BY <1>7, <2>1, <2>2, <2>3 DEF Chunk, LoadTypeOK, Here
<1>8. CASE MainError \/ ExitSigHandler
  <2>1. ToDos
    BY <1>8 DEF MainError, ExitSigHandler
  <2>2. ram' = Blank
    BY <2>1 DEF ToDos, BlockInv, LoadTypeOK
  <2>3. Len(<<>>) = 0
    OBVIOUS
  <2>4. Blank \in [Block -> -2 .. 0]
    BY DEF Blank, Old
  <2> QED
    BY <2>1, <2>2, <2>3, <2>4 DEF ToDos, LoadTypeOK
<1>9. CASE UNCHANGED loadVars
  BY <1>1, <1>9 DEF loadVars, LoadTypeOK
<1> QED
  BY <1>2, <1>3, <1>4, <1>5, <1>6, <1>7, <1>8, <1>9 DEF LoadNext, LoadStep

LEMMA BlockNext ==
  ASSUME LoadIInv, [LoadNext]_loadVars
  PROVE  BlockInv'
<1> USE DEF LoadIInv, BlockInv, Early, Holding, asked, memory
<1>1. CASE StartLoad
  BY <1>1 DEF StartLoad
<1>2. CASE QueryFree
  BY <1>2 DEF QueryFree
<1>3. CASE Allocate
  BY <1>3 DEF Allocate
<1>4. CASE Lock
  BY <1>4 DEF Lock
<1>5. CASE ZeroBlock
  BY <1>5 DEF ZeroBlock
<1>6. CASE OpenImageFile
  BY <1>6 DEF OpenImageFile
<1>7. CASE ReadSignature
  BY <1>7 DEF ReadSignature
<1>8. CASE ReadHeader
  BY <1>8 DEF ReadHeader
<1>9. CASE ReadLastHeader \/ MoveFails \/ EnableA20 \/ Launch \/ ReadFails
  BY <1>9 DEF ReadLastHeader, MoveFails, EnableA20, Launch, ReadFails
<1>10. CASE Chunk
  BY <1>10 DEF Chunk
<1>11. CASE MainError \/ ExitSigHandler
  BY <1>11 DEF MainError, ExitSigHandler, ToDos
<1>12. CASE UNCHANGED loadVars
  BY <1>12 DEF loadVars
<1> QED
  BY <1>1, <1>2, <1>3, <1>4, <1>5, <1>6, <1>7, <1>8, <1>9, <1>10, <1>11, <1>12
     DEF LoadNext, LoadStep

LEMMA PlaceNext ==
  ASSUME LoadIInv, [LoadNext]_loadVars
  PROVE  PlaceInv'
<1> USE DEF LoadIInv, PlaceInv, asked, memory
<1>0. Len(sections) \in Nat /\ sec \in 0 .. Len(sections) /\ off \in Nat
  BY LoadTypes
<1>1. CASE lpc' \notin {"header", "chunk", "a20", "jump", "launched"}
  BY <1>1
<1>2. CASE ReadSignature /\ lpc' = "header"
  <2>1. sec' = 0
    BY <1>2 DEF ReadSignature, BlockInv
  <2> QED
    BY <1>2, <2>1
<1>3. CASE ReadHeader
  <2>1. sections[sec + 1].size \in Nat
    BY <1>0, <1>3, SectionType DEF ReadHeader
  <2> QED
    BY <1>0, <1>3, <2>1 DEF ReadHeader, Here
<1>4. CASE ReadLastHeader
  BY <1>4 DEF ReadLastHeader, Here
<1>5. CASE Chunk
  <2>1. sec > 0 /\ off < Here.size /\ off % 2 = 0 /\ Here.size \in Nat
    BY <1>0, <1>5, SectionType DEF Chunk, Here
  <2>2. UNCHANGED <<sec, sections, Here>> /\ off' = off + ThisMuch
    BY <1>5 DEF Chunk, NextOffset, Here
  <2>3. CASE Here.size - off < ChunkSize
    <3>1. off' = Here.size /\ lpc' = "header"
      BY <1>0, <1>5, <2>1, <2>2, <2>3 DEF Chunk, ThisMuch, NextOffset
    <3> QED
      BY <2>2, <3>1
  <2>4. CASE ~(Here.size - off < ChunkSize)
    <3>1. off' = off + ChunkSize /\ off' <= Here.size
      <4>1. ThisMuch = ChunkSize
        BY <2>4 DEF ThisMuch
      <4>2. off + ThisMuch <= Here.size
        BY <1>0, <2>1, MoveLength DEF ThisMuch
      <4> QED
        BY <2>2, <4>1, <4>2
    <3>2. off' % 2 = 0
      BY <1>0, <2>1, <3>1, ChunkType, EvenAfter
    <3>3. lpc' = IF off' < Here.size THEN "chunk" ELSE "header"
      BY <1>5, <2>2 DEF Chunk, NextOffset
    <3>4. off' \in Nat
      BY <1>0, <3>1, ChunkType
    <3>5. lpc' = "header" => off' = Here.size
      BY <2>1, <3>1, <3>3, <3>4
    <3> QED
      BY <2>1, <2>2, <3>2, <3>3, <3>5
  <2> QED
    BY <2>3, <2>4
<1>6. CASE EnableA20 \/ Launch
  BY <1>6 DEF EnableA20, Launch, Here
<1>7. CASE UNCHANGED loadVars
  BY <1>7 DEF loadVars, Here
<1>8. CASE \/ StartLoad \/ QueryFree \/ Allocate \/ Lock \/ ZeroBlock \/ OpenImageFile
           \/ ReadFails \/ MoveFails \/ MainError \/ ExitSigHandler
           \/ ReadSignature /\ lpc' # "header"
  <2>1. lpc' \notin {"header", "chunk", "a20", "jump", "launched"}
    BY <1>8 DEF StartLoad, QueryFree, Allocate, Lock, ZeroBlock, OpenImageFile,
                ReadFails, MoveFails, MainError, ExitSigHandler, ToDos, ReadSignature
  <2> QED
    BY <1>1, <2>1
<1> QED
  BY <1>2, <1>3, <1>4, <1>5, <1>6, <1>7, <1>8 DEF LoadNext, LoadStep

LEMMA Parity ==
  ASSUME NEW m \in Nat, NEW n \in Nat, n <= m, n % 2 = 0
  PROVE  (m - n) % 2 = m % 2
  OBVIOUS

(* A byte that a step leaves as it was, and no section newly touches, is   *)
(* as right as before.                                                     *)
LEMMA ByteStays ==
  ASSUME NEW b, sec \in Nat, sec' \in Nat, sec' >= sec, ByteRight(b), ram'[b] = ram[b],
         \A k \in 1 .. sec : /\ HasByte(k, b)' <=> HasByte(k, b)
                             /\ HasPad(k, b)' <=> HasPad(k, b),
         \A k \in (sec + 1) .. sec' : ~Touched(k, b)'
  PROVE  ByteRight(b)'
<1>1. ASSUME NEW k \in 0 .. sec, Untouched(k, b)
      PROVE  Untouched(k, b)'
  <2> SUFFICES ASSUME NEW j \in (k + 1) .. sec'
               PROVE  ~Touched(j, b)'
    BY DEF Untouched
  <2>1. CASE j <= sec
    <3>1. ~Touched(j, b) /\ j \in 1 .. sec
      BY <1>1, <2>1 DEF Untouched
    <3> QED
      BY <3>1 DEF Touched
  <2>2. CASE j > sec
    BY <2>2
  <2> QED
    BY <2>1, <2>2
<1>2. CASE ram[b] = Zero /\ Untouched(0, b)
  BY <1>1, <1>2 DEF ByteRight
<1>3. ASSUME NEW k \in 1 .. sec, ram[b] = k, HasByte(k, b), Untouched(k, b)
      PROVE  ByteRight(b)'
  <2>1. k \in 1 .. sec' /\ k \in 0 .. sec
    OBVIOUS
  <2> QED
    BY <1>1, <1>3, <2>1 DEF ByteRight
<1>4. ASSUME NEW k \in 1 .. sec, ram[b] = Stale, HasPad(k, b), Untouched(k, b)
      PROVE  ByteRight(b)'
  <2>1. k \in 1 .. sec' /\ k \in 0 .. sec
    OBVIOUS
  <2> QED
    BY <1>1, <1>4, <2>1 DEF ByteRight
<1> QED
  BY <1>2, <1>3, <1>4 DEF ByteRight

(* The header of a section touches no byte yet, and the section before it  *)
(* is complete.                                                            *)
LEMMA RamHeader ==
  ASSUME LoadIInv, ReadHeader
  PROVE  RamInv'
<1> USE DEF LoadIInv, asked, memory
<1>0. Len(sections) \in Nat /\ sec \in 0 .. Len(sections) /\ off \in Nat
  BY LoadTypes
<1>1. /\ sec' = sec + 1 /\ off' = 0 /\ UNCHANGED <<sections, ram>>
      /\ sec < Len(sections) /\ lpc = "header"
  BY DEF ReadHeader
<1>2. sec > 0 => off = sections[sec].size
  BY <1>1 DEF PlaceInv, Here
<1> SUFFICES ASSUME NEW b \in Block PROVE ByteRight(b)'
  BY DEF RamInv
<1>3. ByteRight(b)
  BY <1>1 DEF RamInv, Loading
<1>4. ASSUME NEW k \in 1 .. sec
      PROVE  /\ HasByte(k, b)' <=> HasByte(k, b)
             /\ HasPad(k, b)' <=> HasPad(k, b)
  <2>1. Moved(k)' = Moved(k)
    BY <1>0, <1>1, <1>2 DEF Moved
  <2> QED
    BY <1>1, <2>1 DEF HasByte, HasPad
<1>5. ASSUME NEW k \in (sec + 1) .. sec'
      PROVE  ~Touched(k, b)'
  <2>1. k = sec' /\ k = sec + 1
    BY <1>0, <1>1
  <2>2. Moved(k)' = 0
    BY <1>1, <2>1 DEF Moved
  <2>3. sections[k].addr \in Nat /\ sections[k].size \in Nat
    BY <1>0, <1>1, <2>1, SectionType
  <2>4. b \in Int
    BY LoadAssumption DEF Block
  <2>5. ~HasByte(k, b)'
    BY <1>1, <2>2, <2>3, <2>4 DEF HasByte
  <2>6. ~HasPad(k, b)'
    BY <1>1, <2>2, <2>3 DEF HasPad, IsPad
  <2> QED
    BY <2>5, <2>6 DEF Touched
<1> QED
  BY <1>0, <1>1, <1>3, <1>4, <1>5, ByteStays

(* A chunk adds to the section its next bytes, and behind an odd section   *)
(* the byte that the driver moves along.                                   *)
LEMMA RamChunk ==
  ASSUME LoadIInv, Chunk
  PROVE  RamInv'
<1> USE DEF LoadIInv
<1>0. Len(sections) \in Nat /\ sec \in 0 .. Len(sections) /\ off \in Nat
  BY LoadTypes
<1>1. sec > 0 /\ off < Here.size /\ off % 2 = 0
  BY DEF Chunk, PlaceInv
<1>2. Here.size \in Nat /\ Here.addr \in Nat /\ Here = sections[sec]
  BY <1>0, <1>1, SectionType DEF Here
<1>3. UNCHANGED <<sec, sections>> /\ off' = off + ThisMuch
  BY DEF Chunk, NextOffset, asked
<1>4. ThisMuch \in Nat /\ off + ThisMuch <= Here.size
  BY <1>0, <1>1, <1>2, MoveLength DEF ThisMuch
<1>5. ThisMuch % 2 = 1 <=> off' = Here.size /\ Here.size % 2 = 1
  <2>1. CASE Here.size - off < ChunkSize
    <3>1. ThisMuch = Here.size - off /\ off' = Here.size
      BY <1>0, <1>2, <1>3, <2>1 DEF ThisMuch
    <3>2. (Here.size - off) % 2 = Here.size % 2
      BY <1>0, <1>1, <1>2, Parity
    <3> QED
      BY <3>1, <3>2
  <2>2. CASE ~(Here.size - off < ChunkSize)
    <3>1. off' = off + ChunkSize /\ ThisMuch = ChunkSize
      BY <1>3, <2>2 DEF ThisMuch
    <3>2. off' % 2 = 0
      BY <1>0, <1>1, <3>1, ChunkType, EvenAfter
    <3> QED
      BY <3>1, <3>2, ChunkType
  <2> QED
    BY <2>1, <2>2
<1> SUFFICES ASSUME NEW b \in Block PROVE ByteRight(b)'
  BY DEF RamInv
<1>6. b \in Int /\ ByteRight(b)
  BY LoadAssumption DEF Chunk, RamInv, Loading, Block
<1>7. HasByte(sec, b)' <=> HasByte(sec, b) \/ b \in At .. (At + ThisMuch - 1)
  <2>1. HasByte(sec, b) <=> b >= Here.addr /\ b < Here.addr + off
    BY <1>2 DEF HasByte, Moved
  <2>2. HasByte(sec, b)' <=> b >= Here.addr /\ b < Here.addr + (off + ThisMuch)
    BY <1>2, <1>3 DEF HasByte, Moved
  <2>3. PICK a \in Nat, o \in Nat, n \in Nat : a = Here.addr /\ o = off /\ n = ThisMuch
    BY <1>0, <1>2, <1>4
  <2>4. At = a + o
    BY <2>3 DEF At
  <2>5. b >= a /\ b < a + (o + n) <=> (b >= a /\ b < a + o) \/ b \in (a + o) .. (a + o + n - 1)
    BY <1>6
  <2> QED
    BY <2>1, <2>2, <2>3, <2>4, <2>5
<1>8. HasPad(sec, b)' <=> ThisMuch % 2 = 1 /\ b = At + ThisMuch
  <2>1. HasPad(sec, b)' <=> /\ off' = Here.size /\ Here.size % 2 = 1
                            /\ b = Here.addr + Here.size
    BY <1>2, <1>3 DEF HasPad, Moved, IsPad
  <2>2. off' = Here.size => At + ThisMuch = Here.addr + Here.size
    <3>1. PICK a \in Nat, o \in Nat, n \in Nat, z \in Nat :
            a = Here.addr /\ o = off /\ n = ThisMuch /\ z = Here.size
      BY <1>0, <1>2, <1>4
    <3>2. o + n = z => (a + o) + n = a + z
      OBVIOUS
    <3> QED
      BY <1>3, <3>1, <3>2 DEF At
  <2> QED
    BY <1>5, <2>1, <2>2
<1>9. ~HasPad(sec, b)
  BY <1>1, <1>2 DEF HasPad, Moved
<1>10. ram'[b] = IF b \in At .. (At + ThisMuch - 1) THEN sec
                 ELSE IF ThisMuch % 2 = 1 /\ b = At + ThisMuch THEN Stale
                 ELSE ram[b]
  <2>1. At \in Nat
    BY <1>0, <1>2 DEF At
  <2> QED
    BY <1>4, <1>6, <2>1 DEF Chunk, EvenLength
<1>11. Untouched(sec, b)'
  BY <1>0, <1>3 DEF Untouched
<1>12. CASE b \in At .. (At + ThisMuch - 1)
  BY <1>0, <1>1, <1>3, <1>7, <1>10, <1>11, <1>12 DEF ByteRight
<1>13. CASE b \notin At .. (At + ThisMuch - 1) /\ ThisMuch % 2 = 1 /\ b = At + ThisMuch
  <2>1. ram'[b] = Stale
    BY <1>10, <1>13
  <2>2. sec \in 1 .. sec' /\ HasPad(sec, b)'
    BY <1>0, <1>1, <1>3, <1>8, <1>13
  <2> QED
    BY <1>3, <1>11, <2>1, <2>2 DEF ByteRight
<1>14. CASE b \notin At .. (At + ThisMuch - 1) /\ ~(ThisMuch % 2 = 1 /\ b = At + ThisMuch)
  <2>1. ram'[b] = ram[b]
    BY <1>10, <1>14
  <2>2. ASSUME NEW k \in 1 .. sec
        PROVE  /\ HasByte(k, b)' <=> HasByte(k, b)
               /\ HasPad(k, b)' <=> HasPad(k, b)
    <3>1. CASE k = sec
      BY <1>3, <1>7, <1>8, <1>9, <1>14, <3>1
    <3>2. CASE k # sec
      BY <1>3, <3>2 DEF HasByte, HasPad, Moved
    <3> QED
      BY <3>1, <3>2
  <2>3. sec \in Nat /\ sec' = sec
    BY <1>0, <1>3
  <2>4. \A k \in (sec + 1) .. sec' : ~Touched(k, b)'
    BY <2>3
  <2> QED
    BY <1>6, <2>1, <2>2, <2>3, <2>4, ByteStays
<1> QED
  BY <1>12, <1>13, <1>14

LEMMA RamNext ==
  ASSUME LoadIInv, [LoadNext]_loadVars
  PROVE  RamInv'
<1> USE DEF LoadIInv, asked, memory
<1>1. CASE lpc' \notin Loading
  BY <1>1 DEF RamInv
<1>2. CASE ReadSignature /\ lpc' = "header"
  <2>1. sec' = 0 /\ ram' = [b \in Block |-> Zero]
    BY <1>2 DEF ReadSignature, BlockInv
  <2>2. ASSUME NEW b \in Block PROVE ByteRight(b)'
    <3>1. ram'[b] = Zero
      BY <2>1
    <3>2. Untouched(0, b)'
      BY <2>1 DEF Untouched
    <3> QED
      BY <3>1, <3>2 DEF ByteRight
  <2> QED
    BY <2>2 DEF RamInv
<1>3. CASE ReadLastHeader \/ EnableA20 \/ Launch \/ UNCHANGED loadVars
  <2>1. UNCHANGED <<sections, sec, off, ram>>
    BY <1>3 DEF ReadLastHeader, EnableA20, Launch, loadVars
  <2>2. lpc' \in Loading => lpc \in Loading
    BY <1>3 DEF ReadLastHeader, EnableA20, Launch, loadVars, Loading
  <2>3. ASSUME NEW b \in Block, ByteRight(b) PROVE ByteRight(b)'
    BY <2>1, <2>3 DEF ByteRight, Untouched, Touched, HasByte, HasPad, Moved
  <2> QED
    BY <2>2, <2>3 DEF RamInv
<1>4. CASE \/ StartLoad \/ QueryFree \/ Allocate \/ Lock \/ ZeroBlock \/ OpenImageFile
           \/ ReadFails \/ MoveFails \/ MainError \/ ExitSigHandler
           \/ ReadSignature /\ lpc' # "header"
  <2>1. lpc' \notin Loading
    BY <1>4 DEF StartLoad, QueryFree, Allocate, Lock, ZeroBlock, OpenImageFile,
                ReadFails, MoveFails, MainError, ExitSigHandler, ToDos, ReadSignature, Loading
  <2> QED
    BY <1>1, <2>1
<1> QED
  BY <1>2, <1>3, <1>4, RamHeader, RamChunk DEF LoadNext, LoadStep

LEMMA LoadIInvNext == LoadIInv /\ [LoadNext]_loadVars => LoadIInv'
  BY LoadTypeNext, BlockNext, PlaceNext, RamNext DEF LoadIInv
-----------------------------------------------------------------------------
LEMMA LoadIInvRight ==
  ASSUME LoadIInv
  PROVE  LoadRight
<1> USE DEF LoadIInv
<1>1. XmsGivenBack
  BY DEF XmsGivenBack, BlockInv, Early
<1>2. ASSUME lpc = "launched", NEW b \in Block
      PROVE  LET covering == {k \in 1 .. Len(sections) : Covers(sections[k], b)}
                 padding == {k \in 1 .. Len(sections) : IsPad(sections[k], b)}
                 last == CHOOSE k \in covering \cup padding :
                           \A j \in covering \cup padding : j <= k
             IN  ram[b] = IF covering \cup padding = {} THEN Zero
                          ELSE IF last \in covering THEN last ELSE Stale
  <2> DEFINE covering == {k \in 1 .. Len(sections) : Covers(sections[k], b)}
             padding == {k \in 1 .. Len(sections) : IsPad(sections[k], b)}
             last == CHOOSE k \in covering \cup padding :
                       \A j \in covering \cup padding : j <= k
  <2>1. Len(sections) \in Nat /\ sec = Len(sections) /\ b \in Int
    BY <1>2, LoadTypes, LoadAssumption DEF PlaceInv, Block
  <2>2. ASSUME NEW k \in 1 .. Len(sections)
        PROVE  /\ HasByte(k, b) <=> k \in covering
               /\ HasPad(k, b) <=> k \in padding
               /\ ~(k \in covering /\ k \in padding)
    <3>1. Moved(k) = sections[k].size
      BY <1>2, <2>1 DEF PlaceInv, Moved, Here
    <3>2. sections[k].addr \in Nat /\ sections[k].size \in Nat
      BY SectionType
    <3> QED
      BY <2>1, <3>1, <3>2 DEF HasByte, HasPad, Covers, IsPad
  <2>3. ByteRight(b)
    BY <1>2 DEF RamInv, Loading
  <2>4. CASE ram[b] = Zero /\ Untouched(0, b)
    <3>1. ASSUME NEW k \in covering \cup padding PROVE FALSE
      <4>1. k \in 1 .. Len(sections)
        OBVIOUS
      <4>2. ~Touched(k, b)
        BY <2>1, <2>4, <4>1 DEF Untouched
      <4> QED
        BY <2>2, <4>1, <4>2 DEF Touched
    <3> QED
      BY <2>4, <3>1
  <2>5. ASSUME NEW k \in 1 .. sec, HasByte(k, b) \/ HasPad(k, b), Untouched(k, b)
        PROVE  k \in covering \cup padding /\ last = k
    <3>1. k \in covering \cup padding /\ k \in 1 .. Len(sections)
      BY <2>1, <2>2, <2>5
    <3>2. ASSUME NEW j \in covering \cup padding PROVE j <= k
      <4>1. j \in 1 .. Len(sections)
        OBVIOUS
      <4>2. Touched(j, b)
        BY <2>2, <4>1 DEF Touched
      <4> QED
        BY <2>1, <2>5, <4>1, <4>2 DEF Untouched
    <3>3. \A i, j \in covering \cup padding : i <= j /\ j <= i => i = j
      OBVIOUS
    <3> QED
      BY <3>1, <3>2, <3>3
  <2>6. ASSUME NEW k \in 1 .. sec, ram[b] = k, HasByte(k, b), Untouched(k, b)
        PROVE  ram[b] = IF covering \cup padding = {} THEN Zero
                        ELSE IF last \in covering THEN last ELSE Stale
    <3>1. k \in covering
      BY <2>1, <2>2, <2>6
    <3>2. last = k
      BY <2>5, <2>6
    <3> HIDE DEF last
    <3> QED
      BY <2>6, <3>1, <3>2
  <2>7. ASSUME NEW k \in 1 .. sec, ram[b] = Stale, HasPad(k, b), Untouched(k, b)
        PROVE  ram[b] = IF covering \cup padding = {} THEN Zero
                        ELSE IF last \in covering THEN last ELSE Stale
    <3>1. k \in padding /\ k \notin covering
      BY <2>1, <2>2, <2>7
    <3>2. last = k
      BY <2>5, <2>7
    <3> HIDE DEF last
    <3> QED
      BY <2>7, <3>1, <3>2
  <2>8. ram[b] = IF covering \cup padding = {} THEN Zero
                 ELSE IF last \in covering THEN last ELSE Stale
    BY <2>3, <2>4, <2>6, <2>7 DEF ByteRight
  <2> QED
    BY <2>8
<1>3. lpc = "launched" => block = "locked"
  BY DEF BlockInv, Holding
<1>4. MemoryAtLaunch
  BY <1>2, <1>3 DEF MemoryAtLaunch
<1> QED
  BY <1>1, <1>4 DEF LoadRight

(* Whatever images there are, wherever the block lies and however long it  *)
(* is, and whatever fails or is interrupted: loadcepc returns to DOS only  *)
(* with the block given back, and starts an image only when every byte of  *)
(* the block is what the image says, later sections over earlier ones.     *)
THEOREM LoadRightHolds == LoadSpec => []LoadRight
<1>1. LoadInit => LoadIInv
  BY LoadInitIInv
<1>2. LoadIInv /\ [LoadNext]_loadVars => LoadIInv'
  BY LoadIInvNext
<1>3. LoadIInv => LoadRight
  BY LoadIInvRight
<1> QED
  BY <1>1, <1>2, <1>3, PTL DEF LoadSpec
-----------------------------------------------------------------------------
(* The file commands.  What is in a local file is as new as its time says; *)
(* the versions asked for, found and read follow each other in time.       *)
InHand == {"check", "create", "ropen", "read"}
VersionInv ==
  /\ \A n \in Names : local[n].content \in Times => Even(local[n].content) >= local[n].time
  /\ tpc \notin {"dos", "find"} => time <= host[cur]
  /\ tpc = "read" => got \in Times /\ time <= got

WantedInv ==
  /\ \A f \in DOMAIN wanted : wanted[f] \in Times /\ wanted[f] <= host[f]
  /\ tpc \in InHand /\ cur \in DOMAIN wanted => wanted[cur] <= time
  /\ DOMAIN wanted # {} => toDir /\ flag # "r"

(* Every file asked for is still to come, in hand, or delivered, unless    *)
(* something went wrong.                                                   *)
Delivered(f) ==
  local[f].content = Cut \/ Even(local[f].content) >= Even(wanted[f])
ProgressInv ==
  /\ tpc = "close" /\ toDir => failed # "nothing"
  /\ failed = "nothing" =>
       \A f \in DOMAIN wanted : f \in todo \/ (f = cur /\ tpc \in InHand) \/ Delivered(f)

ToolIInv == SearchClosed /\ VersionInv /\ WantedInv /\ ProgressInv

LEMMA EvenType ==
  ASSUME NEW t \in Nat
  PROVE  Even(t) \in Nat /\ Even(t) <= t /\ Even(Even(t)) = Even(t)
  BY DEF Even

LEMMA EvenMonotone ==
  ASSUME NEW t \in Nat, NEW u \in Nat, t <= u
  PROVE  Even(t) <= Even(u)
  BY DEF Even

(* The file a search begins at is any file.                                *)
LEMMA AnyFile == (CHOOSE f \in Files : TRUE) \in Files
  BY ToolAssumption

LEMMA NoWishes == DOMAIN << >> = {}
  OBVIOUS

LEMMA ToolInitIInv == ToolInit => ToolIInv
<1> SUFFICES ASSUME ToolInit PROVE ToolIInv
  OBVIOUS
<1> USE DEF ToolInit
<1>1. 2 \in Times /\ 2 \in EvenTimes
  <2>1. 2 \in Times
    BY ToolAssumption DEF Times
  <2>2. Even(2) = 2
    BY DEF Even
  <2> QED
    BY <2>1, <2>2 DEF EvenTimes
<1>2. ToolTypeOK
  BY <1>1, AnyFile, NoWishes DEF ToolTypeOK, Absent
<1>3. SearchClosed
  BY <1>2 DEF SearchClosed
<1>4. VersionInv
  BY DEF VersionInv, Absent, None, Times
<1>5. WantedInv
  BY NoWishes DEF WantedInv, InHand
<1>6. ProgressInv
  BY NoWishes DEF ProgressInv
<1> QED
  BY <1>3, <1>4, <1>5, <1>6 DEF ToolIInv

LEMMA ToolTypeNext ==
  ASSUME ToolTypeOK, [ToolNext]_toolVars
  PROVE  ToolTypeOK'
<1> USE DEF ToolTypeOK, command, found, copied
<1>1. CASE HostUpdates
  <2>1. PICK f \in Files : host[f] < MaxTime /\ host' = [host EXCEPT ![f] = @ + 1]
    BY <1>1 DEF HostUpdates
  <2>2. host[f] + 1 \in Times
    BY <2>1, ToolAssumption DEF Times
  <2>3. host' \in [Files -> Times]
    BY <2>1, <2>2
  <2> QED
    BY <1>1, <2>3 DEF HostUpdates
<1>2. CASE StartTool
  <2>1. DOMAIN wanted' \subseteq Files
    BY <1>2 DEF StartTool
  <2> QED
    BY <1>2, <2>1 DEF StartTool
<1>3. ASSUME Stop, UNCHANGED <<host, local>>, search' \in BOOLEAN,
             failed' \in {"nothing", "file", "search"}
      PROVE  ToolTypeOK'
  <2>1. 2 \in Times
    BY ToolAssumption DEF Times
  <2> QED
    BY <1>3, <2>1, AnyFile, NoWishes DEF Stop
<1>4. ASSUME NEW f \in Files, Finds(f)
      PROVE  todo' \subseteq Files /\ cur' \in Files /\ time' \in Times
  BY <1>4 DEF Finds
<1>5. CASE FindFirst
  BY <1>3, <1>4, <1>5 DEF FindFirst, CallWorks, SearchFails
<1>6. CASE Check
  BY <1>6 DEF Check
<1>7. Destination \in Names
  BY DEF Destination, Names
<1>8. CASE Create
  <2>1. local' \in [Names -> [content : Times \cup {None, Cut}, time : EvenTimes]]
    BY <1>7, <1>8 DEF Create
  <2>2. /\ tpc' \in {"ropen", "close"} /\ whole' \in BOOLEAN
        /\ failed' \in {"nothing", "file", "search"}
    BY <1>8 DEF Create
  <2> QED
    BY <1>8, <2>1, <2>2 DEF Create
<1>9. CASE ROpen
  <2>1. got' \in Times \cup {None} /\ tpc' \in {"read", "close"}
    BY <1>9 DEF ROpen
  <2>2. lost' \in BOOLEAN /\ failed' \in {"nothing", "file", "search"}
    BY <1>9 DEF ROpen, CallWorks, CallFails
  <2> QED
    BY <1>9, <2>1, <2>2 DEF ROpen
<1>10. CASE Read
  BY <1>10 DEF Read
<1>11. CASE ReadEnd
  <2>1. Even(time) \in EvenTimes
    BY DEF EvenTimes
  <2>2. local' \in [Names -> [content : Times \cup {None, Cut}, time : EvenTimes]]
    BY <1>7, <1>11, <2>1 DEF ReadEnd, Stamp
  <2> QED
    BY <1>11, <2>2 DEF ReadEnd
<1>12. CASE CopyFails
  <2>1. Even(2) \in EvenTimes /\ Even(2) = 2
    BY ToolAssumption DEF EvenTimes, Times, Even
  <2>2. local' \in [Names -> [content : Times \cup {None, Cut}, time : EvenTimes]]
    BY <1>7, <1>12, <2>1 DEF CopyFails, Absent
  <2> QED
    BY <1>12, <2>2 DEF CopyFails, CallFails
<1>13. CASE FindNext
  BY <1>4, <1>13 DEF FindNext
<1>14. CASE FindNoMore
  BY <1>3, <1>14 DEF FindNoMore
<1>15. CASE FindNextFails \/ CtrlC
  BY <1>3, <1>15 DEF FindNextFails, CtrlC, SearchFails
<1>16. CASE CloseSearch
  BY <1>3, <1>16 DEF CloseSearch, SearchFails
<1>17. CASE UNCHANGED toolVars
  BY <1>17 DEF toolVars
<1> QED
  BY <1>1, <1>2, <1>5, <1>6, <1>8, <1>9, <1>10, <1>11, <1>12, <1>13, <1>14,
     <1>15, <1>16, <1>17 DEF ToolNext

LEMMA SearchNext ==
  ASSUME SearchClosed, [ToolNext]_toolVars
  PROVE  SearchClosed'
<1>1. ToolTypeOK'
  BY ToolTypeNext DEF SearchClosed
<1>2. (tpc = "dos" /\ search => failed = "search")'
  BY DEF SearchClosed, ToolNext, HostUpdates, StartTool, FindFirst, Check, Create, ROpen,
         Read, ReadEnd, CopyFails, FindNext, FindNoMore, FindNextFails, CloseSearch, CtrlC,
         Stop, SearchFails, CallWorks, CallFails, toolVars, command, found, copied
<1> QED
  BY <1>1, <1>2 DEF SearchClosed

LEMMA VersionNext ==
  ASSUME ToolTypeOK, VersionInv, [ToolNext]_toolVars
  PROVE  VersionInv'
<1> USE DEF VersionInv, command, found, copied
<1>0. /\ Destination \in Names /\ cur \in Files /\ time \in Nat
      /\ \A f \in Files : host[f] \in Nat
  BY DEF ToolTypeOK, Destination, Names, Times
<1>1. CASE HostUpdates
  <2>1. \A f \in Files : host[f] <= host'[f]
    BY <1>0, <1>1 DEF HostUpdates, ToolTypeOK
  <2>2. host'[cur] \in Nat
    BY <1>0, <1>1 DEF HostUpdates, ToolTypeOK
  <2> QED
    BY <1>0, <1>1, <2>1, <2>2 DEF HostUpdates
<1>2. CASE StartTool
  BY <1>2 DEF StartTool
<1>3. ASSUME Stop, UNCHANGED <<host, local>>
      PROVE  VersionInv'
  BY <1>3 DEF Stop
<1>4. ASSUME NEW f \in Files, Finds(f), UNCHANGED <<host, local>>, tpc' # "read"
      PROVE  VersionInv'
  BY <1>0, <1>4 DEF Finds
<1>5. CASE FindFirst
  BY <1>3, <1>4, <1>5 DEF FindFirst, SearchFails
<1>6. CASE Check
  BY <1>6 DEF Check
<1>7. ASSUME NEW v, local' = [local EXCEPT ![Destination] = v],
             v.content \in Times => Even(v.content) >= v.time
      PROVE  \A n \in Names :
               local'[n].content \in Times => Even(local'[n].content) >= local'[n].time
  BY <1>0, <1>7 DEF ToolTypeOK
<1>8. CASE Create
  <2>1. CASE UNCHANGED local
    BY <1>8, <2>1 DEF Create
  <2>2. ASSUME NEW now, local' = [local EXCEPT ![Destination] = [content |-> Cut, time |-> now]]
        PROVE  VersionInv'
    <3>1. Cut \notin Times
      BY DEF Cut, Times
    <3>2. \A n \in Names :
            local'[n].content \in Times => Even(local'[n].content) >= local'[n].time
      BY <1>7, <2>2, <3>1
    <3> QED
      BY <1>8, <3>2 DEF Create
  <2> QED
    BY <1>8, <2>1, <2>2 DEF Create
<1>9. CASE ROpen
  BY <1>0, <1>9 DEF ROpen, ToolTypeOK
<1>10. CASE Read
  BY <1>10 DEF Read
<1>11. CASE ReadEnd
  <2> DEFINE v == [content |-> IF whole THEN got ELSE Cut, time |-> Even(time)]
  <2>1. local' = [local EXCEPT ![Destination] = v]
    BY <1>11 DEF ReadEnd, Stamp
  <2>2. got \in Nat /\ time <= got /\ Cut \notin Times
    BY <1>11 DEF ReadEnd, Times, Cut
  <2>3. v.content \in Times => Even(v.content) >= v.time
    <3>1. Even(time) <= Even(got)
      BY <1>0, <2>2, EvenMonotone
    <3>2. Even(time) \in Nat /\ Even(got) \in Nat
      BY <1>0, <2>2, EvenType
    <3> QED
      BY <2>2, <3>1, <3>2
  <2>4. \A n \in Names :
          local'[n].content \in Times => Even(local'[n].content) >= local'[n].time
    <3> HIDE DEF v
    <3> QED
      BY <1>7, <2>1, <2>3
  <2> QED
    BY <1>11, <2>4 DEF ReadEnd
<1>12. CASE CopyFails
  <2>1. Absent.content \notin Times
    BY DEF Absent, None, Times
  <2>2. \A n \in Names :
          local'[n].content \in Times => Even(local'[n].content) >= local'[n].time
    BY <1>7, <1>12, <2>1 DEF CopyFails
  <2> QED
    BY <1>12, <2>2 DEF CopyFails
<1>13. CASE FindNext
  BY <1>4, <1>13 DEF FindNext
<1>14. CASE FindNoMore \/ FindNextFails \/ CtrlC \/ CloseSearch
  BY <1>3, <1>14 DEF FindNoMore, FindNextFails, CtrlC, CloseSearch, SearchFails
<1>15. CASE UNCHANGED toolVars
  BY <1>15 DEF toolVars
<1> QED
  BY <1>1, <1>2, <1>5, <1>6, <1>8, <1>9, <1>10, <1>11, <1>12, <1>13, <1>14, <1>15
     DEF ToolNext

LEMMA WantedNext ==
  ASSUME ToolTypeOK, VersionInv, WantedInv, [ToolNext]_toolVars
  PROVE  WantedInv'
<1> USE DEF WantedInv, InHand, command, found, copied
<1>0. /\ cur \in Files /\ time \in Nat /\ DOMAIN wanted \subseteq Files
      /\ \A f \in Files : host[f] \in Nat
      /\ \A f \in DOMAIN wanted : wanted[f] \in Nat
  BY DEF ToolTypeOK, Times
<1>1. CASE HostUpdates
  <2>1. \A f \in Files : host'[f] \in Nat /\ host[f] <= host'[f]
    BY <1>0, <1>1 DEF HostUpdates, ToolTypeOK
  <2>2. \A f \in DOMAIN wanted : wanted[f] <= host'[f]
    BY <1>0, <2>1
  <2> QED
    BY <1>1, <2>2 DEF HostUpdates
<1>2. CASE StartTool
  <2> DEFINE Wished == IF toDir' /\ flag' # "r" THEN todo' ELSE {}
  <2>1. wanted' = [f \in Wished |-> host[f]] /\ host' = host /\ tpc' = "find"
    BY <1>2 DEF StartTool
  <2>2. DOMAIN wanted' = Wished /\ Wished \subseteq Files
    BY <1>2 DEF StartTool
  <2>3. \A f \in Wished : wanted'[f] = host[f] /\ host[f] \in Times /\ host[f] \in Nat
    BY <1>0, <2>1, <2>2 DEF ToolTypeOK
  <2> QED
    BY <2>1, <2>2, <2>3
<1>3. ASSUME Stop
      PROVE  WantedInv'
  BY <1>3, NoWishes DEF Stop
<1>4. ASSUME NEW f \in Files, Finds(f), UNCHANGED <<command, host>>
      PROVE  WantedInv'
  BY <1>0, <1>4 DEF Finds
<1>5. CASE FindFirst
  BY <1>3, <1>4, <1>5 DEF FindFirst, SearchFails
<1>6. CASE Check \/ Create \/ ROpen \/ Read \/ ReadEnd \/ CopyFails
  <2>1. UNCHANGED <<command, cur, time, host>> /\ tpc \in InHand
    BY <1>6 DEF Check, Create, ROpen, Read, ReadEnd, CopyFails
  <2> QED
    BY <2>1
<1>7. CASE FindNext
  BY <1>4, <1>7 DEF FindNext
<1>8. CASE FindNoMore \/ FindNextFails \/ CtrlC \/ CloseSearch
  BY <1>3, <1>8 DEF FindNoMore, FindNextFails, CtrlC, CloseSearch, SearchFails
<1>9. CASE UNCHANGED toolVars
  BY <1>9 DEF toolVars
<1> QED
  BY <1>1, <1>2, <1>5, <1>6, <1>7, <1>8, <1>9 DEF ToolNext

(* A copy that is up to date delivers: what is in it is no older than its  *)
(* time says, and that is no older than the version wanted.                *)
LEMMA UpToDateDelivers ==
  ASSUME ToolTypeOK, VersionInv, WantedInv, tpc = "check", UpToDate,
         cur \in DOMAIN wanted
  PROVE  Delivered(cur)
<1>1. wanted[cur] \in Nat /\ time \in Nat /\ wanted[cur] <= time /\ Destination = cur
  BY DEF WantedInv, InHand, ToolTypeOK, Times, Destination
<1>2. Even(wanted[cur]) <= Even(time) /\ Even(wanted[cur]) \in Nat /\ Even(time) \in Nat
  BY <1>1, EvenMonotone, EvenType
<1>3. cur \in Names /\ local[cur] \in [content : Times \cup {None, Cut}, time : EvenTimes]
  BY DEF ToolTypeOK, Names
<1>4. PICK t \in Times : local[cur].time = Even(t)
  BY <1>3 DEF EvenTimes
<1>5. Even(local[cur].time) = local[cur].time /\ local[cur].time \in Nat
  BY <1>4, EvenType DEF Times
<1>6. local[cur].time >= Even(time) /\ local[cur].content # None
  BY <1>1, <1>5 DEF UpToDate, Exists
<1>7. CASE local[cur].content = Cut
  BY <1>7 DEF Delivered
<1>8. CASE local[cur].content \in Times
  <2>1. local[cur].content \in Nat /\ Even(local[cur].content) \in Nat
    BY <1>8, EvenType DEF Times
  <2>2. Even(local[cur].content) >= local[cur].time
    BY <1>3, <1>8 DEF VersionInv
  <2> QED
    BY <1>2, <1>5, <1>6, <2>1, <2>2 DEF Delivered
<1> QED
  BY <1>3, <1>6, <1>7, <1>8

LEMMA ProgressNext ==
  ASSUME ToolIInv, [ToolNext]_toolVars
  PROVE  ProgressInv'
<1> USE DEF ToolIInv, ProgressInv, InHand, command, found, copied
<1>0. ToolTypeOK /\ cur \in Files /\ DOMAIN wanted \subseteq Files
  BY DEF SearchClosed, ToolTypeOK
<1>1. ASSUME UNCHANGED <<local, wanted>>, NEW f, Delivered(f)
      PROVE  Delivered(f)'
  BY <1>1 DEF Delivered
<1>2. CASE HostUpdates
  BY <1>1, <1>2 DEF HostUpdates
<1>3. CASE StartTool
  <2>1. DOMAIN wanted' \subseteq todo' /\ tpc' = "find"
    BY <1>3 DEF StartTool
  <2> QED
    BY <2>1
<1>4. ASSUME Stop PROVE ProgressInv'
  BY <1>4, NoWishes DEF Stop
<1>5. ASSUME NEW f \in Files, Finds(f), tpc \notin InHand, UNCHANGED <<command, failed, local>>,
             tpc' = IF toDir THEN "check" ELSE "close"
      PROVE  ProgressInv'
  <2>1. ASSUME failed = "nothing", NEW g \in DOMAIN wanted
        PROVE  g \in todo' \/ (g = cur' /\ tpc' \in InHand) \/ Delivered(g)'
    <3>1. toDir
      BY <2>1 DEF WantedInv
    <3>2. g \in todo \/ Delivered(g)
      BY <1>5, <2>1
    <3> QED
      BY <1>1, <1>5, <3>1, <3>2 DEF Finds
  <2> QED
    BY <1>5, <2>1
<1>6. CASE FindFirst
  <2>1. CASE SearchFails
    BY <1>4, <2>1 DEF SearchFails
  <2>2. CASE /\ CallWorks /\ tpc' = "check" /\ UNCHANGED command
             /\ \E f \in Files : Finds(f)
    <3>1. PICK f \in Files : Finds(f)
      BY <2>2
    <3>2. ASSUME failed = "nothing", NEW g \in DOMAIN wanted
          PROVE  g \in todo' \/ (g = cur' /\ tpc' \in InHand) \/ Delivered(g)'
      <4>1. g \in todo \/ Delivered(g)
        BY <1>6, <3>2 DEF FindFirst
      <4>2. UNCHANGED <<local, wanted>>
        BY <1>6, <2>2 DEF FindFirst, CallWorks
      <4> QED
        BY <1>1, <2>2, <3>1, <4>1, <4>2 DEF Finds
    <3>3. UNCHANGED <<wanted, failed>>
      BY <1>6, <2>2 DEF FindFirst, CallWorks
    <3> QED
      BY <2>2, <3>2, <3>3
  <2> QED
    BY <1>6, <2>1, <2>2 DEF FindFirst
<1>7. CASE Check
  <2>1. ASSUME failed = "nothing", NEW g \in DOMAIN wanted
        PROVE  g \in todo \/ (g = cur /\ tpc' \in InHand) \/ Delivered(g)'
    <3>1. CASE g = cur /\ tpc' \notin InHand
      <4>1. UpToDate
        BY <1>7, <2>1, <3>1 DEF Check, WantedInv, Skipped
      <4> QED
        BY <1>0, <1>1, <1>7, <2>1, <3>1, <4>1, UpToDateDelivers DEF Check
    <3>2. CASE g = cur /\ tpc' \in InHand
      BY <3>2
    <3>3. CASE g # cur
      BY <1>1, <1>7, <2>1, <3>3 DEF Check
    <3> QED
      BY <3>1, <3>2, <3>3
  <2> QED
    BY <1>7, <2>1 DEF Check
<1>8. ASSUME NEW v, local' = [local EXCEPT ![Destination] = v],
             UNCHANGED <<command, todo, found>>, tpc \in InHand, failed = "nothing",
             NEW g \in DOMAIN wanted, g # cur
      PROVE  g \in todo' \/ Delivered(g)'
  <2>1. Destination = cur
    BY <1>8 DEF WantedInv, Destination
  <2>2. local'[g] = local[g]
    BY <1>0, <1>8, <2>1 DEF ToolTypeOK
  <2> QED
    BY <1>8, <2>2 DEF Delivered
<1>9. CASE Create
  <2>1. CASE tpc' = "close"
    BY <1>9, <2>1 DEF Create
  <2>2. CASE tpc' = "ropen"
    <3>1. PICK now : local' = [local EXCEPT ![Destination] = [content |-> Cut, time |-> now]]
      BY <1>9, <2>2 DEF Create
    <3>2. ASSUME failed = "nothing", NEW g \in DOMAIN wanted
          PROVE  g \in todo' \/ (g = cur' /\ tpc' \in InHand) \/ Delivered(g)'
      BY <1>8, <1>9, <2>2, <3>1, <3>2 DEF Create
    <3> QED
      BY <1>9, <2>2, <3>2 DEF Create
  <2> QED
    BY <1>9, <2>1, <2>2 DEF Create
<1>10. CASE ROpen
  BY <1>1, <1>10 DEF ROpen, CallWorks, CallFails
<1>11. CASE Read
  BY <1>1, <1>11 DEF Read
<1>12. CASE ReadEnd
  <2> DEFINE v == [content |-> IF whole THEN got ELSE Cut, time |-> Even(time)]
  <2>1. local' = [local EXCEPT ![Destination] = v]
    BY <1>12 DEF ReadEnd, Stamp
  <2>2. ASSUME failed = "nothing", NEW g \in DOMAIN wanted
        PROVE  g \in todo \/ Delivered(g)'
    <3>1. CASE g # cur
      <4> HIDE DEF v
      <4> QED
        BY <1>8, <1>12, <2>1, <2>2, <3>1 DEF ReadEnd
    <3>2. CASE g = cur /\ ~whole
      <4>1. local'[g].content = Cut
        BY <1>0, <2>1, <2>2, <3>2 DEF WantedInv, Destination, ToolTypeOK, Names
      <4> QED
        BY <4>1 DEF Delivered
    <3>3. CASE g = cur /\ whole
      <4>1. local'[g].content = got
        BY <1>0, <2>1, <2>2, <3>3 DEF WantedInv, Destination, ToolTypeOK, Names
      <4>2. wanted[g] \in Nat /\ got \in Nat /\ time \in Nat /\ wanted[g] <= time /\ time <= got
        BY <1>0, <1>12, <2>2, <3>3 DEF WantedInv, VersionInv, ReadEnd, Times, ToolTypeOK
      <4>3. Even(wanted[g]) <= Even(got) /\ Even(wanted[g]) \in Nat /\ Even(got) \in Nat
        BY <4>2, EvenMonotone, EvenType
      <4>4. wanted' = wanted
        BY <1>12 DEF ReadEnd
      <4> QED
        BY <4>1, <4>3, <4>4 DEF Delivered
    <3> QED
      BY <3>1, <3>2, <3>3
  <2> QED
    BY <1>12, <2>2 DEF ReadEnd
<1>13. CASE CopyFails
  BY <1>13 DEF CopyFails, CallFails
<1>14. CASE FindNext
  BY <1>5, <1>14 DEF FindNext
<1>15. CASE FindNoMore \/ FindNextFails \/ CtrlC \/ CloseSearch
  BY <1>4, <1>15 DEF FindNoMore, FindNextFails, CtrlC, CloseSearch, SearchFails
<1>16. CASE UNCHANGED toolVars
  BY <1>1, <1>16 DEF toolVars
<1> QED
  BY <1>2, <1>3, <1>6, <1>7, <1>9, <1>10, <1>11, <1>12, <1>13, <1>14, <1>15, <1>16
     DEF ToolNext

LEMMA ToolIInvNext == ToolIInv /\ [ToolNext]_toolVars => ToolIInv'
  BY SearchNext, VersionNext, WantedNext, ProgressNext DEF ToolIInv, SearchClosed

(* Whatever files there are and whatever fails: a command of the tool that *)
(* was not interrupted, and whose search did not fail itself, leaves no    *)
(* search open on the host.                                                *)
THEOREM SearchClosedHolds == ToolSpec => []SearchClosed
<1>1. ToolIInv => SearchClosed
  BY DEF ToolIInv
<1> QED
  BY <1>1, ToolInitIInv, ToolIInvNext, PTL DEF ToolSpec

(* However often the host rewrites its files while they are looked for and *)
(* copied, a get or an update that met no failure leaves none of the files *)
(* asked for missing or older than it was when the command began.          *)
THEOREM UpdateDeliversHolds == ToolSpec => UpdateDelivers
<1>1. ASSUME ToolIInv, [ToolNext]_toolVars, tpc # "dos", tpc' = "dos",
             failed' = "nothing", toDir, NEW f \in DOMAIN wanted
      PROVE  Delivered(f)
  <2>1. FindNoMore \/ CloseSearch
    BY <1>1 DEF ToolNext, HostUpdates, StartTool, FindFirst, Check, Create, ROpen, Read,
                ReadEnd, CopyFails, FindNext, FindNextFails, CtrlC, SearchFails, toolVars
  <2>2. FindNoMore
    BY <1>1, <2>1 DEF CloseSearch, SearchFails, ToolIInv, ProgressInv
  <2> QED
    BY <1>1, <2>2 DEF FindNoMore, ToolIInv, ProgressInv, InHand
<1>2. ToolIInv /\ [ToolNext]_toolVars =>
        [tpc # "dos" /\ tpc' = "dos" /\ failed' = "nothing" /\ toDir /\ flag # "r" =>
           \A f \in DOMAIN wanted :
             \/ local[f].content = Cut
             \/ Even(local[f].content) >= Even(wanted[f])]_toolVars
  BY <1>1 DEF Delivered
<1> QED
  BY <1>2, ToolInitIInv, ToolIInvNext, PTL DEF ToolSpec, UpdateDelivers
-----------------------------------------------------------------------------
(* Induction over the numbers, from the least element of a set of them.    *)
LEMMA LeastElement ==
  ASSUME NEW T \in SUBSET Nat, T # {}
  PROVE  \E n \in T : \A m \in T : n <= m
<1> DEFINE R == {p \in Nat \X Nat : p[1] < p[2]}
<1>1. IsWellFoundedOn(R, Nat)
  BY NatLessThanWellFounded DEF OpToRel
<1>2. \E x \in T : \A y \in T : ~(<<y, x>> \in R)
  <2> HIDE DEF R
  <2> QED
    BY <1>1, WFMin
<1>3. \A x, y \in Nat : y < x => <<y, x>> \in R
  OBVIOUS
<1>4. PICK x \in T : \A y \in T : ~(<<y, x>> \in R)
  BY <1>2
<1>5. \A y \in T : ~(y < x)
  BY <1>3, <1>4
<1> QED
  BY <1>5

LEMMA Induction ==
  ASSUME NEW S \in SUBSET Nat, 0 \in S, \A n \in S : n + 1 \in S
  PROVE  S = Nat
<1> SUFFICES ASSUME S # Nat PROVE FALSE
  OBVIOUS
<1>1. PICK n \in Nat \ S : \A m \in Nat \ S : n <= m
  BY LeastElement
<1>2. n # 0 /\ n - 1 \in Nat /\ n - 1 \in S
  BY <1>1
<1> QED
  BY <1>1, <1>2

-----------------------------------------------------------------------------
(* The link of the parallel port: the sums of messages                     *)
Symbols == 0 .. Echo

IsSumTo(s, f) ==
  f = [i \in 0 .. Len(s) |-> IF i = 0 THEN 0 ELSE (f[i - 1] + s[i]) % Byte]

(* f adds up the first n symbols of s.                                     *)
Adds(s, n, f) ==
  f[0] = 0 /\ \A i \in 1 .. n : f[i] = (f[i - 1] + s[i]) % Byte

LEMMA ByteIs == Byte \in Nat \ {0} /\ FF \in Nat /\ FF = Byte - 1 /\ Echo = Byte + 2
                /\ Sig = Byte /\ StopSig = Byte + 1
BY LinkAssumption DEF FF, Echo, Sig, StopSig

LEMMA ModIs == ASSUME NEW n \in Int PROVE n % Byte \in 0 .. FF
BY ByteIs

(* That the sum of a sequence is what its definition says.                 *)
LEMMA SumExists ==
  ASSUME NEW s \in Seq(Nat) PROVE \E f : IsSumTo(s, f)
<1>1. PICK N \in Nat : N = Len(s)
  BY LenProperties
<1> DEFINE S == {n \in Nat : n <= N => \E f \in [0 .. n -> 0 .. FF] : Adds(s, n, f)}
<1>2. 0 \in S
  <2>1. [i \in 0 .. 0 |-> 0] \in [0 .. 0 -> 0 .. FF]
    BY ByteIs
  <2>2. Adds(s, 0, [i \in 0 .. 0 |-> 0])
    BY DEF Adds
  <2> QED
    BY <2>1, <2>2
<1>3. ASSUME NEW n \in S PROVE n + 1 \in S
  <2>0. n \in Nat /\ n + 1 \in Nat
    OBVIOUS
  <2> SUFFICES ASSUME n + 1 <= N
               PROVE  \E g \in [0 .. n + 1 -> 0 .. FF] : Adds(s, n + 1, g)
    BY <2>0
  <2>1. n <= N /\ n \in Nat
    BY <2>0
  <2>2. PICK f \in [0 .. n -> 0 .. FF] : Adds(s, n, f)
    BY <2>1
  <2>3. PICK v : v = (f[n] + s[n + 1]) % Byte
    OBVIOUS
  <2>4. v \in 0 .. FF
    <3>1. f[n] \in Int /\ s[n + 1] \in Int
      BY <1>1, <2>1, ByteIs, ElementOfSeq
    <3>2. f[n] + s[n + 1] \in Int
      BY <3>1
    <3> QED
      BY <2>3, <3>2, ModIs
  <2>5. PICK g : g = [i \in 0 .. n + 1 |-> IF i = n + 1 THEN v ELSE f[i]]
    OBVIOUS
  <2>6. g \in [0 .. n + 1 -> 0 .. FF]
    BY <2>1, <2>4, <2>5
  <2>7. g[n + 1] = v /\ \A i \in 0 .. n : g[i] = f[i]
    BY <2>1, <2>5
  <2>8. Adds(s, n + 1, g)
    <3>1. g[0] = 0
      BY <2>1, <2>2, <2>7 DEF Adds
    <3>2. ASSUME NEW i \in 1 .. n + 1 PROVE g[i] = (g[i - 1] + s[i]) % Byte
      <4>1. CASE i = n + 1
        BY <2>1, <2>3, <2>7, <4>1
      <4>2. CASE i # n + 1
        <5>1. i \in 1 .. n /\ i - 1 \in 0 .. n /\ i \in 0 .. n
          BY <2>1, <4>2
        <5> QED
          BY <2>2, <2>7, <5>1 DEF Adds
      <4> QED
        BY <4>1, <4>2
    <3> QED
      BY <3>1, <3>2 DEF Adds
  <2> QED
    BY <2>6, <2>8
<1> HIDE DEF S
<1>4. S \subseteq Nat
  BY DEF S
<1>5. N \in S
  BY <1>1, <1>2, <1>3, <1>4, Induction
<1>6. PICK f \in [0 .. N -> 0 .. FF] : Adds(s, N, f)
  BY <1>1, <1>5 DEF S
<1>7. ASSUME NEW i \in 0 .. N
      PROVE  f[i] = IF i = 0 THEN 0 ELSE (f[i - 1] + s[i]) % Byte
  BY <1>6 DEF Adds
<1>8. f = [i \in 0 .. N |-> f[i]]
  BY <1>6
<1>9. f = [i \in 0 .. N |-> IF i = 0 THEN 0 ELSE (f[i - 1] + s[i]) % Byte]
  BY <1>7, <1>8
<1> QED
  BY <1>1, <1>9 DEF IsSumTo

LEMMA SumToIs ==
  ASSUME NEW s \in Seq(Nat)
  PROVE  /\ Adds(s, Len(s), SumTo(s))
         /\ \A i \in 0 .. Len(s) : SumTo(s)[i] \in 0 .. FF
<1>1. SumTo(s) = CHOOSE f : IsSumTo(s, f)
  BY DEF SumTo, IsSumTo
<1>2. PICK f : IsSumTo(s, f) /\ f = SumTo(s)
  BY <1>1, SumExists
<1>3. PICK N \in Nat : N = Len(s)
  BY LenProperties
<1>4. f = [i \in 0 .. N |-> IF i = 0 THEN 0 ELSE (f[i - 1] + s[i]) % Byte]
  BY <1>2, <1>3 DEF IsSumTo
<1>5. f[0] = 0
  <2>1. 0 \in 0 .. N
    OBVIOUS
  <2> QED
    BY <1>4, <2>1, Zenon
<1>6. ASSUME NEW i \in 1 .. N PROVE f[i] = (f[i - 1] + s[i]) % Byte
  <2>1. i \in 0 .. N /\ i # 0
    OBVIOUS
  <2>2. f[i] = IF i = 0 THEN 0 ELSE (f[i - 1] + s[i]) % Byte
    BY <1>4, <2>1, Zenon
  <2> QED
    BY <2>1, <2>2
<1>7. Adds(s, N, f)
  BY <1>5, <1>6 DEF Adds
<1> DEFINE S == {n \in Nat : n <= N => f[n] \in 0 .. FF}
<1>8. 0 \in S
  BY <1>5, ByteIs
<1>9. ASSUME NEW n \in S PROVE n + 1 \in S
  <2> SUFFICES ASSUME n + 1 <= N PROVE f[n + 1] \in 0 .. FF
    OBVIOUS
  <2>1. n + 1 \in 1 .. N /\ n <= N /\ (n + 1) - 1 = n
    OBVIOUS
  <2>2. f[n] \in Int
    BY <2>1, ByteIs
  <2>3. s[n + 1] \in Int
    BY <1>3, <2>1, ElementOfSeq
  <2>4. f[n + 1] = (f[n] + s[n + 1]) % Byte
    BY <1>6, <2>1
  <2>5. f[n] + s[n + 1] \in Int
    BY <2>2, <2>3
  <2> QED
    BY <2>4, <2>5, ModIs
<1> HIDE DEF S
<1>10. S \subseteq Nat
  BY DEF S
<1>11. S = Nat
  BY <1>8, <1>9, <1>10, Induction
<1>12. \A i \in 0 .. N : f[i] \in 0 .. FF
  BY <1>11 DEF S
<1> QED
  BY <1>2, <1>3, <1>7, <1>12
LEMMA DivMod ==
  ASSUME NEW n \in Nat \ {0}, NEW a \in Nat
  PROVE  \E q \in Nat, r \in Nat : a = n * q + r /\ r = a % n
<1>1. PICK q \in Int : q = a \div n
  OBVIOUS
<1>2. PICK r \in 0 .. n - 1 : r = a % n
  OBVIOUS
<1>3. n * q <= a /\ a < n * q + n
  BY <1>1
<1>4. q \in Nat
  BY <1>3
<1>5. a = n * q + r
  BY <1>1, <1>2
<1> QED
  BY <1>2, <1>4, <1>5

(* Two values that differ still do when the same is added to both.         *)
LEMMA ShiftDiffers ==
  ASSUME NEW u \in 0 .. FF, NEW v \in 0 .. FF, u # v, NEW w \in Nat
  PROVE  (u + w) % Byte # (v + w) % Byte
<1>1. PICK b \in Nat \ {0} : b = Byte
  BY ByteIs
<1>2. u \in 0 .. b - 1 /\ v \in 0 .. b - 1 /\ u \in Nat /\ v \in Nat
  BY <1>1, ByteIs
<1>3. PICK x \in Nat, y \in Nat : x = u + w /\ y = v + w
  BY <1>2
<1>4. PICK p \in Nat, r \in Nat : x = b * p + r /\ r = x % b
  BY DivMod
<1>5. PICK q \in Nat, s \in Nat : y = b * q + s /\ s = y % b
  BY DivMod
<1> SUFFICES ASSUME r = s PROVE FALSE
  BY <1>1, <1>3, <1>4, <1>5
<1>6. u - v = b * p - b * q
  BY <1>2, <1>3, <1>4, <1>5
<1>7. b * p - b * q = b * (p - q)
  OBVIOUS
<1>8. p - q >= 1 => b * (p - q) >= b
  OBVIOUS
<1>9. p - q <= -1 => b * (p - q) <= -b
  OBVIOUS
<1>10. p # q
  BY <1>2, <1>6
<1> QED
  BY <1>2, <1>6, <1>7, <1>8, <1>9, <1>10

(* The sums of sequences that agree in their first n symbols.              *)
LEMMA SumAgrees ==
  ASSUME NEW s \in Seq(Nat), NEW t \in Seq(Nat), NEW n \in Nat,
         n <= Len(s), n <= Len(t), \A i \in 1 .. n : s[i] = t[i]
  PROVE  \A i \in 0 .. n : SumTo(s)[i] = SumTo(t)[i]
<1>1. PICK f : f = SumTo(s) /\ Adds(s, n, f)
  <2>1. 1 .. n \subseteq 1 .. Len(s)
    BY LenProperties
  <2> QED
    BY <2>1, SumToIs DEF Adds
<1>2. PICK g : g = SumTo(t) /\ Adds(t, n, g)
  <2>1. 1 .. n \subseteq 1 .. Len(t)
    BY LenProperties
  <2> QED
    BY <2>1, SumToIs DEF Adds
<1> DEFINE S == {k \in Nat : k <= n => f[k] = g[k]}
<1>3. 0 \in S
  BY <1>1, <1>2 DEF Adds
<1>4. ASSUME NEW k \in S PROVE k + 1 \in S
  <2> SUFFICES ASSUME k + 1 <= n PROVE f[k + 1] = g[k + 1]
    OBVIOUS
  <2>1. k + 1 \in 1 .. n /\ k <= n /\ (k + 1) - 1 = k
    OBVIOUS
  <2>2. f[k] = g[k] /\ s[k + 1] = t[k + 1]
    BY <2>1
  <2>3. f[k + 1] = (f[k] + s[k + 1]) % Byte /\ g[k + 1] = (g[k] + t[k + 1]) % Byte
    BY <1>1, <1>2, <2>1 DEF Adds
  <2> QED
    BY <2>2, <2>3
<1> HIDE DEF S
<1>5. S \subseteq Nat
  BY DEF S
<1>6. S = Nat
  BY <1>3, <1>4, <1>5, Induction
<1>7. \A i \in 0 .. n : f[i] = g[i]
  BY <1>6 DEF S
<1> QED
  BY <1>1, <1>2, <1>7

(* And of sequences that differ in one symbol: from there on they differ.  *)
LEMMA SumDiffers ==
  ASSUME NEW s \in Seq(Nat), NEW t \in Seq(Nat), NEW n \in Nat,
         n <= Len(s), n <= Len(t), NEW j \in 1 .. n, s[j] # t[j],
         s[j] \in 0 .. FF, t[j] \in 0 .. FF,
         \A i \in 1 .. n : i # j => s[i] = t[i]
  PROVE  \A i \in j .. n : SumTo(s)[i] # SumTo(t)[i]
<1>1. PICK f : /\ f = SumTo(s) /\ Adds(s, n, f)
               /\ \A i \in 0 .. n : f[i] \in 0 .. FF
  <2>1. 1 .. n \subseteq 1 .. Len(s) /\ 0 .. n \subseteq 0 .. Len(s)
    BY LenProperties
  <2> QED
    BY <2>1, SumToIs DEF Adds
<1>2. PICK g : /\ g = SumTo(t) /\ Adds(t, n, g)
               /\ \A i \in 0 .. n : g[i] \in 0 .. FF
  <2>1. 1 .. n \subseteq 1 .. Len(t) /\ 0 .. n \subseteq 0 .. Len(t)
    BY LenProperties
  <2> QED
    BY <2>1, SumToIs DEF Adds
<1>3. j - 1 \in Nat /\ j \in 0 .. n /\ j - 1 \in 0 .. n
  OBVIOUS
<1>4. f[j - 1] = g[j - 1]
  <2>1. \A i \in 1 .. j - 1 : s[i] = t[i]
    OBVIOUS
  <2>2. j - 1 <= Len(s) /\ j - 1 <= Len(t)
    BY LenProperties
  <2>3. \A i \in 0 .. j - 1 : SumTo(s)[i] = SumTo(t)[i]
    BY <1>3, <2>1, <2>2, SumAgrees
  <2> QED
    BY <1>1, <1>2, <1>3, <2>3
<1>5. f[j] # g[j]
  <2>1. PICK c \in 0 .. FF : c = f[j - 1]
    BY <1>1, <1>3
  <2>2. f[j] = (c + s[j]) % Byte /\ g[j] = (c + t[j]) % Byte
    BY <1>1, <1>2, <1>4, <2>1 DEF Adds
  <2>3. PICK x \in 0 .. FF, y \in 0 .. FF : x = s[j] /\ y = t[j]
    OBVIOUS
  <2>4. c \in Nat /\ x # y
    BY <2>3, ByteIs
  <2>5. (x + c) % Byte # (y + c) % Byte
    BY <2>4, ShiftDiffers
  <2>6. x + c = c + x /\ y + c = c + y
    BY ByteIs
  <2> QED
    BY <2>2, <2>3, <2>5, <2>6
<1> DEFINE S == {d \in Nat : j + d <= n => f[j + d] # g[j + d]}
<1>6. 0 \in S
  BY <1>5
<1>7. ASSUME NEW d \in S PROVE d + 1 \in S
  <2> SUFFICES ASSUME j + (d + 1) <= n PROVE f[j + (d + 1)] # g[j + (d + 1)]
    OBVIOUS
  <2>1. PICK k \in 1 .. n : k = j + (d + 1)
    OBVIOUS
  <2>2. k - 1 = j + d /\ k - 1 \in 0 .. n /\ k # j
    BY <2>1
  <2>3. PICK u \in 0 .. FF, v \in 0 .. FF : u = f[k - 1] /\ v = g[k - 1] /\ u # v
    BY <1>1, <1>2, <2>2, SMTT(30)
  <2>4. PICK w \in Nat : w = s[k] /\ w = t[k]
    <3>0. k \in 1 .. Len(s)
      BY LenProperties
    <3>1. s[k] \in Nat
      BY <3>0, ElementOfSeq
    <3> QED
      BY <2>2, <3>1
  <2>5. f[k] = (u + w) % Byte /\ g[k] = (v + w) % Byte
    BY <1>1, <1>2, <2>3, <2>4 DEF Adds
  <2>6. f[k] # g[k]
    BY <2>3, <2>5, ShiftDiffers
  <2> QED
    BY <2>1, <2>6
<1> HIDE DEF S
<1>8. S \subseteq Nat
  BY DEF S
<1>9. S = Nat
  BY <1>6, <1>7, <1>8, Induction
<1>10. ASSUME NEW i \in j .. n PROVE f[i] # g[i]
  <2>1. i - j \in S /\ j + (i - j) = i /\ i <= n
    BY <1>9
  <2> QED
    BY <2>1 DEF S
<1> QED
  BY <1>1, <1>2, <1>10
-----------------------------------------------------------------------------
(* What a reply looks like: symbol by symbol, with the sum of its body.    *)
Body(m) == [i \in 1 .. Len(m) - 1 |-> m[i + 1]]
Answerable ==
  {a \in [value : 0 .. FF, data : Seq(0 .. FF)] : Len(a.data) + Overhead \in 0 .. FF}

Spelled(m, o, a, n) ==
  /\ m \in Seq(Symbols) /\ n = Len(a.data) /\ Len(m) = n + 6
  /\ m[1] = Sig /\ m[2] = o /\ m[3] = n + Overhead /\ m[4] = a.value
  /\ \A i \in 1 .. n : m[i + 4] = a.data[i]
  /\ m[n + 5] = SumTo(Body(m))[n + 3]
  /\ m[n + 6] = StopSig
  /\ \A i \in 2 .. n + 5 : m[i] \in 0 .. FF

LEMMA BodyIs ==
  ASSUME NEW m \in Seq(Symbols), Len(m) >= 1
  PROVE  /\ Body(m) \in Seq(Nat) /\ Len(Body(m)) = Len(m) - 1
         /\ \A i \in 1 .. Len(m) - 1 : Body(m)[i] = m[i + 1]
<1>1. PICK N \in Nat : N = Len(m)
  BY LenProperties
<1>2. \A i \in 1 .. N : m[i] \in Nat
  BY <1>1, ElementOfSeq, ByteIs DEF Symbols
<1>3. Body(m) = [i \in 1 .. N - 1 |-> m[i + 1]] /\ N - 1 \in Nat
  BY <1>1 DEF Body
<1>4. \A i \in 1 .. N - 1 : m[i + 1] \in Nat
  BY <1>2
<1>5. PICK b : b = [i \in 1 .. N - 1 |-> m[i + 1]]
  OBVIOUS
<1>6. b \in Seq(Nat) /\ Len(b) = N - 1 /\ \A i \in 1 .. N - 1 : b[i] = m[i + 1]
  BY <1>3, <1>4, <1>5
<1> QED
  BY <1>1, <1>3, <1>5, <1>6

LEMMA OverheadIs == Overhead \in Nat /\ 1 + Overhead \in 0 .. FF
                    /\ Len(File) \in Nat /\ Len(File) + Overhead < FF
<1>1. Len(File) \in Nat
  BY LinkAssumption, LenProperties
<1> QED
  BY <1>1, LinkAssumption, ByteIs

LEMMA ReplyIs ==
  ASSUME NEW o \in 0 .. FF, NEW a \in Answerable
  PROVE  Spelled(Reply(o, a), o, a, Len(a.data))
<1>1. PICK d \in Seq(0 .. FF), v \in 0 .. FF : d = a.data /\ v = a.value
  BY DEF Answerable
<1>2. PICK n \in Nat : n = Len(d)
  BY LenProperties
<1>3. PICK l \in 0 .. FF : l = n + Overhead
  BY <1>1, <1>2 DEF Answerable
<1>4. PICK h : h = <<o, l, v>>
  OBVIOUS
<1>5. h \in Seq(0 .. FF) /\ Len(h) = 3 /\ h[1] = o /\ h[2] = l /\ h[3] = v
  BY <1>4
<1>6. PICK body : body = h \o d
  OBVIOUS
<1>7. /\ body \in Seq(0 .. FF) /\ Len(body) = n + 3
      /\ \A i \in 1 .. n + 3 : body[i] = IF i <= 3 THEN h[i] ELSE d[i - 3]
  <2>1. PICK k \in Nat : k = 3
    OBVIOUS
  <2>2. PICK S : S = 0 .. FF
    OBVIOUS
  <2>3. h \in Seq(S) /\ d \in Seq(S) /\ Len(h) = k /\ Len(d) = n
    BY <1>2, <1>5, <2>1, <2>2
  <2>4. /\ h \o d \in Seq(S) /\ Len(h \o d) = k + n
        /\ \A i \in 1 .. k + n : (h \o d)[i] = IF i <= k THEN h[i] ELSE d[i - k]
    BY <2>3, ConcatProperties
  <2>5. /\ body \in Seq(S) /\ Len(body) = k + n
        /\ \A i \in 1 .. k + n : body[i] = IF i <= k THEN h[i] ELSE d[i - k]
    BY <1>6, <2>4, Zenon
  <2>6. body \in Seq(0 .. FF)
    BY <2>2, <2>5, Zenon
  <2>7. \A i \in 1 .. n + 3 : body[i] = IF i <= 3 THEN h[i] ELSE d[i - 3]
    <3>1. k + n = n + 3
      BY <2>1
    <3> QED
      BY <2>1, <2>5, <3>1, Zenon
  <2>8. Len(body) = n + 3
    BY <2>1, <2>5
  <2> QED
    BY <2>6, <2>7, <2>8, Zenon
<1>8. body \in Seq(Nat)
  BY <1>7, ByteIs
<1>9. PICK s \in 0 .. FF : s = Sum(body) /\ s = SumTo(body)[n + 3]
  <2>1. Sum(body) = SumTo(body)[n + 3]
    BY <1>7 DEF Sum
  <2>2. n + 3 \in 0 .. Len(body)
    BY <1>7
  <2> QED
    BY <1>8, <2>1, <2>2, SumToIs
<1>10. PICK f : f = <<Sig>> \o body
  OBVIOUS
<1>11. /\ f \in Seq(Symbols) /\ Len(f) = n + 4
       /\ f[1] = Sig /\ \A i \in 1 .. n + 3 : f[i + 1] = body[i]
  <2>1. <<Sig>> \in Seq(Symbols) /\ Len(<<Sig>>) = 1 /\ <<Sig>>[1] = Sig
    BY ByteIs DEF Symbols
  <2>2. body \in Seq(Symbols)
    BY <1>7, ByteIs DEF Symbols
  <2>3. /\ f \in Seq(Symbols) /\ Len(f) = 1 + (n + 3)
        /\ \A i \in 1 .. 1 + (n + 3) : f[i] = IF i <= 1 THEN <<Sig>>[i] ELSE body[i - 1]
    BY <1>7, <1>10, <2>1, <2>2, ConcatProperties
  <2>4. \A i \in 1 .. n + 3 : i + 1 \in 1 .. 1 + (n + 3) /\ ~(i + 1 <= 1) /\ (i + 1) - 1 = i
    OBVIOUS
  <2> QED
    BY <2>1, <2>3, <2>4
<1>12. PICK m : m = f \o <<s, StopSig>>
  OBVIOUS
<1>13. /\ m \in Seq(Symbols) /\ Len(m) = n + 6
       /\ \A i \in 1 .. n + 4 : m[i] = f[i]
       /\ m[n + 5] = s /\ m[n + 6] = StopSig
  <2>1. /\ <<s, StopSig>> \in Seq(Symbols) /\ Len(<<s, StopSig>>) = 2
        /\ <<s, StopSig>>[1] = s /\ <<s, StopSig>>[2] = StopSig
    BY ByteIs DEF Symbols
  <2>2. /\ m \in Seq(Symbols) /\ Len(m) = (n + 4) + 2
        /\ \A i \in 1 .. (n + 4) + 2 :
             m[i] = IF i <= n + 4 THEN f[i] ELSE <<s, StopSig>>[i - (n + 4)]
    BY <1>11, <1>12, <2>1, ConcatProperties
  <2>3. m[n + 5] = <<s, StopSig>>[1] /\ m[n + 6] = <<s, StopSig>>[2]
    <3>1. n + 5 \in 1 .. (n + 4) + 2 /\ ~(n + 5 <= n + 4) /\ (n + 5) - (n + 4) = 1
      OBVIOUS
    <3>2. n + 6 \in 1 .. (n + 4) + 2 /\ ~(n + 6 <= n + 4) /\ (n + 6) - (n + 4) = 2
      OBVIOUS
    <3> QED
      BY <2>2, <3>1, <3>2
  <2> QED
    BY <2>1, <2>2, <2>3
<1>14. Reply(o, a) = m
  BY <1>1, <1>2, <1>3, <1>4, <1>6, <1>9, <1>10, <1>12 DEF Reply
<1>15. \A i \in 1 .. n + 3 : m[i + 1] = body[i]
  BY <1>11, <1>13
<1>16. m[1] = Sig /\ m[2] = o /\ m[3] = l /\ m[4] = v
  <2>1. m[1] = f[1] /\ m[1 + 1] = body[1] /\ m[2 + 1] = body[2] /\ m[3 + 1] = body[3]
    BY <1>13, <1>15
  <2>2. body[1] = h[1] /\ body[2] = h[2] /\ body[3] = h[3]
    BY <1>7
  <2> QED
    BY <1>5, <1>11, <2>1, <2>2
<1>17. ASSUME NEW i \in 1 .. n PROVE m[i + 4] = d[i]
  <2>1. i + 3 \in 1 .. n + 3 /\ ~(i + 3 <= 3) /\ (i + 3) - 3 = i /\ (i + 3) + 1 = i + 4
    OBVIOUS
  <2> QED
    BY <1>7, <1>15, <2>1
<1>18. ASSUME NEW i \in 2 .. n + 5 PROVE m[i] \in 0 .. FF
  <2>1. CASE i = n + 5
    BY <1>9, <1>13, <2>1
  <2>2. CASE i # n + 5
    <3>1. i - 1 \in 1 .. n + 3 /\ (i - 1) + 1 = i
      BY <2>2
    <3>2. body[i - 1] \in 0 .. FF
      BY <1>7, <3>1, ElementOfSeq
    <3> QED
      BY <1>15, <3>1, <3>2
  <2> QED
    BY <2>1, <2>2
<1>19. m[n + 5] = SumTo(Body(m))[n + 3]
  <2>1. Body(m) \in Seq(Nat) /\ Len(Body(m)) = n + 5
        /\ \A i \in 1 .. n + 5 : Body(m)[i] = m[i + 1]
    <3>1. Len(m) >= 1 /\ Len(m) - 1 = n + 5
      BY <1>13
    <3> QED
      BY <1>13, <3>1, BodyIs
  <2>2. ASSUME NEW i \in 1 .. n + 3 PROVE Body(m)[i] = body[i]
    <3>1. i \in 1 .. n + 5
      OBVIOUS
    <3> QED
      BY <1>15, <2>1, <3>1
  <2>3. n + 3 \in Nat /\ n + 3 <= Len(Body(m)) /\ n + 3 <= Len(body)
    BY <1>7, <2>1, SMTT(30)
  <2>4. \A i \in 0 .. n + 3 : SumTo(Body(m))[i] = SumTo(body)[i]
    BY <1>8, <2>1, <2>2, <2>3, SumAgrees
  <2> QED
    BY <1>9, <1>13, <2>4
<1> QED
  BY <1>1, <1>2, <1>3, <1>13, <1>14, <1>16, <1>17, <1>18, <1>19 DEF Spelled
-----------------------------------------------------------------------------
(* What a call takes for the reply to its opcode.                          *)
Accepted(m, o, n) ==
  /\ n + 6 <= Len(m)
  /\ m[1] = Sig /\ m[2] = o /\ m[3] = n + Overhead
  /\ m[n + 5] = SumTo(Body(m))[n + 3]
  /\ m[n + 6] = StopSig

(* A field is changed to a field.                                          *)
LEMMA FieldDamaged ==
  ASSUME NEW r \in Seq(Symbols), NEW m \in Damaged(r)
  PROVE  \E j \in 1 .. Len(r) : \E b \in 0 .. FF \cup {Echo} :
           /\ m = [r EXCEPT ![j] = b] /\ b # r[j]
           /\ r[j] \in 0 .. FF => b \in 0 .. FF
<1>1. PICK j \in 1 .. Len(r) : m \in {[r EXCEPT ![j] = b] : b \in Instead(r[j]) \ {r[j]}}
  BY DEF Damaged
<1>2. PICK b \in Instead(r[j]) : m = [r EXCEPT ![j] = b] /\ b # r[j]
  BY <1>1
<1>3. b \in 0 .. FF \cup {Echo}
  <2>1. FF \in 0 .. FF
    BY ByteIs
  <2> QED
    BY <2>1 DEF Instead
<1>4. r[j] \in 0 .. FF => b \in 0 .. FF
  BY ByteIs DEF Instead
<1> QED
  BY <1>2, <1>3, <1>4

(* A reply of which one symbol was changed is not taken for an answer.     *)
LEMMA NotAccepted ==
  ASSUME NEW r, NEW o \in 0 .. FF, NEW a, NEW N \in Nat, Spelled(r, o, a, N),
         NEW m \in Damaged(r), NEW n \in Nat
  PROVE  ~Accepted(m, o, n)
<1> SUFFICES ASSUME Accepted(m, o, n) PROVE FALSE
  OBVIOUS
<1>1. r \in Seq(Symbols) /\ Len(r) = N + 6
  BY DEF Spelled
<1>2. PICK j \in 1 .. N + 6, b \in 0 .. FF \cup {Echo} :
        /\ m = [r EXCEPT ![j] = b] /\ b # r[j]
        /\ r[j] \in 0 .. FF => b \in 0 .. FF
  BY <1>1, FieldDamaged
<1>3. m \in Seq(Symbols) /\ Len(m) = N + 6
  <2>1. b \in Symbols
    BY <1>2, ByteIs DEF Symbols
  <2> QED
    BY <1>1, <1>2, <2>1
<1>4. m[j] = b /\ \A i \in 1 .. N + 6 : i # j => m[i] = r[i]
  BY <1>1, <1>2
<1>5. b # StopSig /\ Sig # StopSig /\ \A i \in 0 .. FF : i # StopSig
  BY ByteIs
<1>6. n + 6 # j /\ r[n + 6] = StopSig /\ n + 6 \in 1 .. N + 6
  <2>1. n + 6 \in 1 .. N + 6
    BY <1>3 DEF Accepted
  <2>2. m[n + 6] = StopSig
    BY DEF Accepted
  <2>3. n + 6 # j
    BY <1>4, <1>5, <2>2
  <2> QED
    BY <1>4, <2>1, <2>2, <2>3
<1>7. n = N
  <2>1. \A i \in 2 .. N + 5 : r[i] # StopSig
    BY <1>5 DEF Spelled
  <2>2. ~(n + 6 \in 2 .. N + 5)
    BY <1>6, <2>1
  <2> QED
    BY <1>6, <2>2
<1>8. j # 1 /\ j # 2 /\ j # 3 /\ j # N + 6
  <2>1. m[1] = r[1] /\ m[2] = r[2] /\ m[3] = r[3]
    BY <1>7 DEF Accepted, Spelled
  <2> QED
    BY <1>2, <1>4, <1>6, <1>7, <2>1
<1>9. j \in 4 .. N + 5 /\ r[j] \in 0 .. FF /\ b \in 0 .. FF
  <2>1. j \in 4 .. N + 5 /\ j \in 2 .. N + 5
    BY <1>8
  <2>2. r[j] \in 0 .. FF
    BY <2>1 DEF Spelled
  <2> QED
    BY <1>2, <2>1, <2>2
<1>10. /\ Body(r) \in Seq(Nat) /\ Len(Body(r)) = N + 5
       /\ \A i \in 1 .. N + 5 : Body(r)[i] = r[i + 1]
  <2>1. Len(r) >= 1 /\ Len(r) - 1 = N + 5
    BY <1>1
  <2> QED
    BY <1>1, <2>1, BodyIs
<1>11. /\ Body(m) \in Seq(Nat) /\ Len(Body(m)) = N + 5
       /\ \A i \in 1 .. N + 5 : Body(m)[i] = m[i + 1]
  <2>1. Len(m) >= 1 /\ Len(m) - 1 = N + 5
    BY <1>3
  <2> QED
    BY <1>3, <2>1, BodyIs
<1>12. m[N + 5] = SumTo(Body(m))[N + 3] /\ r[N + 5] = SumTo(Body(r))[N + 3]
  BY <1>7 DEF Accepted, Spelled
<1>13. PICK k \in Nat : k = N + 3
  OBVIOUS
<1>14. k <= Len(Body(r)) /\ k <= Len(Body(m))
  BY <1>10, <1>11, <1>13
<1>15. CASE j = N + 5
  <2>1. ASSUME NEW i \in 1 .. k PROVE Body(r)[i] = Body(m)[i]
    <3>1. i \in 1 .. N + 5 /\ i + 1 \in 1 .. N + 6 /\ i + 1 # j
      BY <1>13, <1>15
    <3> QED
      BY <1>4, <1>10, <1>11, <3>1
  <2>2. \A i \in 0 .. k : SumTo(Body(r))[i] = SumTo(Body(m))[i]
    BY <1>10, <1>11, <1>14, <2>1, SumAgrees
  <2>3. m[j] = r[j]
    BY <1>12, <1>13, <1>15, <2>2
  <2> QED
    BY <1>2, <1>4, <2>3
<1>16. CASE j # N + 5
  <2>1. PICK p \in 1 .. k : p = j - 1
    BY <1>9, <1>13, <1>16
  <2>2. Body(r)[p] = r[j] /\ Body(m)[p] = b
    <3>1. p \in 1 .. N + 5 /\ p + 1 = j
      BY <1>13, <2>1
    <3> QED
      BY <1>4, <1>10, <1>11, <3>1
  <2>3. ASSUME NEW i \in 1 .. k, i # p PROVE Body(r)[i] = Body(m)[i]
    <3>1. i \in 1 .. N + 5 /\ i + 1 \in 1 .. N + 6 /\ i + 1 # j
      BY <1>13, <2>1, <2>3
    <3> QED
      BY <1>4, <1>10, <1>11, <3>1
  <2>4. Body(r)[p] # Body(m)[p] /\ Body(r)[p] \in 0 .. FF /\ Body(m)[p] \in 0 .. FF
    BY <1>2, <1>9, <2>2
  <2>5. \A i \in p .. k : SumTo(Body(r))[i] # SumTo(Body(m))[i]
    BY <1>10, <1>11, <1>14, <2>3, <2>4, SumDiffers
  <2>6. SumTo(Body(r))[k] # SumTo(Body(m))[k]
    BY <2>1, <2>5
  <2>7. m[N + 5] = r[N + 5]
    BY <1>4, <1>16
  <2> QED
    BY <1>12, <1>13, <2>6, <2>7
<1> QED
  BY <1>15, <1>16
-----------------------------------------------------------------------------
(* The invariant of the link.  An answer of the host is what the call may  *)
(* return; of rread it is the next bytes of the file.                      *)
Reading == {"sig", "op", "len", "value", "data", "sum", "stop"}

NextBytes ==
  /\ answer.value = Len(answer.data) /\ answer.value <= Asked
  /\ pos = start + done + answer.value /\ pos <= Len(File)
  /\ \A i \in 1 .. Len(answer.data) : answer.data[i] = File[start + done + i]
  /\ answer.value < Asked => pos = Len(File)
AnswerFits ==
  /\ answer \in Answerable
  /\ op = ReadOp => NextBytes
  /\ op # ReadOp => Len(answer.data) <= 1
  /\ op \in DOMAIN Replies => Len(answer.data) = 0

(* What the host may have sent: its answer; if something went wrong, that  *)
(* with one symbol changed, or the rejection of a damaged request.         *)
Sent(m) ==
  \/ AnswerFits /\ m = Reply(op, answer)
  \/ hurt /\ AnswerFits /\ m \in Damaged(Reply(op, answer))
  \/ hurt /\ \E e \in 0 .. FF : e # op /\ m = Reply(e, NoAnswer)

(* Where in the message the call is, and what it knows of what it read.    *)
Place ==
  CASE pc = "op" -> 1 [] pc = "len" -> 2 [] pc = "value" -> 3
    [] pc \in {"data", "sum"} -> Len(buf) + 4 [] pc = "stop" -> Len(buf) + 5
    [] OTHER -> 0
Rest(m, r) == [i \in 1 .. Len(m) - r |-> m[r + i]]
BeforeSig(m) ==
  \/ line = m
  \/ lastWrite /\ line = <<Echo>> \o m
  \/ ~lastWrite /\ m[1] = Echo /\ line = Rest(m, 1)
AfterSig(m) ==
  /\ ~lastWrite /\ m[1] = Sig /\ Place <= Len(m) /\ line = Rest(m, Place)
AfterLength(m) ==
  m[2] = op /\ m[3] = size + Overhead /\ (op \in DOMAIN Replies => size = 0)
AfterValue(m) ==
  /\ result = m[4] /\ \A i \in 1 .. Len(buf) : buf[i] = m[i + 4]
  /\ chksum = SumTo(Body(m))[Len(buf) + 3]
Stands(m) ==
  /\ pc = "sig" => BeforeSig(m)
  /\ pc # "sig" => AfterSig(m)
  /\ pc = "len" => result = m[2] /\ chksum = SumTo(Body(m))[1]
  /\ pc \in {"value", "data", "sum", "stop"} => AfterLength(m)
  /\ pc = "value" => chksum = SumTo(Body(m))[2]
  /\ pc \in {"data", "sum", "stop"} => AfterValue(m)
  /\ pc = "data" => size # 0 /\ (size > 0 => Len(buf) < size)
  /\ pc \in {"sum", "stop"} => Len(buf) = size
  /\ pc = "stop" => m[Len(buf) + 5] = chksum
TalkInv == linked /\ ~pending /\ pc \in Reading => \E m : Sent(m) /\ Stands(m)

(* The chunks rread has read are the file's bytes from where it began, and *)
(* only behind a chunk that ends the file is there a gap.                  *)
ChunkInv ==
  Busy /\ linked /\ op = ReadOp =>
    /\ cnt # 0 /\ start + done <= Len(File) /\ done <= Len(total)
    /\ Len(total) = done \/ start + done = Len(File)
    /\ \A i \in 1 .. done : total[i] = File[start + i]
    /\ pc = "send" \/ pending => pos = start + done

WireInv ==
  /\ noPPFS => ~linked
  /\ Busy /\ ~hurt => linked
  /\ linked /\ pending => pc = "sig" /\ line = <<>> /\ lastWrite
  /\ pc \in {"idle", "send", "sig", "op", "len", "value"} => buf = <<>>

LinkIInv == LinkTypeOK /\ WireInv /\ ChunkInv /\ TalkInv

-----------------------------------------------------------------------------
LEMMA OpIs ==
  ASSUME op \in Ops
  PROVE  /\ op \in 0 .. FF /\ op + ErrorBit \in 0 .. FF /\ op + ErrorBit # op
         /\ op = ReadOp => op \notin DOMAIN Replies
<1>1. {op, op + ErrorBit} \subseteq 0 .. (FF - 1) /\ op + ErrorBit \notin Ops
  BY LinkAssumption
<1>2. \A x \in 0 .. (FF - 1) : x \in 0 .. FF
  BY ByteIs
<1> QED
  BY <1>1, <1>2, LinkAssumption

LEMMA NoAnswerIs == NoAnswer \in Answerable /\ Len(NoAnswer.data) = 0
<1>1. <<>> \in Seq(0 .. FF) /\ Len(<<>>) = 0 /\ FF \in 0 .. FF
  BY ByteIs
<1>2. Overhead \in 0 .. FF
  BY OverheadIs, ByteIs
<1>3. 0 + Overhead \in 0 .. FF
  BY <1>2, OverheadIs
<1> QED
  BY <1>1, <1>3 DEF NoAnswer, Answerable

LEMMA SentIs ==
  ASSUME op \in Ops, NEW m, Sent(m)
  PROVE  /\ m \in Seq(Symbols) /\ Len(m) >= 6
         /\ ~hurt => AnswerFits /\ m = Reply(op, answer)
<1>1. op \in 0 .. FF
  BY OpIs
<1>2. ASSUME NEW o \in 0 .. FF, NEW a \in Answerable
      PROVE  Reply(o, a) \in Seq(Symbols) /\ Len(Reply(o, a)) >= 6
  <2>1. Spelled(Reply(o, a), o, a, Len(a.data))
    BY ReplyIs
  <2>2. Len(a.data) \in Nat
    BY LenProperties DEF Answerable
  <2> QED
    BY <2>1, <2>2 DEF Spelled
<1>3. CASE AnswerFits /\ m = Reply(op, answer)
  BY <1>1, <1>2, <1>3 DEF AnswerFits
<1>4. CASE hurt /\ AnswerFits /\ m \in Damaged(Reply(op, answer))
  <2>1. PICK r \in Seq(Symbols) : r = Reply(op, answer) /\ Len(r) >= 6
    BY <1>1, <1>2, <1>4 DEF AnswerFits
  <2>2. PICK j \in 1 .. Len(r), b \in 0 .. FF \cup {Echo} : m = [r EXCEPT ![j] = b]
    BY <1>4, <2>1, FieldDamaged
  <2>3. b \in Symbols
    BY ByteIs DEF Symbols
  <2>4. m \in Seq(Symbols) /\ Len(m) = Len(r)
    BY <2>2, <2>3
  <2> QED
    BY <1>4, <2>1, <2>4
<1>5. CASE hurt /\ \E e \in 0 .. FF : e # op /\ m = Reply(e, NoAnswer)
  BY <1>2, <1>5, NoAnswerIs
<1> QED
  BY <1>3, <1>4, <1>5 DEF Sent

(* What is accepted is the answer.                                         *)
LEMMA AcceptedIs ==
  ASSUME op \in Ops, NEW m, Sent(m), NEW n \in Nat, Accepted(m, op, n)
  PROVE  /\ AnswerFits /\ n = Len(answer.data) /\ m[4] = answer.value
         /\ \A i \in 1 .. n : m[i + 4] = answer.data[i]
<1>1. op \in 0 .. FF
  BY OpIs
<1>2. CASE AnswerFits /\ m = Reply(op, answer)
  <2>1. PICK a \in Answerable : a = answer
    BY <1>2 DEF AnswerFits
  <2>2. PICK N \in Nat : N = Len(a.data)
    BY LenProperties DEF Answerable
  <2>3. Spelled(m, op, a, N)
    BY <1>1, <1>2, <2>1, <2>2, ReplyIs
  <2>4. n + Overhead = N + Overhead
    BY <2>3 DEF Spelled, Accepted
  <2>5. n = N
    BY <2>4, OverheadIs
  <2> QED
    BY <1>2, <2>1, <2>2, <2>3, <2>5 DEF Spelled
<1>3. CASE hurt /\ AnswerFits /\ m \in Damaged(Reply(op, answer))
  <2>1. PICK a \in Answerable : a = answer
    BY <1>3 DEF AnswerFits
  <2>2. PICK N \in Nat : N = Len(a.data)
    BY LenProperties DEF Answerable
  <2>3. PICK o \in 0 .. FF : o = op
    BY <1>1
  <2>4. PICK r : r = Reply(o, a)
    OBVIOUS
  <2>5. Spelled(r, o, a, N)
    BY <2>2, <2>4, ReplyIs
  <2>6. m \in Damaged(r)
    BY <1>3, <2>1, <2>3, <2>4
  <2>7. ~Accepted(m, o, n)
    BY <2>5, <2>6, NotAccepted
  <2> QED
    BY <2>3, <2>7
<1>4. CASE hurt /\ \E e \in 0 .. FF : e # op /\ m = Reply(e, NoAnswer)
  <2>1. PICK e \in 0 .. FF : e # op /\ m = Reply(e, NoAnswer)
    BY <1>4
  <2>2. m[2] = e
    BY <2>1, NoAnswerIs, ReplyIs DEF Spelled
  <2> QED
    BY <2>1, <2>2 DEF Accepted
<1> QED
  BY <1>2, <1>3, <1>4 DEF Sent
(* The opcode, even of a damaged reply, is a field.                        *)
LEMMA SecondIs ==
  ASSUME op \in Ops, NEW m, Sent(m)
  PROVE  m[2] \in 0 .. FF
<1>1. ASSUME NEW o \in 0 .. FF, NEW a \in Answerable
      PROVE  Reply(o, a)[2] = o /\ Reply(o, a) \in Seq(Symbols) /\ Len(Reply(o, a)) >= 6
  <2>1. Spelled(Reply(o, a), o, a, Len(a.data))
    BY ReplyIs
  <2>2. Len(a.data) \in Nat
    BY LenProperties DEF Answerable
  <2> QED
    BY <2>1, <2>2 DEF Spelled
<1>2. PICK o \in 0 .. FF : o = op
  BY OpIs
<1>3. CASE AnswerFits /\ m = Reply(op, answer)
  BY <1>1, <1>2, <1>3 DEF AnswerFits
<1>4. CASE hurt /\ AnswerFits /\ m \in Damaged(Reply(op, answer))
  <2>1. PICK r \in Seq(Symbols) : r = Reply(op, answer) /\ Len(r) >= 6 /\ r[2] \in 0 .. FF
    BY <1>1, <1>2, <1>4 DEF AnswerFits
  <2>2. PICK j \in 1 .. Len(r), b \in 0 .. FF \cup {Echo} :
          m = [r EXCEPT ![j] = b] /\ (r[j] \in 0 .. FF => b \in 0 .. FF)
    BY <1>4, <2>1, FieldDamaged
  <2>3. 2 \in 1 .. Len(r)
    BY <2>1, LenProperties
  <2>4. CASE j = 2
    BY <2>1, <2>2, <2>4
  <2>5. CASE j # 2
    BY <2>1, <2>2, <2>3, <2>5
  <2> QED
    BY <2>4, <2>5
<1>5. CASE hurt /\ \E e \in 0 .. FF : e # op /\ m = Reply(e, NoAnswer)
  BY <1>1, <1>5, NoAnswerIs
<1> QED
  BY <1>3, <1>4, <1>5 DEF Sent

LEMMA RestIs ==
  ASSUME NEW m \in Seq(Symbols), NEW r \in Nat, r <= Len(m), NEW l, l = Rest(m, r)
  PROVE  /\ l \in Seq(Symbols)
         /\ l # <<>> => /\ r + 1 <= Len(m) /\ Head(l) = m[r + 1]
                        /\ SubSeq(l, 2, Len(l)) = Rest(m, r + 1)
<1>1. PICK N \in Nat : N = Len(m)
  BY LenProperties
<1>2. \A i \in 1 .. N : m[i] \in Symbols
  BY <1>1, ElementOfSeq
<1>3. PICK k \in Nat : k = N - r
  <2>1. r <= N
    BY <1>1
  <2>2. N - r \in Nat
    BY <2>1
  <2> QED
    BY <2>2
<1>4. l = [i \in 1 .. k |-> m[r + i]]
  BY <1>1, <1>3 DEF Rest
<1>5. \A i \in 1 .. k : m[r + i] \in Symbols
  BY <1>2, <1>3
<1>6. l \in Seq(Symbols) /\ Len(l) = k /\ \A i \in 1 .. k : l[i] = m[r + i]
  BY <1>4, <1>5
<1>7. ASSUME l # <<>> PROVE k >= 1 /\ r + 1 <= N /\ Head(l) = m[r + 1]
  <2>1. k >= 1
    BY <1>6, <1>7, EmptySeq
  <2>2. Head(l) = l[1]
    BY <1>6, <1>7, HeadTailProperties
  <2> QED
    BY <1>3, <1>6, <2>1, <2>2
<1>8. ASSUME l # <<>> PROVE SubSeq(l, 2, Len(l)) = Rest(m, r + 1)
  <2>1. PICK s : s = SubSeq(l, 2, k)
    OBVIOUS
  <2>2. s = [i \in 1 .. k - 1 |-> l[i + 1]]
    BY <1>6, <1>7, <1>8, <2>1
  <2>3. \A i \in 1 .. k - 1 : l[i + 1] = m[(r + 1) + i]
    <3>1. \A i \in 1 .. k - 1 : i + 1 \in 1 .. k /\ r + (i + 1) = (r + 1) + i
      OBVIOUS
    <3> QED
      BY <1>6, <3>1
  <2>4. s = [i \in 1 .. k - 1 |-> m[(r + 1) + i]]
    BY <2>2, <2>3
  <2>5. k - 1 = N - (r + 1)
    BY <1>3
  <2> QED
    BY <1>1, <1>6, <2>1, <2>4, <2>5 DEF Rest
<1> QED
  BY <1>1, <1>6, <1>7, <1>8

(* What a call hears when the host is there.                               *)
Hears(m, s) ==
  /\ Sent(m) /\ Stands(m) /\ m \in Seq(Symbols) /\ Len(m) >= 6
  /\ pc = "sig" => (m[1] = Sig => s = Sig)
  /\ pc = "sig" /\ s = Sig => m[1] = Sig /\ SubSeq(line, 2, Len(line)) = Rest(m, 1)
  /\ pc # "sig" => /\ Place \in Nat /\ Place + 1 <= Len(m) /\ s = m[Place + 1]
                   /\ SubSeq(line, 2, Len(line)) = Rest(m, Place + 1)

LEMMA PlaceIs ==
  ASSUME buf \in Seq(Symbols) PROVE Place \in Nat
<1>1. Len(buf) \in Nat
  BY LenProperties
<1> QED
  BY <1>1 DEF Place

LEMMA Hearing ==
  ASSUME LinkIInv, linked, pc \in Reading, NEW s \in Heard
  PROVE  ~Dead /\ ~pending /\ \E m : Hears(m, s)
<1>1. ~Dead
  BY DEF LinkIInv, WireInv, Dead
<1>2. line # <<>> /\ ~IsEcho /\ s = Head(line)
  BY <1>1 DEF Heard
<1>3. ~pending
  BY <1>2 DEF LinkIInv, WireInv
<1>4. PICK m : Sent(m) /\ Stands(m)
  BY <1>3 DEF LinkIInv, TalkInv
<1>5. op \in Ops /\ buf \in Seq(Symbols) /\ lastWrite \in BOOLEAN
  BY DEF LinkIInv, LinkTypeOK, Symbols
<1>6. m \in Seq(Symbols) /\ Len(m) >= 6
  BY <1>4, <1>5, SentIs
<1>7. ~(lastWrite /\ s = Echo)
  BY <1>2 DEF IsEcho
<1>8. ASSUME pc = "sig"
      PROVE  /\ m[1] = Sig => s = Sig
             /\ s = Sig => m[1] = Sig /\ SubSeq(line, 2, Len(line)) = Rest(m, 1)
  <2>1. BeforeSig(m)
    BY <1>4, <1>8 DEF Stands
  <2>2. Sig # Echo
    BY ByteIs
  <2>3. CASE line = m
    <3>1. s = m[1]
      BY <1>2, <1>6, <2>3
    <3>2. m = Rest(m, 0)
      <4>1. \A i \in 1 .. Len(m) : m[0 + i] = m[i]
        BY LenProperties
      <4>2. m = [i \in 1 .. Len(m) |-> m[i]]
        BY <1>6
      <4>3. Len(m) - 0 = Len(m)
        BY <1>6, LenProperties
      <4> QED
        BY <4>1, <4>2, <4>3 DEF Rest
    <3>3. SubSeq(line, 2, Len(line)) = Rest(m, 0 + 1)
      <4>1. 0 \in Nat /\ 0 <= Len(m)
        BY <1>6
      <4> QED
        BY <1>2, <1>6, <2>3, <3>2, <4>1, RestIs
    <3> QED
      BY <3>1, <3>3
  <2>4. CASE lastWrite /\ line = <<Echo>> \o m
    <3>1. Head(line) = Echo
      <4>1. <<Echo>> \in Seq(Symbols) /\ Len(<<Echo>>) = 1 /\ <<Echo>>[1] = Echo
        BY ByteIs DEF Symbols
      <4>2. /\ line \in Seq(Symbols) /\ Len(line) = 1 + Len(m)
            /\ \A i \in 1 .. 1 + Len(m) : line[i] = IF i <= 1 THEN <<Echo>>[i] ELSE m[i - 1]
        BY <1>6, <2>4, <4>1, ConcatProperties
      <4>3. line[1] = Echo
        <5>1. 1 \in 1 .. 1 + Len(m)
          BY <1>6, LenProperties
        <5> QED
          BY <4>1, <4>2, <5>1
      <4> QED
        BY <1>2, <4>2, <4>3, HeadTailProperties
    <3> QED
      BY <1>2, <1>7, <2>4, <3>1
  <2>5. CASE ~lastWrite /\ m[1] = Echo /\ line = Rest(m, 1)
    <3>1. 1 \in Nat /\ 1 <= Len(m)
      BY <1>6
    <3>2. s = m[1 + 1]
      BY <1>2, <1>6, <2>5, <3>1, RestIs
    <3>3. m[2] \in 0 .. FF
      BY <1>4, <1>5, SecondIs
    <3>4. s # Sig
      BY <3>2, <3>3, ByteIs
    <3> QED
      BY <2>2, <2>5, <3>4
  <2> QED
    BY <2>1, <2>3, <2>4, <2>5 DEF BeforeSig
<1>9. ASSUME pc # "sig"
      PROVE  /\ Place \in Nat /\ Place + 1 <= Len(m) /\ s = m[Place + 1]
             /\ SubSeq(line, 2, Len(line)) = Rest(m, Place + 1)
  <2>1. PICK r \in Nat : r = Place
    BY <1>5, PlaceIs
  <2>2. r <= Len(m) /\ line = Rest(m, r)
    BY <1>4, <1>9, <2>1 DEF Stands, AfterSig
  <2>3. r + 1 <= Len(m) /\ Head(line) = m[r + 1] /\ SubSeq(line, 2, Len(line)) = Rest(m, r + 1)
    BY <1>2, <1>6, <2>2, RestIs
  <2> QED
    BY <1>2, <2>1, <2>3
<1> QED
  BY <1>1, <1>3, <1>4, <1>6, <1>8, <1>9 DEF Hears
-----------------------------------------------------------------------------
(* What the steps keep.  Types first.                                      *)
LEMMA HeardType ==
  ASSUME LinkTypeOK, NEW s \in Heard PROVE s \in Symbols
<1>1. FF \in Symbols
  BY ByteIs DEF Symbols
<1>2. line \in Seq(Symbols)
  BY DEF LinkTypeOK, Symbols
<1>3. line # <<>> => Head(line) \in Symbols
  BY <1>2, HeadTailProperties
<1> QED
  BY <1>1, <1>3 DEF Heard

LEMMA TookType ==
  ASSUME LinkTypeOK, Took
  PROVE  noPPFS' \in BOOLEAN /\ lastWrite' \in BOOLEAN /\ line' \in Seq(Symbols)
<1>1. line \in Seq(Symbols) /\ Len(line) \in Nat
  BY LenProperties DEF LinkTypeOK, Symbols
<1>2. SubSeq(line, 2, Len(line)) \in Seq(Symbols)
  <2>1. \A i \in 2 .. Len(line) : line[i] \in Symbols
    BY <1>1, ElementOfSeq
  <2> QED
    BY <1>1, <2>1, SubSeqProperties
<1>3. Dead \in BOOLEAN
  BY DEF Dead, LinkTypeOK
<1> QED
  BY <1>1, <1>2, <1>3 DEF Took, LinkTypeOK

LEMMA TookTells ==
  ASSUME LinkTypeOK, WireInv, Took, linked' = linked
  PROVE  /\ noPPFS' => ~linked'
         /\ ~Dead => ~noPPFS' /\ ~lastWrite' /\ line' = SubSeq(line, 2, Len(line))
BY DEF WireInv, Took, Dead, LinkTypeOK

(* What was sent stays so.                                                 *)
LEMMA SentKeeps ==
  ASSUME NEW m, Sent(m), hurt => hurt', UNCHANGED <<op, cnt, done, start, answer, pos>>
  PROVE  Sent(m)'
BY DEF Sent, AnswerFits, NextBytes, Asked

LEMMA ChunkKeeps ==
  ASSUME ChunkInv, pc \in Reading, pc' \in Reading,
         UNCHANGED <<op, cnt, done, total, start, linked, pending, pos>>
  PROVE  ChunkInv'
BY DEF ChunkInv, Reading, Busy

(* A sum goes on symbol by symbol.                                         *)
LEMMA SumStep ==
  ASSUME NEW m \in Seq(Symbols), NEW k \in Nat, k # 0, k + 1 <= Len(m)
  PROVE  SumTo(Body(m))[k] = (SumTo(Body(m))[k - 1] + m[k + 1]) % Byte
<1>1. Len(m) \in Nat /\ Len(m) >= 1 /\ k \in 1 .. Len(m) - 1
  BY LenProperties
<1>2. /\ Body(m) \in Seq(Nat) /\ Len(Body(m)) = Len(m) - 1
      /\ Body(m)[k] = m[k + 1]
  BY <1>1, BodyIs
<1>3. Adds(Body(m), Len(Body(m)), SumTo(Body(m)))
  BY <1>2, SumToIs
<1> QED
  BY <1>1, <1>2, <1>3 DEF Adds

LEMMA SumStart ==
  ASSUME NEW m \in Seq(Symbols), Len(m) >= 1
  PROVE  SumTo(Body(m))[0] = 0
<1>1. Body(m) \in Seq(Nat)
  BY BodyIs
<1> QED
  BY <1>1, SumToIs DEF Adds

-----------------------------------------------------------------------------
LEMMA LinkInitKeeps == LinkInit => LinkIInv
<1> SUFFICES ASSUME LinkInit PROVE LinkIInv
  OBVIOUS
<1>1. op \in Ops
  BY DEF LinkInit, Ops
<1>2. <<>> \in Seq(Symbols) /\ <<>> \in Seq(-1 .. Echo)
  OBVIOUS
<1>3. Len(File) \in Nat /\ 0 \in 0 .. FF /\ 0 \in 0 .. Echo /\ MaxFaults \in Nat
  BY OverheadIs, ByteIs, LinkAssumption
<1>4. LinkTypeOK
  <2>1. buf \in Seq(0 .. Echo) /\ total \in Seq(-1 .. Echo) /\ line \in Seq(0 .. Echo)
    BY <1>2 DEF LinkInit, Symbols
  <2>2. /\ chksum \in 0 .. FF /\ size \in Int /\ result \in 0 .. Echo /\ ret \in 0 .. Echo
        /\ pos \in 0 .. Len(File) /\ start \in 0 .. Len(File) /\ faults \in 0 .. MaxFaults
    BY <1>3 DEF LinkInit
  <2>3. /\ cnt \in Nat /\ done \in Nat /\ noPPFS \in BOOLEAN /\ lastWrite \in BOOLEAN
        /\ linked \in BOOLEAN /\ pending \in BOOLEAN /\ hurt \in BOOLEAN /\ pc = "idle"
    BY DEF LinkInit
  <2> QED
    BY <1>1, <2>1, <2>2, <2>3 DEF LinkTypeOK
<1>5. WireInv /\ ChunkInv /\ TalkInv
  BY DEF LinkInit, WireInv, ChunkInv, TalkInv, Busy, Reading
<1> QED
  BY <1>4, <1>5 DEF LinkIInv

LEMMA RefuseKeeps == ASSUME LinkIInv, Refuse PROVE LinkIInv'
<1>1. FF \in 0 .. Echo
  BY ByteIs
<1>2. LinkTypeOK'
  BY <1>1 DEF LinkIInv, LinkTypeOK, Refuse, caller, locals, hostSide
<1>3. WireInv' /\ ChunkInv' /\ TalkInv'
  BY DEF LinkIInv, WireInv, ChunkInv, TalkInv, Refuse, Busy, Reading, caller, locals,
         hostSide
<1> QED
  BY <1>2, <1>3 DEF LinkIInv

LEMMA CallKeeps ==
  ASSUME LinkIInv, NEW o \in Ops, NEW n \in Nat, o = ReadOp => n # 0, Call(o, n)
  PROVE  LinkIInv'
<1>1. 0 \in 0 .. Echo /\ 0 \in Nat /\ <<>> \in Seq(-1 .. Echo)
  BY ByteIs
<1>2. LinkTypeOK'
  <2>1. /\ pc' = "send" /\ op' \in Ops /\ cnt' \in Nat /\ done' \in Nat /\ total' \in Seq(-1 .. Echo)
        /\ start' \in 0 .. Len(File) /\ ret' \in 0 .. Echo
    BY <1>1 DEF LinkIInv, LinkTypeOK, Call
  <2>2. hurt' \in BOOLEAN
    BY DEF LinkIInv, LinkTypeOK, Call
  <2> QED
    BY <2>1, <2>2 DEF LinkIInv, LinkTypeOK, Call, locals
<1>3. WireInv'
  BY DEF LinkIInv, WireInv, Call, Busy, locals
<1>4. ChunkInv'
  <2>1. start' = pos /\ done' = 0 /\ total' = <<>> /\ cnt' = n /\ op' = o /\ pos' = pos
    BY DEF Call
  <2>2. pos \in 0 .. Len(File)
    BY DEF LinkIInv, LinkTypeOK
  <2>3. Len(<<>>) = 0 /\ pos + 0 = pos
    BY <2>2
  <2>4. start' + done' <= Len(File) /\ done' <= Len(total') /\ Len(total') = done'
        /\ pos' = start' + done'
    BY <2>1, <2>2, <2>3
  <2>5. \A i \in 1 .. done' : FALSE
    BY <2>1
  <2> QED
    BY <2>1, <2>4, <2>5 DEF ChunkInv
<1>5. TalkInv'
  BY DEF TalkInv, Call, Reading
<1> QED
  BY <1>2, <1>3, <1>4, <1>5 DEF LinkIInv

LEMMA SendRequestKeeps == ASSUME LinkIInv, SendRequest PROVE LinkIInv'
<1>1. LinkTypeOK'
  BY DEF LinkIInv, LinkTypeOK, SendRequest, caller, locals
<1>2. WireInv'
  BY DEF LinkIInv, WireInv, SendRequest, Busy, locals
<1>3. ChunkInv'
  BY DEF LinkIInv, ChunkInv, SendRequest, Busy, caller
<1>4. TalkInv'
  BY DEF TalkInv, SendRequest
<1> QED
  BY <1>1, <1>2, <1>3, <1>4 DEF LinkIInv

LEMMA SendFailsKeeps == ASSUME LinkIInv, SendFails PROVE LinkIInv'
<1>1. LinkTypeOK'
  BY DEF LinkIInv, LinkTypeOK, SendFails, caller, locals, hostSide
<1>2. WireInv'
  BY DEF LinkIInv, WireInv, SendFails, Busy, locals, hostSide
<1>3. ChunkInv' /\ TalkInv'
  BY DEF ChunkInv, TalkInv, SendFails
<1> QED
  BY <1>1, <1>2, <1>3 DEF LinkIInv

LEMMA DisconnectKeeps == ASSUME LinkIInv, Disconnect PROVE LinkIInv'
<1>1. LinkTypeOK'
  BY DEF LinkIInv, LinkTypeOK, Disconnect, caller, locals, hostSide
<1>2. WireInv'
  BY DEF LinkIInv, WireInv, Disconnect, Busy, locals, hostSide
<1>3. ChunkInv' /\ TalkInv'
  BY DEF ChunkInv, TalkInv, Disconnect
<1> QED
  BY <1>1, <1>2, <1>3 DEF LinkIInv

LEMMA LinkStutters == ASSUME LinkIInv, UNCHANGED linkVars PROVE LinkIInv'
<1> USE DEF linkVars
<1>1. LinkTypeOK'
  BY DEF LinkIInv, LinkTypeOK
<1>2. WireInv'
  BY DEF LinkIInv, WireInv, Busy
<1>3. ChunkInv'
  BY DEF LinkIInv, ChunkInv, Busy
<1>4. ASSUME NEW m, Sent(m), Stands(m) PROVE Sent(m)' /\ Stands(m)'
  <2>1. Sent(m)'
    BY <1>4, SentKeeps
  <2>2. Stands(m)'
    BY <1>4 DEF Stands, BeforeSig, AfterSig, AfterLength, AfterValue, Place
  <2> QED
    BY <2>1, <2>2
<1>5. TalkInv'
  BY <1>4 DEF LinkIInv, TalkInv
<1> QED
  BY <1>1, <1>2, <1>3, <1>5 DEF LinkIInv
-----------------------------------------------------------------------------
(* A call that leaves has nothing open with the host.                      *)
LEMMA LeavesKeeps ==
  ASSUME LinkIInv, pc \in Reading, Took, UNCHANGED <<linked, hostSide, hurt>>,
         NEW s \in Heard, NEW v \in Symbols, Leaves(v)
  PROVE  LinkIInv'
<1>1. linked => ~pending
  BY Hearing
<1>2. noPPFS' \in BOOLEAN /\ lastWrite' \in BOOLEAN /\ line' \in Seq(Symbols)
  BY TookType DEF LinkIInv
<1>3. noPPFS' => ~linked'
  BY TookTells DEF LinkIInv
<1>4. LinkTypeOK'
  <2>1. /\ 0 \in 0 .. FF /\ 0 \in Int /\ 0 \in 0 .. Echo /\ 0 \in Nat
        /\ <<>> \in Seq(0 .. Echo) /\ <<>> \in Seq(-1 .. Echo) /\ 0 \in 0 .. Len(File)
    BY ByteIs, OverheadIs
  <2> QED
    BY <1>2, <2>1 DEF LinkIInv, LinkTypeOK, Leaves, Symbols, hostSide
<1>5. WireInv'
  BY <1>1, <1>3 DEF LinkIInv, WireInv, Leaves, Busy, hostSide
<1>6. ChunkInv' /\ TalkInv'
  BY DEF ChunkInv, TalkInv, Leaves, Busy, Reading
<1> QED
  BY <1>4, <1>5, <1>6 DEF LinkIInv

(* The wire while a call goes on reading.                                  *)
LEMMA WireKeeps ==
  ASSUME LinkIInv, pc \in Reading, Took, UNCHANGED <<linked, hostSide, hurt>>,
         NEW s \in Heard, pc' \in Reading \cup {"send", "wild"},
         pc' \in {"send", "op", "len", "value"} => buf' = <<>>, pc' # "sig"
  PROVE  WireInv'
<1>1. linked => ~pending
  BY Hearing
<1>2. noPPFS' => ~linked'
  BY TookTells DEF LinkIInv
<1> QED
  BY <1>1, <1>2 DEF LinkIInv, WireInv, Busy, Reading, hostSide

LEMMA ReadSigKeeps == ASSUME LinkIInv, ReadSig PROVE LinkIInv'
<1>1. PICK s \in Heard : IF s # Sig THEN Fails ELSE pc' = "op" /\ UNCHANGED <<caller, locals, ret>>
  BY DEF ReadSig
<1>2. pc = "sig" /\ pc \in Reading /\ Took /\ UNCHANGED <<linked, hostSide, hurt>>
  BY DEF ReadSig, Receives, Reading
<1>3. CASE s # Sig
  <2>1. FF \in Symbols
    BY ByteIs DEF Symbols
  <2> QED
    BY <1>1, <1>2, <1>3, <2>1, LeavesKeeps DEF Fails
<1>4. CASE s = Sig
  <2>1. pc' = "op" /\ UNCHANGED <<caller, locals, ret>>
    BY <1>1, <1>4
  <2>2. LinkTypeOK'
    <3>1. noPPFS' \in BOOLEAN /\ lastWrite' \in BOOLEAN /\ line' \in Seq(Symbols)
      BY <1>2, TookType DEF LinkIInv
    <3> QED
      BY <1>2, <2>1, <3>1 DEF LinkIInv, LinkTypeOK, Symbols, caller, locals, hostSide
  <2>3. WireInv'
    <3>1. pc' \in Reading /\ buf' = <<>> /\ pc' # "sig"
      BY <1>2, <2>1 DEF LinkIInv, WireInv, Reading, locals
    <3> QED
      BY <1>2, <3>1, WireKeeps
  <2>4. ChunkInv'
    BY <1>2, <2>1, ChunkKeeps DEF LinkIInv, Reading, caller, hostSide
  <2>5. ASSUME linked PROVE \E m : Sent(m)' /\ Stands(m)'
    <3>1. ~Dead
      BY <1>2, <2>5, Hearing
    <3>2. PICK m : Hears(m, s)
      BY <1>2, <2>5, Hearing
    <3>3. Sent(m)'
      <4>1. UNCHANGED <<op, cnt, done, start, answer, pos, hurt>>
        BY <1>2, <2>1 DEF caller, hostSide
      <4> QED
        BY <3>2, <4>1, SentKeeps DEF Hears
    <3>4. ~lastWrite' /\ line' = Rest(m, 1) /\ m[1] = Sig /\ 1 <= Len(m)
      <4>1. m[1] = Sig /\ SubSeq(line, 2, Len(line)) = Rest(m, 1)
        BY <1>2, <1>4, <3>2 DEF Hears
      <4>2. ~lastWrite' /\ line' = SubSeq(line, 2, Len(line))
        BY <1>2, <3>1, TookTells DEF LinkIInv
      <4>3. m \in Seq(Symbols) /\ Len(m) >= 6 /\ Len(m) \in Nat
        BY <3>2, LenProperties DEF Hears
      <4> QED
        BY <4>1, <4>2, <4>3
    <3>5. Place' = 1
      BY <2>1 DEF Place
    <3>6. AfterSig(m)'
      BY <3>4, <3>5 DEF AfterSig
    <3>7. Stands(m)'
      BY <2>1, <3>6 DEF Stands
    <3> QED
      BY <3>3, <3>7
  <2>6. TalkInv'
    BY <1>2, <2>5 DEF TalkInv
  <2> QED
    BY <2>2, <2>3, <2>4, <2>6 DEF LinkIInv
<1> QED
  BY <1>3, <1>4

(* From the signature on: where the call stands after one more symbol.     *)
LEMMA OneMore ==
  ASSUME LinkIInv, linked, pc \in Reading \ {"sig"}, Took,
         UNCHANGED <<linked, hostSide, hurt, op, cnt, done, start>>, NEW s \in Heard,
         Place' = Place + 1
  PROVE  \E m : Hears(m, s) /\ Sent(m)' /\ AfterSig(m)'
<1>1. ~Dead
  BY Hearing
<1>2. PICK m : Hears(m, s)
  BY Hearing
<1>3. Sent(m)'
  BY <1>2, SentKeeps DEF Hears, hostSide
<1>4. /\ ~lastWrite' /\ line' = Rest(m, Place + 1) /\ Place + 1 <= Len(m)
      /\ m[1] = Sig
  BY <1>1, <1>2, TookTells DEF LinkIInv, Hears, Stands, AfterSig
<1>5. AfterSig(m)'
  BY <1>4 DEF AfterSig
<1> QED
  BY <1>2, <1>3, <1>5

LEMMA ReadOpcodeKeeps == ASSUME LinkIInv, ReadOpcode PROVE LinkIInv'
<1>1. PICK s \in Heard : chksum' = s % Byte /\ result' = s
  BY DEF ReadOpcode
<1>2. pc = "op" /\ pc \in Reading \ {"sig"} /\ Took /\ UNCHANGED <<linked, hostSide, hurt>>
  BY DEF ReadOpcode, Receives, Reading
<1>3. pc' = "len" /\ UNCHANGED <<caller, size, buf, ret>>
  BY DEF ReadOpcode
<1>4. s \in Symbols /\ s \in Int
  BY HeardType DEF LinkIInv, Symbols
<1>5. LinkTypeOK'
  <2>1. noPPFS' \in BOOLEAN /\ lastWrite' \in BOOLEAN /\ line' \in Seq(Symbols)
    BY <1>2, TookType DEF LinkIInv
  <2>2. chksum' \in 0 .. FF /\ result' \in 0 .. Echo
    BY <1>1, <1>4, ModIs DEF Symbols
  <2> QED
    BY <1>2, <1>3, <2>1, <2>2 DEF LinkIInv, LinkTypeOK, Symbols, caller, hostSide
<1>6. WireInv'
  <2>1. pc' \in Reading /\ buf' = <<>> /\ pc' # "sig"
    BY <1>2, <1>3 DEF LinkIInv, WireInv, Reading
  <2> QED
    BY <1>2, <2>1, WireKeeps
<1>7. ChunkInv'
  BY <1>2, <1>3, ChunkKeeps DEF LinkIInv, Reading, caller, hostSide
<1>8. ASSUME linked PROVE \E m : Sent(m)' /\ Stands(m)'
  <2>1. Place = 1 /\ Place' = 2
    BY <1>2, <1>3 DEF Place
  <2>2. PICK m : Hears(m, s) /\ Sent(m)' /\ AfterSig(m)'
    BY <1>2, <1>3, <1>8, <2>1, OneMore DEF caller
  <2>3. s = m[2]
    BY <1>2, <2>1, <2>2 DEF Hears
  <2>4. chksum' = SumTo(Body(m))[1]
    <3>1. m \in Seq(Symbols) /\ 1 \in Nat /\ 1 + 1 <= Len(m) /\ Len(m) >= 1
      BY <2>2, LenProperties DEF Hears
    <3>2. SumTo(Body(m))[1] = (SumTo(Body(m))[1 - 1] + m[1 + 1]) % Byte
      BY <3>1, SumStep
    <3>3. SumTo(Body(m))[0] = 0
      BY <3>1, SumStart
    <3> QED
      BY <1>1, <1>4, <2>3, <3>2, <3>3
  <2>5. Stands(m)'
    BY <1>1, <1>3, <2>2, <2>3, <2>4 DEF Stands
  <2> QED
    BY <2>2, <2>5
<1>9. TalkInv'
  BY <1>2, <1>8 DEF TalkInv
<1> QED
  BY <1>5, <1>6, <1>7, <1>9 DEF LinkIInv

LEMMA ReadLenKeeps == ASSUME LinkIInv, ReadLen PROVE LinkIInv'
<1>1. PICK s \in Heard :
        IF ~HeaderFits(result, s) THEN Fails
        ELSE /\ size' = s - Overhead /\ chksum' = (chksum + s) % Byte
             /\ pc' = "value"
             /\ UNCHANGED <<caller, result, buf, ret>>
  BY DEF ReadLen
<1>2. pc = "len" /\ pc \in Reading /\ Took /\ UNCHANGED <<linked, hostSide, hurt>>
  BY DEF ReadLen, Receives, Reading
<1>3. CASE ~HeaderFits(result, s)
  <2>1. FF \in Symbols
    BY ByteIs DEF Symbols
  <2> QED
    BY <1>1, <1>2, <1>3, <2>1, LeavesKeeps DEF Fails
<1>4. CASE HeaderFits(result, s)
  <2>1. /\ size' = s - Overhead /\ chksum' = (chksum + s) % Byte
        /\ pc' = "value" /\ UNCHANGED <<caller, result, buf, ret>>
    BY <1>1, <1>4
  <2>2. s \in Symbols /\ s \in Int /\ chksum \in Int
    BY HeardType, ByteIs DEF LinkIInv, Symbols, LinkTypeOK
  <2>3. chksum' \in 0 .. FF /\ size' \in Int
    <3>1. chksum + s \in Int
      BY <2>2
    <3> QED
      BY <2>1, <2>2, <3>1, ModIs, OverheadIs
  <2>4. LinkTypeOK'
    <3>1. noPPFS' \in BOOLEAN /\ lastWrite' \in BOOLEAN /\ line' \in Seq(Symbols)
      BY <1>2, TookType DEF LinkIInv
    <3> QED
      BY <1>2, <2>1, <2>3, <3>1 DEF LinkIInv, LinkTypeOK, Symbols, caller, hostSide
  <2>5. WireInv'
    <3>1. pc' \in Reading /\ buf' = <<>> /\ pc' # "sig"
      BY <1>2, <2>1 DEF LinkIInv, WireInv, Reading
    <3> QED
      BY <1>2, <3>1, WireKeeps
  <2>6. ChunkInv'
    BY <1>2, <2>1, ChunkKeeps DEF LinkIInv, Reading, caller, hostSide
  <2>7. ASSUME linked PROVE \E m : Sent(m)' /\ Stands(m)'
    <3>1. Place = 2 /\ Place' = 3 /\ pc \in Reading \ {"sig"}
      BY <1>2, <2>1 DEF Place, Reading
    <3>2. PICK m : Hears(m, s) /\ Sent(m)' /\ AfterSig(m)'
      BY <1>2, <2>1, <2>7, <3>1, OneMore DEF caller
    <3>3. s = m[3] /\ result = m[2] /\ chksum = SumTo(Body(m))[1]
      BY <1>2, <3>1, <3>2 DEF Hears, Stands
    <3>4. chksum' = SumTo(Body(m))[2]
      <4>1. m \in Seq(Symbols) /\ 2 \in Nat /\ 2 + 1 <= Len(m)
        BY <3>2, LenProperties DEF Hears
      <4>2. SumTo(Body(m))[2] = (SumTo(Body(m))[2 - 1] + m[2 + 1]) % Byte
        BY <4>1, SumStep
      <4> QED
        BY <2>1, <3>3, <4>2
    <3>5. m[2] = op' /\ m[3] = size' + Overhead /\ (op' \in DOMAIN Replies => size' = 0)
      <4>1. s = (s - Overhead) + Overhead /\ Overhead - Overhead = 0
        BY <2>2, OverheadIs
      <4> QED
        BY <1>4, <2>1, <3>3, <4>1 DEF HeaderFits, caller
    <3>6. Stands(m)'
      BY <2>1, <3>2, <3>4, <3>5 DEF Stands, AfterLength
    <3> QED
      BY <3>2, <3>6
  <2>8. TalkInv'
    BY <1>2, <2>7 DEF TalkInv
  <2> QED
    BY <2>4, <2>5, <2>6, <2>8 DEF LinkIInv
<1> QED
  BY <1>3, <1>4

LEMMA ReadValueKeeps == ASSUME LinkIInv, ReadValue PROVE LinkIInv'
<1>1. PICK s \in Heard : chksum' = (chksum + s) % Byte /\ result' = s
  BY DEF ReadValue
<1>2. pc = "value" /\ pc \in Reading \ {"sig"} /\ Took /\ UNCHANGED <<linked, hostSide, hurt>>
  BY DEF ReadValue, Receives, Reading
<1>3. /\ pc' = IF size = 0 THEN "sum" ELSE "data"
      /\ UNCHANGED <<caller, size, buf, ret>>
  BY DEF ReadValue
<1>4. s \in Symbols /\ s \in Int /\ chksum \in Int
  BY HeardType, ByteIs DEF LinkIInv, Symbols, LinkTypeOK
<1>5. LinkTypeOK'
  <2>1. noPPFS' \in BOOLEAN /\ lastWrite' \in BOOLEAN /\ line' \in Seq(Symbols)
    BY <1>2, TookType DEF LinkIInv
  <2>2. chksum' \in 0 .. FF /\ result' \in 0 .. Echo
    <3>1. chksum + s \in Int
      BY <1>4
    <3> QED
      BY <1>1, <1>4, <3>1, ModIs DEF Symbols
  <2> QED
    BY <1>2, <1>3, <2>1, <2>2 DEF LinkIInv, LinkTypeOK, Symbols, caller, hostSide
<1>6. pc' \in {"sum", "data"} /\ buf' = <<>> /\ buf = <<>>
  BY <1>2, <1>3 DEF LinkIInv, WireInv
<1>7. WireInv'
  BY <1>2, <1>6, WireKeeps DEF Reading
<1>8. ChunkInv'
  BY <1>2, <1>3, <1>6, ChunkKeeps DEF LinkIInv, Reading, caller, hostSide
<1>9. ASSUME linked PROVE \E m : Sent(m)' /\ Stands(m)'
  <2>1. Len(buf') = 0
    BY <1>6
  <2>2. Place = 3 /\ Place' = 4
    BY <1>2, <1>6, <2>1 DEF Place
  <2>3. PICK m : Hears(m, s) /\ Sent(m)' /\ AfterSig(m)'
    BY <1>2, <1>3, <1>9, <2>2, OneMore DEF caller
  <2>4. s = m[4] /\ chksum = SumTo(Body(m))[2] /\ AfterLength(m)
    BY <1>2, <2>2, <2>3 DEF Hears, Stands
  <2>5. chksum' = SumTo(Body(m))[3]
    <3>1. m \in Seq(Symbols) /\ 3 \in Nat /\ 3 + 1 <= Len(m)
      BY <2>3, LenProperties DEF Hears
    <3>2. SumTo(Body(m))[3] = (SumTo(Body(m))[3 - 1] + m[3 + 1]) % Byte
      BY <3>1, SumStep
    <3> QED
      BY <1>1, <2>4, <3>2
  <2>6. AfterLength(m)'
    BY <1>3, <2>4 DEF AfterLength, caller
  <2>7. AfterValue(m)'
    <3>1. Len(buf') + 3 = 3 /\ \A i \in 1 .. Len(buf') : FALSE
      BY <2>1
    <3> QED
      BY <1>1, <2>4, <2>5, <3>1 DEF AfterValue
  <2>8. /\ pc' = "data" => size' # 0 /\ (size' > 0 => Len(buf') < size')
        /\ pc' = "sum" => Len(buf') = size'
    BY <1>3, <2>1
  <2>9. Stands(m)'
    BY <1>6, <2>3, <2>6, <2>7, <2>8 DEF Stands
  <2> QED
    BY <2>3, <2>9
<1>10. TalkInv'
  BY <1>2, <1>9 DEF TalkInv
<1> QED
  BY <1>5, <1>7, <1>8, <1>10 DEF LinkIInv
LEMMA ReadDataKeeps == ASSUME LinkIInv, ReadData PROVE LinkIInv'
<1>1. PICK s \in Heard :
        IF Len(buf) = Capacity
        THEN pc' = "wild" /\ UNCHANGED <<chksum, buf>>
        ELSE /\ buf' = Append(buf, s) /\ chksum' = (chksum + s) % Byte
             /\ pc' = IF Len(buf) + 1 = size THEN "sum" ELSE "data"
  BY DEF ReadData
<1>2. /\ pc = "data" /\ pc \in Reading \ {"sig"} /\ Took
      /\ UNCHANGED <<linked, hostSide, hurt>> /\ UNCHANGED <<caller, size, result, ret>>
  BY DEF ReadData, Receives, Reading
<1>3. s \in Symbols /\ s \in Int /\ chksum \in Int /\ buf \in Seq(Symbols)
  BY HeardType, ByteIs DEF LinkIInv, Symbols, LinkTypeOK
<1>4. PICK n \in Nat : n = Len(buf)
  BY <1>3, LenProperties
<1>5. noPPFS' \in BOOLEAN /\ lastWrite' \in BOOLEAN /\ line' \in Seq(Symbols)
  BY <1>2, TookType DEF LinkIInv
<1>6. CASE n = Capacity
  <2>1. pc' = "wild" /\ UNCHANGED <<chksum, buf>>
    BY <1>1, <1>4, <1>6
  <2>2. LinkTypeOK'
    BY <1>2, <1>5, <2>1 DEF LinkIInv, LinkTypeOK, Symbols, caller, hostSide
  <2>3. WireInv'
    BY <1>2, <2>1, WireKeeps DEF Reading
  <2>4. ChunkInv' /\ TalkInv'
    BY <2>1 DEF ChunkInv, TalkInv, Busy, Reading
  <2> QED
    BY <2>2, <2>3, <2>4 DEF LinkIInv
<1>7. CASE n # Capacity
  <2>1. /\ buf' = Append(buf, s) /\ chksum' = (chksum + s) % Byte
        /\ pc' = IF n + 1 = size THEN "sum" ELSE "data"
    BY <1>1, <1>4, <1>7
  <2>2. PICK b : b = Append(buf, s)
    OBVIOUS
  <2>3. /\ b \in Seq(Symbols) /\ Len(b) = n + 1 /\ b[n + 1] = s
        /\ \A i \in 1 .. n : b[i] = buf[i]
    BY <1>3, <1>4, <2>2, AppendProperties
  <2>4. LinkTypeOK'
    <3>1. chksum' \in 0 .. FF
      <4>1. chksum + s \in Int
        BY <1>3
      <4> QED
        BY <2>1, <4>1, ModIs
    <3>2. buf' \in Seq(0 .. Echo)
      BY <2>1, <2>2, <2>3 DEF Symbols
    <3> QED
      BY <1>2, <1>5, <2>1, <3>1, <3>2 DEF LinkIInv, LinkTypeOK, Symbols, caller, hostSide
  <2>5. pc' \in {"data", "sum"}
    BY <2>1
  <2>6. WireInv'
    BY <1>2, <2>5, WireKeeps DEF Reading
  <2>7. ChunkInv'
    BY <1>2, <2>5, ChunkKeeps DEF LinkIInv, Reading, caller, hostSide
  <2>8. ASSUME linked PROVE \E m : Sent(m)' /\ Stands(m)'
    <3>1. Place = n + 4 /\ Place' = n + 5 /\ Place' = Place + 1
      <4>1. Len(buf') = n + 1 /\ (n + 1) + 4 = n + 5 /\ (n + 4) + 1 = n + 5
        BY <2>1, <2>2, <2>3
      <4> QED
        BY <1>2, <1>4, <2>5, <4>1 DEF Place
    <3>2. PICK m : Hears(m, s) /\ Sent(m)' /\ AfterSig(m)'
      BY <1>2, <2>8, <3>1, OneMore DEF caller
    <3>3. /\ s = m[n + 5] /\ (n + 4) + 1 <= Len(m) /\ m \in Seq(Symbols)
          /\ AfterLength(m) /\ AfterValue(m) /\ size # 0 /\ (size > 0 => n < size)
      <4>1. s = m[Place + 1] /\ Place + 1 <= Len(m) /\ m \in Seq(Symbols) /\ Stands(m)
        BY <1>2, <3>2 DEF Hears
      <4>2. (n + 4) + 1 = n + 5
        OBVIOUS
      <4> QED
        BY <1>2, <1>4, <3>1, <4>1, <4>2 DEF Stands
    <3>4. chksum' = SumTo(Body(m))[n + 4]
      <4>1. n + 4 \in Nat /\ n + 4 # 0 /\ (n + 4) - 1 = n + 3 /\ (n + 4) + 1 = n + 5
        OBVIOUS
      <4>2. SumTo(Body(m))[n + 4] = (SumTo(Body(m))[(n + 4) - 1] + m[(n + 4) + 1]) % Byte
        BY <3>3, <4>1, SumStep
      <4>3. chksum = SumTo(Body(m))[n + 3]
        BY <1>4, <3>3 DEF AfterValue
      <4> QED
        BY <2>1, <3>3, <4>1, <4>2, <4>3
    <3>5. AfterLength(m)'
      BY <1>2, <3>3 DEF AfterLength, caller
    <3>6. AfterValue(m)'
      <4>1. ASSUME NEW i \in 1 .. n + 1 PROVE b[i] = m[i + 4]
        <5>1. CASE i = n + 1
          <6>1. i + 4 = n + 5
            BY <5>1
          <6> QED
            BY <2>3, <3>3, <5>1, <6>1
        <5>2. CASE i # n + 1
          <6>1. i \in 1 .. n
            BY <5>2
          <6> QED
            BY <1>4, <2>3, <3>3, <6>1 DEF AfterValue
        <5> QED
          BY <5>1, <5>2
      <4>2. (n + 1) + 3 = n + 4
        OBVIOUS
      <4> QED
        BY <1>2, <2>1, <2>2, <2>3, <3>3, <3>4, <4>1, <4>2 DEF AfterValue
    <3>7. /\ pc' = "data" => size' # 0 /\ (size' > 0 => Len(buf') < size')
          /\ pc' = "sum" => Len(buf') = size'
      <4>1. Len(buf') = n + 1 /\ size' = size /\ size \in Int
        BY <1>2, <2>1, <2>2, <2>3 DEF LinkIInv, LinkTypeOK
      <4> QED
        BY <2>1, <3>3, <4>1
    <3>8. Stands(m)'
      BY <2>5, <3>2, <3>5, <3>6, <3>7 DEF Stands
    <3> QED
      BY <3>2, <3>8
  <2>9. TalkInv'
    BY <1>2, <2>8 DEF TalkInv
  <2> QED
    BY <2>4, <2>6, <2>7, <2>9 DEF LinkIInv
<1> QED
  BY <1>6, <1>7

LEMMA ReadSumKeeps == ASSUME LinkIInv, ReadSum PROVE LinkIInv'
<1>1. PICK s \in Heard :
        IF ~SumFits(s) THEN Fails ELSE pc' = "stop" /\ UNCHANGED <<caller, locals, ret>>
  BY DEF ReadSum
<1>2. /\ pc = "sum" /\ pc \in Reading \ {"sig"} /\ pc \in Reading /\ Took
      /\ UNCHANGED <<linked, hostSide, hurt>>
  BY DEF ReadSum, Receives, Reading
<1>3. CASE ~SumFits(s)
  <2>1. FF \in Symbols
    BY ByteIs DEF Symbols
  <2> QED
    BY <1>1, <1>2, <1>3, <2>1, LeavesKeeps DEF Fails
<1>4. CASE SumFits(s)
  <2>1. pc' = "stop" /\ UNCHANGED <<caller, locals, ret>>
    BY <1>1, <1>4
  <2>2. LinkTypeOK'
    <3>1. noPPFS' \in BOOLEAN /\ lastWrite' \in BOOLEAN /\ line' \in Seq(Symbols)
      BY <1>2, TookType DEF LinkIInv
    <3> QED
      BY <1>2, <2>1, <3>1 DEF LinkIInv, LinkTypeOK, Symbols, caller, locals, hostSide
  <2>3. WireInv'
    BY <1>2, <2>1, WireKeeps DEF Reading
  <2>4. ChunkInv'
    BY <1>2, <2>1, ChunkKeeps DEF LinkIInv, Reading, caller, hostSide
  <2>5. ASSUME linked PROVE \E m : Sent(m)' /\ Stands(m)'
    <3>1. PICK n \in Nat : n = Len(buf)
      BY LenProperties DEF LinkIInv, LinkTypeOK
    <3>2. Place = n + 4 /\ Place' = n + 5 /\ Place' = Place + 1
      <4>1. buf' = buf /\ (n + 4) + 1 = n + 5
        BY <2>1 DEF locals
      <4> QED
        BY <1>2, <2>1, <3>1, <4>1 DEF Place
    <3>3. PICK m : Hears(m, s) /\ Sent(m)' /\ AfterSig(m)'
      BY <1>2, <2>1, <2>5, <3>2, OneMore DEF caller
    <3>4. s = m[n + 5] /\ AfterLength(m) /\ AfterValue(m) /\ Len(buf) = size
      <4>1. s = m[Place + 1] /\ Stands(m)
        BY <1>2, <3>3 DEF Hears
      <4> QED
        BY <1>2, <3>2, <4>1 DEF Stands
    <3>5. AfterLength(m)' /\ AfterValue(m)' /\ Len(buf') = size'
      BY <2>1, <3>4 DEF AfterLength, AfterValue, caller, locals
    <3>6. m[Len(buf') + 5] = chksum'
      BY <1>4, <2>1, <3>1, <3>4 DEF SumFits, locals
    <3>7. Stands(m)'
      BY <2>1, <3>3, <3>5, <3>6 DEF Stands
    <3> QED
      BY <3>3, <3>7
  <2>6. TalkInv'
    BY <1>2, <2>5 DEF TalkInv
  <2> QED
    BY <2>2, <2>3, <2>4, <2>6 DEF LinkIInv
<1> QED
  BY <1>3, <1>4

-----------------------------------------------------------------------------
(* Who hears the stop signature has the answer.                            *)
LEMMA Success ==
  ASSUME LinkIInv, pc = "stop", NEW s \in Heard, StopFits(s)
  PROVE  /\ linked /\ ~pending /\ AnswerFits /\ result = answer.value
         /\ Len(buf) = Len(answer.data) /\ \A i \in 1 .. Len(buf) : buf[i] = answer.data[i]
<1>1. linked
  <2>1. s # FF
    BY ByteIs DEF StopFits
  <2> QED
    BY <2>1 DEF Heard, Dead
<1>2. pc \in Reading
  BY DEF Reading
<1>3. PICK m : Hears(m, s)
  BY <1>1, <1>2, Hearing
<1>4. ~pending
  BY <1>1, <1>2, Hearing
<1>5. PICK n \in Nat : n = Len(buf)
  BY LenProperties DEF LinkIInv, LinkTypeOK
<1>6. Place = n + 5 /\ (n + 5) + 1 = n + 6
  BY <1>5 DEF Place
<1>7. /\ n + 6 <= Len(m) /\ m[n + 6] = StopSig /\ m[1] = Sig
      /\ AfterLength(m) /\ AfterValue(m) /\ n = size /\ m[n + 5] = chksum
  <2>1. Stands(m) /\ Place + 1 <= Len(m) /\ s = m[Place + 1]
    BY <1>3 DEF Hears
  <2> QED
    BY <1>5, <1>6, <2>1 DEF Stands, AfterSig, StopFits
<1>8. Accepted(m, op, n)
  BY <1>5, <1>7 DEF Accepted, AfterLength, AfterValue
<1>9. op \in Ops /\ Sent(m)
  BY <1>3 DEF LinkIInv, LinkTypeOK, Hears
<1>10. /\ AnswerFits /\ n = Len(answer.data) /\ m[4] = answer.value
       /\ \A i \in 1 .. n : m[i + 4] = answer.data[i]
  BY <1>8, <1>9, AcceptedIs
<1>11. result = m[4] /\ \A i \in 1 .. n : buf[i] = m[i + 4]
  BY <1>5, <1>7 DEF AfterValue
<1> QED
  BY <1>1, <1>4, <1>5, <1>10, <1>11
LEMMA ReadStopFailsKeeps == ASSUME LinkIInv, ReadStopFails PROVE LinkIInv'
<1>1. PICK s \in Heard : ~StopFits(s)
  BY DEF ReadStopFails
<1>2. pc \in Reading /\ Took /\ UNCHANGED <<linked, hostSide, hurt>> /\ Leaves(FF)
  BY DEF ReadStopFails, Receives, Reading, Fails
<1>3. FF \in Symbols
  BY ByteIs DEF Symbols
<1> QED
  BY <1>1, <1>2, <1>3, LeavesKeeps

LEMMA ReturnsKeeps == ASSUME LinkIInv, Returns PROVE LinkIInv'
<1>1. PICK s \in Heard : StopFits(s)
  BY DEF Returns
<1>2. pc \in Reading /\ Took /\ UNCHANGED <<linked, hostSide, hurt>> /\ Leaves(result)
  BY DEF Returns, Receives, Reading
<1>3. result \in Symbols
  BY DEF LinkIInv, LinkTypeOK, Symbols
<1> QED
  BY <1>1, <1>2, <1>3, LeavesKeeps

(* What rread has got when a chunk is done: t is what lies in the caller's *)
(* buffer, d bytes were returned before this chunk and n with it.          *)
Gathered(t, p, d, n) ==
  /\ n \in Nat /\ d \in Nat /\ n <= Asked /\ n = Len(buf)
  /\ result = n /\ d = done /\ t = total \o buf
  /\ p \in 0 .. Len(File) /\ p = start + d + n
  /\ t \in Seq(-1 .. Echo) /\ Len(t) = Len(total) + n /\ d + n <= Len(t)
  /\ n < Asked => p = Len(File)
  /\ Len(total) = d \/ start + d = Len(File)
  /\ \A i \in 1 .. d + n : t[i] = File[start + i]

LEMMA AskedIs ==
  ASSUME LinkTypeOK, cnt # 0
  PROVE  Asked \in Nat \ {0} /\ Asked <= cnt
<1>1. cnt \in Nat /\ ReadLimit \in Nat \ {0}
  BY LinkAssumption DEF LinkTypeOK
<1> QED
  BY <1>1 DEF Asked, Least

LEMMA SeqWider ==
  ASSUME NEW S, NEW T, \A x \in S : x \in T, NEW q \in Seq(S)
  PROVE  q \in Seq(T)
<1>1. PICK n \in Nat : q \in [1 .. n -> S]
  BY LenProperties
<1>2. \A i \in 1 .. n : q[i] \in T
  BY <1>1
<1>3. q = [i \in 1 .. n |-> q[i]]
  BY <1>1
<1>4. q \in [1 .. n -> T]
  BY <1>2, <1>3
<1> QED
  BY <1>4, SeqDef

LEMMA Gathers ==
  ASSUME LinkIInv, pc = "stop", op = ReadOp, NEW s \in Heard, StopFits(s),
         NEW t, t = total \o buf
  PROVE  cnt # 0 /\ Gathered(t, pos, done, Len(buf))
<1>1. /\ linked /\ AnswerFits /\ result = answer.value
      /\ Len(buf) = Len(answer.data) /\ \A i \in 1 .. Len(buf) : buf[i] = answer.data[i]
  BY Success
<1>2. PICK n \in Nat : n = Len(buf)
  BY LenProperties DEF LinkIInv, LinkTypeOK
<1>3. PICK d \in Nat : d = done
  BY DEF LinkIInv, LinkTypeOK
<1>4. /\ answer.value = n /\ n <= Asked /\ pos = start + d + n
      /\ \A i \in 1 .. n : buf[i] = File[start + d + i]
      /\ n < Asked => pos = Len(File)
  BY <1>1, <1>2, <1>3 DEF AnswerFits, NextBytes
<1>5. /\ cnt # 0 /\ d <= Len(total)
      /\ Len(total) = d \/ start + d = Len(File)
      /\ \A i \in 1 .. d : total[i] = File[start + i]
  BY <1>1, <1>3 DEF LinkIInv, ChunkInv, Busy
<1>6. PICK k \in Nat : k = Len(total)
  BY LenProperties DEF LinkIInv, LinkTypeOK
<1>7. PICK S : S = -1 .. Echo
  OBVIOUS
<1>8. total \in Seq(S) /\ buf \in Seq(S)
  <2>1. total \in Seq(-1 .. Echo) /\ buf \in Seq(0 .. Echo)
    BY DEF LinkIInv, LinkTypeOK
  <2>3. \A x \in 0 .. Echo : x \in -1 .. Echo
    BY ByteIs
  <2>5. buf \in Seq(S)
    BY <1>7, <2>1, <2>3, SeqWider
  <2> QED
    BY <1>7, <2>1, <2>5
<1>9. /\ t \in Seq(S) /\ Len(t) = k + n
      /\ \A i \in 1 .. k + n : t[i] = IF i <= k THEN total[i] ELSE buf[i - k]
  BY <1>2, <1>6, <1>8, ConcatProperties
<1>10. start \in 0 .. Len(File) /\ pos \in 0 .. Len(File) /\ Len(File) \in Nat
  BY OverheadIs DEF LinkIInv, LinkTypeOK
<1>11. ASSUME NEW i \in 1 .. d + n PROVE t[i] = File[start + i]
  <2>1. CASE i <= d
    <3>1. i \in 1 .. d /\ i \in 1 .. k + n /\ i <= k
      BY <1>5, <1>6, <2>1
    <3> QED
      BY <1>5, <1>9, <3>1
  <2>2. CASE ~(i <= d)
    <3>1. start + d # Len(File)
      BY <1>4, <1>10, <2>2
    <3>2. k = d
      BY <1>5, <1>6, <3>1
    <3>3. i \in 1 .. k + n /\ ~(i <= k) /\ i - k \in 1 .. n /\ start + d + (i - k) = start + i
      BY <1>10, <2>2, <3>2
    <3> QED
      BY <1>4, <1>9, <3>3
  <2> QED
    BY <2>1, <2>2
<1>12. d + n <= Len(t)
  BY <1>5, <1>6, <1>9
<1> QED
  BY <1>1, <1>2, <1>3, <1>4, <1>5, <1>6, <1>7, <1>9, <1>10, <1>11, <1>12 DEF Gathered

LEMMA GapIs ==
  ASSUME NEW n \in Nat
  PROVE  Gap(n) \in Seq(-1 .. Echo) /\ Len(Gap(n)) = n
<1>1. -1 \in -1 .. Echo
  BY ByteIs
<1> QED
  BY <1>1 DEF Gap

LEMMA ChunkDoneKeeps == ASSUME LinkIInv, ChunkDone PROVE LinkIInv'
<1>1. PICK s \in Heard : StopFits(s)
  BY DEF ChunkDone
<1>2. /\ pc = "stop" /\ pc \in Reading /\ op = ReadOp /\ Took
      /\ UNCHANGED <<linked, hostSide, hurt>>
  BY DEF ChunkDone, Receives, Reading
<1>3. IF result = FF THEN Fails
      ELSE IF cnt = Asked THEN Leaves(done + result)
      ELSE /\ pc' = "send"
           /\ done' = done + result /\ cnt' = cnt - Asked
           /\ total' = total \o buf \o Gap(Asked - Len(buf))
           /\ buf' = <<>>
           /\ UNCHANGED <<op, start, chksum, size, result, ret>>
  BY DEF ChunkDone
<1>4. PICK t : t = total \o buf
  OBVIOUS
<1>5. PICK n : n = Len(buf)
  OBVIOUS
<1>6. cnt # 0 /\ Gathered(t, pos, done, n)
  BY <1>1, <1>2, <1>4, <1>5, Gathers
<1>7. CASE result = FF
  <2>1. FF \in Symbols
    BY ByteIs DEF Symbols
  <2> QED
    BY <1>1, <1>2, <1>3, <1>7, <2>1, LeavesKeeps DEF Fails
<1>8. PICK d \in Nat : d = done /\ n \in Nat
  BY <1>6 DEF Gathered
<1>9. PICK a \in Nat \ {0} : a = Asked /\ a <= cnt
  BY <1>6, AskedIs DEF LinkIInv
<1>10. start \in 0 .. Len(File) /\ Len(File) \in Nat /\ Len(File) <= Echo
  BY OverheadIs, ByteIs DEF LinkIInv, LinkTypeOK
<1>11. pos \in 0 .. Len(File) /\ pos = start + d + n /\ d + n \in 0 .. Len(File) /\ result = n
  BY <1>6, <1>8, <1>10 DEF Gathered
<1>12. CASE result # FF /\ cnt = Asked
  <2>1. done + result \in Symbols
    BY <1>8, <1>10, <1>11, ByteIs DEF Symbols
  <2> QED
    BY <1>1, <1>2, <1>3, <1>12, <2>1, LeavesKeeps
<1>13. CASE result # FF /\ cnt # Asked
  <2>1. /\ pc' = "send" /\ done' = d + n /\ cnt' = cnt - a
        /\ total' = t \o Gap(a - n) /\ buf' = <<>>
        /\ UNCHANGED <<op, start, chksum, size, result, ret>>
    BY <1>3, <1>4, <1>5, <1>8, <1>9, <1>11, <1>13
  <2>2. /\ t \in Seq(-1 .. Echo) /\ d + n <= Len(t) /\ Len(t) = Len(total) + n /\ n <= a
        /\ n < a => pos = Len(File)
        /\ Len(total) = d \/ start + d = Len(File)
        /\ \A i \in 1 .. d + n : t[i] = File[start + i]
    BY <1>6, <1>8, <1>9 DEF Gathered
  <2>3. PICK g \in Nat : g = a - n
    BY <1>8, <2>2
  <2>4. PICK L \in Nat : L = Len(t)
    BY <2>2, LenProperties
  <2>5. PICK S : S = -1 .. Echo
    OBVIOUS
  <2>6. PICK u, h : u = t \o h /\ h = Gap(g)
    OBVIOUS
  <2>7. /\ u \in Seq(S) /\ Len(u) = L + g
        /\ \A i \in 1 .. L + g : u[i] = IF i <= L THEN t[i] ELSE h[i - L]
    <3>1. h \in Seq(S) /\ Len(h) = g /\ t \in Seq(S)
      BY <2>2, <2>5, <2>6, GapIs
    <3>2. PICK x \in Seq(S), y \in Seq(S) : x = t /\ y = h
      BY <3>1
    <3>3. /\ x \o y \in Seq(S) /\ Len(x \o y) = Len(x) + Len(y)
          /\ \A i \in 1 .. Len(x) + Len(y) :
               (x \o y)[i] = IF i <= Len(x) THEN x[i] ELSE y[i - Len(x)]
      BY ConcatProperties
    <3> QED
      BY <2>4, <2>6, <3>1, <3>2, <3>3
  <2>8. total' = u
    BY <2>1, <2>3, <2>6
  <2>9. LinkTypeOK'
    <3>1. noPPFS' \in BOOLEAN /\ lastWrite' \in BOOLEAN /\ line' \in Seq(Symbols)
      BY <1>2, TookType DEF LinkIInv
    <3>2. cnt' \in Nat /\ done' \in Nat
      BY <1>8, <1>9, <2>1 DEF LinkIInv, LinkTypeOK
    <3>3. total' \in Seq(-1 .. Echo)
      BY <2>5, <2>7, <2>8
    <3>4. buf' \in Seq(0 .. Echo)
      BY <2>1
    <3> QED
      BY <1>2, <2>1, <3>1, <3>2, <3>3, <3>4 DEF LinkIInv, LinkTypeOK, Symbols, hostSide
  <2>10. WireInv'
    BY <1>1, <1>2, <2>1, WireKeeps
  <2>11. ChunkInv'
    <3>1. cnt' # 0 /\ start' = start /\ pos' = pos
      BY <1>2, <1>9, <1>13, <2>1 DEF LinkIInv, LinkTypeOK, hostSide
    <3>2. start + (d + n) = pos
      BY <1>8, <1>10, <1>11
    <3>3. d + n <= L + g
      BY <1>8, <2>2, <2>3, <2>4
    <3>4. L + g = d + n \/ pos = Len(File)
      <4>1. CASE n < a
        BY <2>2, <4>1
      <4>2. CASE n = a /\ Len(total) = d
        BY <1>8, <2>2, <2>3, <2>4, <4>2
      <4>3. CASE n = a /\ start + d = Len(File)
        BY <1>8, <1>10, <1>11, <4>3
      <4> QED
        BY <1>8, <2>2, <4>1, <4>2, <4>3
    <3>5. \A i \in 1 .. d + n : u[i] = File[start + i]
      <4>1. ASSUME NEW i \in 1 .. d + n PROVE u[i] = File[start + i]
        <5>1. i \in 1 .. L + g /\ i <= L
          BY <1>8, <2>2, <2>3, <2>4
        <5> QED
          BY <2>2, <2>7, <5>1
      <4> QED
        BY <4>1
    <3>6. done' = d + n /\ total' = u /\ Len(u) = L + g /\ start' = start /\ pos' = pos
      BY <2>1, <2>7, <2>8, <3>1
    <3>7. start' + done' = pos'
      BY <3>2, <3>6
    <3>8. start' + done' <= Len(File) /\ done' <= Len(total')
      BY <1>10, <1>11, <3>2, <3>3, <3>6
    <3>9. Len(total') = done' \/ start' + done' = Len(File)
      BY <3>4, <3>6, <3>7
    <3>10. \A i \in 1 .. done' : total'[i] = File[start' + i]
      BY <3>5, <3>6, Zenon
    <3> QED
      BY <3>1, <3>7, <3>8, <3>9, <3>10, Zenon DEF ChunkInv
  <2>12. TalkInv'
    BY <2>1 DEF TalkInv, Reading
  <2> QED
    BY <2>9, <2>10, <2>11, <2>12 DEF LinkIInv
<1> QED
  BY <1>7, <1>12, <1>13
-----------------------------------------------------------------------------
(* What the host answers fits the call.                                    *)
LEMMA AnswerIs ==
  ASSUME LinkIInv, pending, linked, NEW a \in Answers, NEW q,
         q = IF op = ReadOp THEN pos + a.value ELSE IF op = Open THEN 0 ELSE pos
  PROVE  /\ a \in Answerable /\ q \in 0 .. Len(File)
         /\ op = ReadOp =>
              /\ a.value = Len(a.data) /\ a.value <= Asked
              /\ q = start + done + a.value /\ q <= Len(File)
              /\ \A i \in 1 .. Len(a.data) : a.data[i] = File[start + done + i]
              /\ a.value < Asked => q = Len(File)
         /\ op # ReadOp => Len(a.data) <= 1
         /\ op \in DOMAIN Replies => Len(a.data) = 0
<1>1. op \in Ops /\ pos \in 0 .. Len(File) /\ Len(File) \in Nat
  BY OverheadIs DEF LinkIInv, LinkTypeOK
<1>2. 0 \in 0 .. FF /\ 1 \in 0 .. FF /\ 0 + Overhead \in 0 .. FF /\ 1 + Overhead \in 0 .. FF
  BY ByteIs, OverheadIs
<1>3. /\ <<>> \in Seq(0 .. FF) /\ Len(<<>>) = 0
      /\ <<1>> \in Seq(0 .. FF) /\ Len(<<1>>) = 1
  BY <1>2
<1>4. CASE op = ReadOp
  <2>1. cnt # 0 /\ pos = start + done
    BY <1>4 DEF LinkIInv, WireInv, ChunkInv, Busy
  <2>2. PICK k \in Nat \ {0} : k = Asked
    BY <2>1, AskedIs DEF LinkIInv
  <2>14. PICK p \in Nat : p = pos
    BY <1>1
  <2>15. PICK L \in Nat : L = Len(File)
    BY <1>1
  <2>3. p = pos /\ L = Len(File) /\ p <= L
    BY <1>1, <2>14, <2>15
  <2>4. PICK n : n = Least(k, L - p)
    OBVIOUS
  <2>5. n \in Nat /\ n <= k /\ p + n <= L /\ (n < k => p + n = L)
    BY <2>3, <2>4 DEF Least
  <2>6. PICK d : d = SubSeq(File, p + 1, p + n)
    OBVIOUS
  <2>7. a = [value |-> n, data |-> d]
    BY <1>4, <2>2, <2>3, <2>4, <2>6 DEF Answers
  <2>8. File \in Seq(0 .. FF)
    BY LinkAssumption
  <2>9. d \in Seq(0 .. FF) /\ Len(d) = n /\ \A i \in 1 .. n : d[i] = File[p + i]
    <3>1. PICK b \in Nat, e \in Nat : b = p + 1 /\ e = p + n
      BY <2>5
    <3>2. \A i \in b .. e : File[i] \in 0 .. FF
      <4>1. \A i \in b .. e : i \in 1 .. L
        BY <2>5, <3>1
      <4> QED
        BY <2>3, <2>8, <4>1, ElementOfSeq
    <3>3. b - 1 <= e /\ e - b + 1 = n /\ \A i \in 1 .. n : b + i - 1 = p + i
      BY <2>5, <3>1
    <3>4. d = [i \in 1 .. n |-> File[p + i]]
      BY <2>3, <2>5, <2>6, <2>8
    <3>5. \A i \in 1 .. n : p + i \in b .. e
      BY <2>5, <3>1
    <3>6. \A i \in 1 .. n : File[p + i] \in 0 .. FF
      BY <3>2, <3>5
    <3>7. d \in [1 .. n -> 0 .. FF]
      BY <3>4, <3>6
    <3>8. d \in Seq(0 .. FF)
      BY <2>5, <3>7, SeqDef
    <3> QED
      BY <2>5, <3>4, <3>8, LenProperties
  <2>10. n \in 0 .. FF /\ Len(d) + Overhead \in 0 .. FF
    BY <2>3, <2>5, <2>9, OverheadIs, ByteIs
  <2>11. a \in Answerable
    BY <2>7, <2>9, <2>10 DEF Answerable
  <2>12. q = p + n
    BY <1>4, <2>3, <2>7
  <2>13. op \notin DOMAIN Replies
    BY <1>1, <1>4, OpIs
  <2> QED
    BY <1>4, <2>1, <2>2, <2>3, <2>5, <2>7, <2>9, <2>11, <2>12, <2>13
<1>5. ASSUME op # ReadOp PROVE q \in 0 .. Len(File)
  BY <1>1, <1>5
<1>6. CASE op # ReadOp /\ op \in SearchOps
  <2>1. op \notin DOMAIN Replies
    BY <1>6, LinkAssumption
  <2>2. a \in {[value |-> 0, data |-> <<>>], [value |-> 1, data |-> <<1>>]}
    BY <1>6 DEF Answers
  <2>3. PICK v \in 0 .. FF, d \in Seq(0 .. FF) :
          a = [value |-> v, data |-> d] /\ Len(d) \in {0, 1}
    BY <1>2, <1>3, <2>2
  <2>4. Len(a.data) + Overhead \in 0 .. FF /\ Len(a.data) <= 1
    <3>1. a.data = d
      BY <2>3
    <3>2. CASE Len(d) = 0
      BY <1>2, <3>1, <3>2
    <3>3. CASE Len(d) = 1
      BY <1>2, <3>1, <3>3
    <3> QED
      BY <2>3, <3>2, <3>3
  <2>5. a \in Answerable
    BY <2>3, <2>4 DEF Answerable
  <2> QED
    BY <1>5, <1>6, <2>1, <2>4, <2>5
<1>7. CASE op # ReadOp /\ op \notin SearchOps
  <2>1. op \in DOMAIN Replies
    BY <1>1, <1>7 DEF Ops
  <2>2. PICK v \in Replies[op] : a = [value |-> v, data |-> <<>>]
    BY <1>7 DEF Answers
  <2>3. v \in 0 .. FF
    BY <2>1, LinkAssumption
  <2>4. a \in Answerable /\ Len(a.data) = 0
    BY <1>2, <1>3, <2>2, <2>3 DEF Answerable
  <2> QED
    BY <1>5, <1>7, <2>4
<1> QED
  BY <1>4, <1>6, <1>7

LEMMA PutUpIs ==
  ASSUME NEW m \in Seq(Symbols), PutUp(m)
  PROVE  line' \in Seq(Symbols) /\ (line' = m \/ line' = <<Echo>> \o m)
<1>1. PICK e \in {<<>>, <<Echo>>} : line' = e \o m
  BY DEF PutUp
<1>2. CASE e = <<>>
  BY <1>1, <1>2, ConcatEmptySeq
<1>3. CASE e = <<Echo>>
  <2>1. <<Echo>> \in Seq(Symbols)
    BY ByteIs DEF Symbols
  <2> QED
    BY <1>1, <1>3, <2>1, ConcatProperties
<1> QED
  BY <1>1, <1>2, <1>3

(* Something the host puts up is there to be read from its beginning.      *)
LEMMA HostKeeps ==
  ASSUME LinkIInv, pending, linked, pending' = FALSE, linked' = linked,
         UNCHANGED <<pc, caller, noPPFS, lastWrite, locals, ret>>,
         pos' \in 0 .. Len(File), faults' \in 0 .. MaxFaults, hurt' \in BOOLEAN,
         hurt => hurt', NEW m \in Seq(Symbols), Sent(m)', PutUp(m)
  PROVE  LinkIInv'
<1>1. pc = "sig" /\ lastWrite
  BY DEF LinkIInv, WireInv
<1>2. line' \in Seq(Symbols) /\ (line' = m \/ line' = <<Echo>> \o m)
  BY PutUpIs
<1>3. LinkTypeOK'
  BY <1>2 DEF LinkIInv, LinkTypeOK, Symbols, caller, locals
<1>4. WireInv'
  BY DEF LinkIInv, WireInv, Busy, locals
<1>5. ChunkInv'
  BY <1>1 DEF LinkIInv, ChunkInv, Busy, caller
<1>6. Stands(m)'
  BY <1>1, <1>2 DEF Stands, BeforeSig
<1>7. TalkInv'
  BY <1>6 DEF TalkInv
<1> QED
  BY <1>3, <1>4, <1>5, <1>7 DEF LinkIInv

LEMMA HostAnswersKeeps == ASSUME LinkIInv, HostAnswers PROVE LinkIInv'
<1>1. PICK a \in Answers :
        /\ answer' = a
        /\ pos' = IF op = ReadOp THEN pos + a.value
                  ELSE IF op = Open THEN 0 ELSE pos
        /\ \/ PutUp(Reply(op, a)) /\ UNCHANGED <<hurt, faults>>
           \/ /\ faults < MaxFaults /\ faults' = faults + 1 /\ hurt' = TRUE
              /\ \E s \in Damaged(Reply(op, a)) : PutUp(s)
  BY DEF HostAnswers
<1>2. /\ pending /\ linked /\ pending' = FALSE
      /\ UNCHANGED <<pc, caller, noPPFS, lastWrite, locals, ret, linked>>
  BY DEF HostAnswers
<1>3. PICK q : q = IF op = ReadOp THEN pos + a.value ELSE IF op = Open THEN 0 ELSE pos
  OBVIOUS
<1>4. /\ a \in Answerable /\ q \in 0 .. Len(File)
      /\ op = ReadOp =>
           /\ a.value = Len(a.data) /\ a.value <= Asked
           /\ q = start + done + a.value /\ q <= Len(File)
           /\ \A i \in 1 .. Len(a.data) : a.data[i] = File[start + done + i]
           /\ a.value < Asked => q = Len(File)
      /\ op # ReadOp => Len(a.data) <= 1
      /\ op \in DOMAIN Replies => Len(a.data) = 0
  BY <1>2, <1>3, AnswerIs
<1>5. pos' = q /\ answer' = a /\ UNCHANGED <<op, cnt, done, start>>
  BY <1>1, <1>2, <1>3 DEF caller
<1>6. AnswerFits'
  <2>1. op' = ReadOp => NextBytes'
    BY <1>4, <1>5 DEF NextBytes, Asked
  <2> QED
    BY <1>4, <1>5, <2>1 DEF AnswerFits
<1>7. PICK o : o = op
  OBVIOUS
<1>8. o \in 0 .. FF /\ op' = o
  BY <1>5, <1>7, OpIs DEF LinkIInv, LinkTypeOK
<1>9. PICK N \in Nat : N = Len(a.data)
  BY <1>4, LenProperties DEF Answerable
<1>10. PICK r : r = Reply(o, a)
  OBVIOUS
<1>11. r \in Seq(Symbols) /\ Len(r) \in Nat
  BY <1>4, <1>8, <1>10, ReplyIs, LenProperties DEF Spelled
<1>12. r = Reply(op, answer)'
  <2>1. Reply(op, answer)' = Reply(op', answer')
    BY DEF Reply, Sum
  <2> QED
    BY <1>5, <1>8, <1>10, <2>1
<1>13. faults \in 0 .. MaxFaults /\ MaxFaults \in Nat /\ hurt \in BOOLEAN
  BY LinkAssumption DEF LinkIInv, LinkTypeOK
<1>14. CASE PutUp(Reply(op, a)) /\ UNCHANGED <<hurt, faults>>
  <2>1. PutUp(r)
    BY <1>7, <1>10, <1>14
  <2>2. Sent(r)'
    BY <1>6, <1>12 DEF Sent
  <2>3. faults' \in 0 .. MaxFaults /\ hurt' \in BOOLEAN /\ (hurt => hurt') /\ pos' \in 0 .. Len(File)
    BY <1>4, <1>5, <1>13, <1>14
  <2> QED
    BY <1>2, <1>11, <2>1, <2>2, <2>3, HostKeeps
<1>15. CASE /\ faults < MaxFaults /\ faults' = faults + 1 /\ hurt' = TRUE
            /\ \E s \in Damaged(Reply(op, a)) : PutUp(s)
  <2>1. PICK s \in Damaged(r) : PutUp(s)
    BY <1>7, <1>10, <1>15
  <2>2. PICK j \in 1 .. Len(r), b \in 0 .. FF \cup {Echo} : s = [r EXCEPT ![j] = b]
    BY <1>11, FieldDamaged
  <2>3. s \in Seq(Symbols)
    <3>1. b \in Symbols
      BY ByteIs DEF Symbols
    <3> QED
      BY <1>11, <2>2, <3>1
  <2>4. Sent(s)'
    <3>1. (s \in Damaged(Reply(op, answer)))'
      <4>1. Damaged(Reply(op, answer))' = Damaged(Reply(op, answer)')
        BY DEF Damaged, Instead
      <4> QED
        BY <1>12, <4>1
    <3> QED
      BY <1>6, <1>15, <3>1 DEF Sent
  <2>5. faults' \in 0 .. MaxFaults /\ hurt' \in BOOLEAN /\ (hurt => hurt') /\ pos' \in 0 .. Len(File)
    BY <1>4, <1>5, <1>13, <1>15
  <2> QED
    BY <1>2, <2>1, <2>3, <2>4, <2>5, HostKeeps
<1> QED
  BY <1>1, <1>14, <1>15

LEMMA HostRejectsKeeps == ASSUME LinkIInv, HostRejects PROVE LinkIInv'
<1>1. /\ pending /\ linked /\ pending' = FALSE
      /\ faults < MaxFaults /\ faults' = faults + 1 /\ hurt' = TRUE
      /\ UNCHANGED <<pc, caller, noPPFS, lastWrite, locals, ret, linked, pos>>
  BY DEF HostRejects
<1>2. PICK e : e = op + ErrorBit
  OBVIOUS
<1>3. e \in 0 .. FF /\ e # op' /\ PutUp(Reply(e, NoAnswer))
  BY <1>1, <1>2, OpIs DEF LinkIInv, LinkTypeOK, HostRejects, caller
<1>4. PICK m : m = Reply(e, NoAnswer)
  OBVIOUS
<1>5. m \in Seq(Symbols)
  BY <1>3, <1>4, NoAnswerIs, ReplyIs DEF Spelled
<1>6. Sent(m)'
  <2>1. Reply(e, NoAnswer)' = Reply(e, NoAnswer)
    BY DEF Reply, Sum
  <2> QED
    BY <1>1, <1>3, <1>4, <2>1 DEF Sent
<1>7. faults' \in 0 .. MaxFaults /\ hurt' \in BOOLEAN /\ pos' \in 0 .. Len(File)
  BY <1>1, LinkAssumption DEF LinkIInv, LinkTypeOK
<1> QED
  BY <1>1, <1>3, <1>4, <1>5, <1>6, <1>7, HostKeeps
LEMMA TailIs ==
  ASSUME NEW l \in Seq(Symbols), l # <<>>
  PROVE  Tail(l) \in Seq(Symbols) /\ Tail(l) = SubSeq(l, 2, Len(l))
BY HeadTailProperties, TailIsSubSeq

LEMMA EchoGone ==
  ASSUME NEW m \in Seq(Symbols), NEW l, l = <<Echo>> \o m
  PROVE  l \in Seq(Symbols) /\ l # <<>> /\ SubSeq(l, 2, Len(l)) = m
<1>1. <<Echo>> \in Seq(Symbols) /\ Len(<<Echo>>) = 1
  BY ByteIs DEF Symbols
<1>2. PICK n \in Nat : n = Len(m)
  BY LenProperties
<1>3. /\ l \in Seq(Symbols) /\ Len(l) = 1 + n
      /\ \A i \in 1 .. 1 + n : l[i] = IF i <= 1 THEN <<Echo>>[i] ELSE m[i - 1]
  BY <1>1, <1>2, ConcatProperties
<1>4. l # <<>>
  BY <1>3, EmptySeq
<1>5. \A i \in 1 .. n : l[i + 1] = m[i]
  <2>1. \A i \in 1 .. n : i + 1 \in 1 .. 1 + n /\ ~(i + 1 <= 1) /\ (i + 1) - 1 = i
    OBVIOUS
  <2> QED
    BY <1>3, <2>1
<1>6. PICK s : s = SubSeq(l, 2, 1 + n)
  OBVIOUS
<1>7. s = [i \in 1 .. n |-> l[i + 1]]
  BY <1>3, <1>6
<1>8. s = [i \in 1 .. n |-> m[i]]
  BY <1>5, <1>7
<1>9. m = [i \in 1 .. n |-> m[i]]
  BY <1>2
<1> QED
  BY <1>3, <1>4, <1>6, <1>8, <1>9

LEMMA SkipEchoKeeps == ASSUME LinkIInv, SkipEcho PROVE LinkIInv'
<1>1. /\ pc \in Reading /\ linked /\ lastWrite /\ line # <<>> /\ Head(line) = Echo
      /\ lastWrite' = FALSE /\ line' = Tail(line)
      /\ UNCHANGED <<pc, caller, noPPFS, locals, ret, linked, hostSide, hurt>>
  BY DEF SkipEcho, LinkIInv, LinkTypeOK, Reading, Dead, IsEcho
<1>2. ~pending
  BY <1>1 DEF LinkIInv, WireInv
<1>3. PICK m : Sent(m) /\ Stands(m)
  BY <1>1, <1>2 DEF LinkIInv, TalkInv
<1>4. m \in Seq(Symbols) /\ Len(m) >= 6
  BY <1>3, SentIs DEF LinkIInv, LinkTypeOK
<1>5. pc = "sig" /\ (line = m \/ line = <<Echo>> \o m)
  BY <1>1, <1>3 DEF Stands, AfterSig, BeforeSig
<1>6. line \in Seq(Symbols)
  BY DEF LinkIInv, LinkTypeOK, Symbols
<1>7. line' \in Seq(Symbols) /\ line' = SubSeq(line, 2, Len(line))
  BY <1>1, <1>6, TailIs
<1>8. BeforeSig(m)'
  <2>1. CASE line = m
    <3>1. m = Rest(m, 0)
      <4>1. \A i \in 1 .. Len(m) : m[0 + i] = m[i]
        BY LenProperties
      <4>2. m = [i \in 1 .. Len(m) |-> m[i]]
        BY <1>4
      <4>3. Len(m) - 0 = Len(m)
        BY <1>4, LenProperties
      <4> QED
        BY <4>1, <4>2, <4>3 DEF Rest
    <3>2. 0 \in Nat /\ 0 <= Len(m) /\ m # <<>>
      BY <1>1, <1>4, <2>1
    <3>3. Head(m) = m[0 + 1] /\ SubSeq(m, 2, Len(m)) = Rest(m, 0 + 1)
      BY <1>4, <3>1, <3>2, RestIs
    <3> QED
      BY <1>1, <1>7, <2>1, <3>3 DEF BeforeSig
  <2>2. CASE line = <<Echo>> \o m
    <3>1. SubSeq(line, 2, Len(line)) = m
      BY <1>4, <2>2, EchoGone
    <3> QED
      BY <1>7, <3>1 DEF BeforeSig
  <2> QED
    BY <1>5, <2>1, <2>2
<1>9. Sent(m)'
  BY <1>1, <1>3, SentKeeps DEF caller, hostSide
<1>10. Stands(m)'
  BY <1>1, <1>5, <1>8 DEF Stands
<1>11. LinkTypeOK'
  BY <1>1, <1>7 DEF LinkIInv, LinkTypeOK, Symbols, caller, locals, hostSide
<1>12. WireInv'
  BY <1>1, <1>2 DEF LinkIInv, WireInv, Busy, locals, hostSide
<1>13. ChunkInv'
  BY <1>1, ChunkKeeps DEF LinkIInv, caller, hostSide
<1>14. TalkInv'
  BY <1>9, <1>10 DEF TalkInv
<1> QED
  BY <1>11, <1>12, <1>13, <1>14 DEF LinkIInv

LEMMA LinkIInvNext == LinkIInv /\ [LinkNext]_linkVars => LinkIInv'
<1> SUFFICES ASSUME LinkIInv, [LinkNext]_linkVars PROVE LinkIInv'
  OBVIOUS
<1>1. CASE Refuse
  BY <1>1, RefuseKeeps
<1>2. CASE \E o \in Ops \ {ReadOp} : Call(o, 0)
  BY <1>2, CallKeeps
<1>3. CASE \E n \in Counts : Call(ReadOp, n)
  <2>1. PICK n \in Counts : Call(ReadOp, n)
    BY <1>3
  <2>2. ReadOp \in Ops /\ n \in Nat /\ n # 0
    BY LinkAssumption DEF Ops
  <2> QED
    BY <2>1, <2>2, CallKeeps
<1>4. CASE CallStep
  BY <1>4, SendRequestKeeps, SendFailsKeeps, SkipEchoKeeps, ReadSigKeeps, ReadOpcodeKeeps,
     ReadLenKeeps, ReadValueKeeps, ReadDataKeeps, ReadSumKeeps, ReadStopFailsKeeps,
     ReturnsKeeps, ChunkDoneKeeps DEF CallStep
<1>5. CASE HostAnswers \/ HostRejects \/ Disconnect
  BY <1>5, HostAnswersKeeps, HostRejectsKeeps, DisconnectKeeps
<1>6. CASE UNCHANGED linkVars
  BY <1>6, LinkStutters
<1> QED
  BY <1>1, <1>2, <1>3, <1>4, <1>5, <1>6 DEF LinkNext

-----------------------------------------------------------------------------
(* What the steps that end a call deliver.                                 *)
CallDelivered ==
  Busy /\ pc' = "idle" /\ ret' # FF =>
    IF op = ReadOp
    THEN /\ pos = start + ret'
         /\ SubSeq(total \o buf, 1, ret') = SubSeq(File, start + 1, pos)
    ELSE ret' = answer.value /\ buf = answer.data
FailedForReason ==
  Busy /\ (pc' = "wild" \/ (pc' = "idle" /\ ret' = FF)) => hurt \/ answer.value = FF

LEMMA ReturnsDelivers == ASSUME LinkIInv, Returns PROVE CallDelivered
<1>1. PICK s \in Heard : StopFits(s)
  BY DEF Returns
<1>2. pc = "stop" /\ op # ReadOp /\ ret' = result
  BY DEF Returns, Receives, Leaves
<1>3. /\ AnswerFits /\ result = answer.value
      /\ Len(buf) = Len(answer.data) /\ \A i \in 1 .. Len(buf) : buf[i] = answer.data[i]
  BY <1>1, <1>2, Success
<1>4. PICK b \in Seq(Symbols), d \in Seq(0 .. FF) : b = buf /\ d = answer.data
  BY <1>3 DEF LinkIInv, LinkTypeOK, Symbols, AnswerFits, Answerable
<1>5. d \in Seq(Symbols)
  <2>1. \A x \in 0 .. FF : x \in Symbols
    BY ByteIs DEF Symbols
  <2> QED
    BY <2>1, SeqWider
<1>6. b = d
  BY <1>3, <1>4, <1>5, SeqEqual
<1> QED
  BY <1>2, <1>3, <1>4, <1>6 DEF CallDelivered

LEMMA ChunkDoneDelivers == ASSUME LinkIInv, ChunkDone PROVE CallDelivered
<1>1. PICK s \in Heard : StopFits(s)
  BY DEF ChunkDone
<1>2. pc = "stop" /\ op = ReadOp
  BY DEF ChunkDone, Receives
<1> SUFFICES ASSUME pc' = "idle", ret' # FF
             PROVE  /\ pos = start + ret'
                    /\ SubSeq(total \o buf, 1, ret') = SubSeq(File, start + 1, pos)
  BY <1>2 DEF CallDelivered
<1>3. result # FF /\ ret' = done + result
  BY DEF ChunkDone, Fails, Leaves
<1>4. PICK t : t = total \o buf
  OBVIOUS
<1>5. PICK n : n = Len(buf)
  OBVIOUS
<1>6. Gathered(t, pos, done, n)
  BY <1>1, <1>2, <1>4, <1>5, Gathers
<1>7. PICK r : r = ret'
  OBVIOUS
<1>8. PICK b : b = start
  OBVIOUS
<1>9. PICK p : p = pos
  OBVIOUS
<1>10. PICK L \in Nat : L = Len(File)
  BY OverheadIs
<1>11. b \in 0 .. L /\ p \in 0 .. L
  BY <1>8, <1>9, <1>10 DEF LinkIInv, LinkTypeOK
<1>12. /\ r = done + n /\ r \in Nat /\ p = b + r /\ r <= Len(t)
       /\ t \in Seq(-1 .. Echo) /\ \A i \in 1 .. r : t[i] = File[b + i]
  <2>1. PICK d : d = done
    OBVIOUS
  <2>2. /\ d \in Nat /\ n \in Nat /\ result = n /\ p = b + d + n /\ d + n <= Len(t)
        /\ t \in Seq(-1 .. Echo) /\ \A i \in 1 .. d + n : t[i] = File[b + i]
    BY <1>6, <1>8, <1>9, <2>1 DEF Gathered
  <2>3. r = d + n
    BY <1>3, <1>7, <2>1, <2>2
  <2>4. p = b + r
    BY <1>11, <2>2, <2>3
  <2> QED
    BY <2>1, <2>2, <2>3, <2>4
<1>13. SubSeq(t, 1, r) = [i \in 1 .. r |-> t[i]]
  <2>1. PICK x : x = SubSeq(t, 1, r)
    OBVIOUS
  <2>2. x = [i \in 1 .. r |-> t[i]]
    BY <1>12, <2>1
  <2> QED
    BY <2>1, <2>2
<1>14. SubSeq(File, b + 1, p) = [i \in 1 .. r |-> File[b + i]]
  <2>1. PICK x : x = SubSeq(File, b + 1, b + r)
    OBVIOUS
  <2>2. File \in Seq(0 .. FF)
    BY LinkAssumption
  <2>3. x = [i \in 1 .. r |-> File[b + i]]
    BY <1>10, <1>11, <1>12, <2>1, <2>2, SMTT(30)
  <2> QED
    BY <1>12, <2>1, <2>3
<1>15. SubSeq(t, 1, r) = SubSeq(File, b + 1, p)
  BY <1>12, <1>13, <1>14
<1> QED
  BY <1>4, <1>7, <1>8, <1>9, <1>12, <1>15

LEMMA Delivers ==
  ASSUME LinkIInv, [LinkNext]_linkVars PROVE CallDelivered
<1> SUFFICES ASSUME Busy, pc' = "idle", ret' # FF
             PROVE  CallDelivered
  BY DEF CallDelivered
<1>1. CASE Returns
  BY <1>1, ReturnsDelivers
<1>2. CASE ChunkDone
  BY <1>2, ChunkDoneDelivers
<1>3. CASE Refuse \/ (\E o \in Ops \ {ReadOp} : Call(o, 0)) \/ (\E n \in Counts : Call(ReadOp, n))
  BY <1>3 DEF Refuse, Call, Busy
<1>4. CASE SendRequest \/ SendFails
  BY <1>4 DEF SendRequest, SendFails
<1>5. CASE SkipEcho \/ HostAnswers \/ HostRejects \/ Disconnect \/ UNCHANGED linkVars
  <2>1. pc' = pc
    BY <1>5 DEF SkipEcho, HostAnswers, HostRejects, Disconnect, linkVars
  <2> QED
    BY <2>1 DEF Busy
<1>6. CASE ReadSig \/ ReadLen \/ ReadSum \/ ReadStopFails
  BY <1>6 DEF ReadSig, ReadLen, ReadSum, ReadStopFails, Fails, Leaves
<1>7. CASE ReadOpcode \/ ReadValue \/ ReadData
  BY <1>7 DEF ReadOpcode, ReadValue, ReadData
<1> QED
  BY <1>1, <1>2, <1>3, <1>4, <1>5, <1>6, <1>7 DEF LinkNext, CallStep
(* While nothing goes wrong what is heard is the answer.                   *)
Told(m, s, n) ==
  Hears(m, s) /\ AnswerFits /\ n = Len(answer.data) /\ Spelled(m, op, answer, n)

LEMMA Tells ==
  ASSUME LinkIInv, pc \in Reading, ~hurt, NEW s \in Heard
  PROVE  linked /\ \E m : \E n \in Nat : Told(m, s, n)
<1>1. linked
  BY DEF LinkIInv, WireInv, Busy, Reading
<1>2. PICK m : Hears(m, s)
  BY <1>1, Hearing
<1>3. op \in Ops /\ Sent(m)
  BY <1>2 DEF LinkIInv, LinkTypeOK, Hears
<1>4. AnswerFits /\ m = Reply(op, answer)
  BY <1>3, SentIs
<1>5. PICK o \in 0 .. FF : o = op
  BY <1>3, OpIs
<1>6. PICK a \in Answerable : a = answer
  BY <1>4 DEF AnswerFits
<1>7. PICK n \in Nat : n = Len(a.data)
  BY LenProperties DEF Answerable
<1>8. Spelled(m, o, a, n)
  BY <1>4, <1>5, <1>6, <1>7, ReplyIs
<1>9. Told(m, s, n)
  BY <1>2, <1>4, <1>5, <1>6, <1>7, <1>8 DEF Told
<1> QED
  BY <1>1, <1>9

LEMMA LengthIs ==
  ASSUME LinkIInv, NEW m, NEW s, NEW n \in Nat, Told(m, s, n), AfterLength(m)
  PROVE  size = n
<1>1. m[3] = size + Overhead /\ m[3] = n + Overhead /\ size \in Int
  BY DEF Told, Spelled, AfterLength, LinkIInv, LinkTypeOK
<1> QED
  BY <1>1, OverheadIs

LEMMA ReadSigFails ==
  ASSUME LinkIInv, ReadSig, pc' = "idle" PROVE hurt
<1> SUFFICES ASSUME ~hurt PROVE FALSE
  OBVIOUS
<1>1. PICK s \in Heard : s # Sig
  BY DEF ReadSig
<1>2. pc = "sig" /\ pc \in Reading
  BY DEF ReadSig, Receives, Reading
<1>3. PICK m, n : Told(m, s, n)
  BY <1>2, Tells
<1> QED
  BY <1>1, <1>2, <1>3 DEF Told, Hears, Spelled

LEMMA ReadLenFails ==
  ASSUME LinkIInv, ReadLen, pc' = "idle" PROVE hurt
<1> SUFFICES ASSUME ~hurt PROVE FALSE
  OBVIOUS
<1>1. PICK s \in Heard : ~HeaderFits(result, s)
  BY DEF ReadLen
<1>2. pc = "len" /\ pc \in Reading
  BY DEF ReadLen, Receives, Reading
<1>3. PICK m : \E n \in Nat : Told(m, s, n)
  BY <1>2, Tells
<1>4. PICK n \in Nat : Told(m, s, n)
  BY <1>3
<1>5. Place = 2
  BY <1>2 DEF Place
<1>6. s = m[3] /\ result = m[2]
  BY <1>2, <1>4, <1>5 DEF Told, Hears, Stands
<1>7. result = op /\ s = n + Overhead /\ (op \in DOMAIN Replies => n = 0)
  BY <1>4, <1>6 DEF Told, Spelled, AnswerFits
<1>8. op \in DOMAIN Replies => s = Overhead
  BY <1>7, OverheadIs
<1> QED
  BY <1>1, <1>7, <1>8 DEF HeaderFits

LEMMA ReadSumFails ==
  ASSUME LinkIInv, ReadSum, pc' = "idle" PROVE hurt
<1> SUFFICES ASSUME ~hurt PROVE FALSE
  OBVIOUS
<1>1. PICK s \in Heard : ~SumFits(s)
  BY DEF ReadSum
<1>2. pc = "sum" /\ pc \in Reading
  BY DEF ReadSum, Receives, Reading
<1>3. PICK m : \E n \in Nat : Told(m, s, n)
  BY <1>2, Tells
<1>4. PICK n \in Nat : Told(m, s, n)
  BY <1>3
<1>5. AfterLength(m) /\ AfterValue(m) /\ Len(buf) = size
  BY <1>2, <1>4 DEF Told, Hears, Stands
<1>6. Len(buf) = n
  BY <1>4, <1>5, LengthIs
<1>7. Place = n + 4 /\ (n + 4) + 1 = n + 5
  BY <1>2, <1>6 DEF Place
<1>8. s = m[n + 5]
  BY <1>2, <1>4, <1>7 DEF Told, Hears
<1>9. m[n + 5] = chksum
  BY <1>4, <1>5, <1>6 DEF Told, Spelled, AfterValue
<1> QED
  BY <1>1, <1>8, <1>9 DEF SumFits

LEMMA ReadStopFailsFails ==
  ASSUME LinkIInv, ReadStopFails PROVE hurt
<1> SUFFICES ASSUME ~hurt PROVE FALSE
  OBVIOUS
<1>1. PICK s \in Heard : ~StopFits(s)
  BY DEF ReadStopFails
<1>2. pc = "stop" /\ pc \in Reading
  BY DEF ReadStopFails, Receives, Reading
<1>3. PICK m : \E n \in Nat : Told(m, s, n)
  BY <1>2, Tells
<1>4. PICK n \in Nat : Told(m, s, n)
  BY <1>3
<1>5. AfterLength(m) /\ Len(buf) = size
  BY <1>2, <1>4 DEF Told, Hears, Stands
<1>6. Len(buf) = n
  BY <1>4, <1>5, LengthIs
<1>7. Place = n + 5 /\ (n + 5) + 1 = n + 6
  BY <1>2, <1>6 DEF Place
<1>8. s = m[n + 6]
  BY <1>2, <1>4, <1>7 DEF Told, Hears
<1> QED
  BY <1>1, <1>4, <1>8 DEF Told, Spelled, StopFits

LEMMA ReadDataFails ==
  ASSUME LinkIInv, ReadData, pc' = "wild" PROVE hurt
<1> SUFFICES ASSUME ~hurt PROVE FALSE
  OBVIOUS
<1>1. PICK s \in Heard : Len(buf) = Capacity
  BY DEF ReadData
<1>2. pc = "data" /\ pc \in Reading
  BY DEF ReadData, Receives, Reading
<1>3. linked /\ \E m : \E n \in Nat : Told(m, s, n)
  BY <1>2, Tells
<1>4. PICK m : \E n \in Nat : Told(m, s, n)
  BY <1>3
<1>5. PICK n \in Nat : Told(m, s, n)
  BY <1>4
<1>6. AfterLength(m) /\ size # 0 /\ (size > 0 => Len(buf) < size)
  BY <1>2, <1>5 DEF Told, Hears, Stands
<1>7. size = n
  BY <1>5, <1>6, LengthIs
<1>8. Len(buf) < n
  BY <1>6, <1>7
<1>9. PICK k \in Nat : k = Len(buf)
  BY LenProperties DEF LinkIInv, LinkTypeOK
<1>10. CASE op = ReadOp
  <2>1. cnt # 0 /\ cnt \in Nat
    BY <1>2, <1>3, <1>10 DEF LinkIInv, LinkTypeOK, ChunkInv, Busy
  <2>2. Asked \in Nat /\ Asked <= cnt
    BY <2>1, AskedIs DEF LinkIInv
  <2>3. n <= Asked
    BY <1>5, <1>10 DEF Told, AnswerFits, NextBytes
  <2>4. k = cnt
    BY <1>1, <1>9, <1>10 DEF Capacity
  <2> QED
    BY <1>8, <1>9, <2>1, <2>2, <2>3, <2>4
<1>11. CASE op # ReadOp
  <2>1. n <= 1 /\ k = 1
    BY <1>1, <1>5, <1>9, <1>11 DEF Told, AnswerFits, Capacity
  <2> QED
    BY <1>8, <1>9, <2>1
<1> QED
  BY <1>10, <1>11

LEMMA LastFails ==
  ASSUME LinkIInv, Returns \/ ChunkDone, pc' = "idle", ret' = FF
  PROVE  answer.value = FF
<1>1. PICK s \in Heard : StopFits(s)
  BY DEF Returns, ChunkDone
<1>2. pc = "stop"
  BY DEF Returns, ChunkDone, Receives
<1>3. result = answer.value
  BY <1>1, <1>2, Success
<1>4. CASE Returns
  BY <1>3, <1>4 DEF Returns, Leaves
<1>5. CASE ChunkDone
  <2> SUFFICES ASSUME result # FF PROVE FALSE
    BY <1>3
  <2>1. op = ReadOp /\ ret' = done + result
    BY <1>5 DEF ChunkDone, Leaves
  <2>2. PICK t : t = total \o buf
    OBVIOUS
  <2>3. PICK n : n = Len(buf)
    OBVIOUS
  <2>4. Gathered(t, pos, done, n)
    BY <1>1, <1>2, <2>1, <2>2, <2>3, Gathers
  <2>5. PICK d : d = done
    OBVIOUS
  <2>6. PICK p : p = pos
    OBVIOUS
  <2>7. PICK b : b = start
    OBVIOUS
  <2>8. d \in Nat /\ n \in Nat /\ result = n /\ p = b + d + n
    BY <2>4, <2>5, <2>6, <2>7 DEF Gathered
  <2>9. p \in 0 .. Len(File) /\ b \in 0 .. Len(File)
    BY <2>6, <2>7 DEF LinkIInv, LinkTypeOK
  <2>10. d + n = FF
    BY <2>1, <2>5, <2>8
  <2> QED
    BY <2>8, <2>9, <2>10, OverheadIs, ByteIs
<1> QED
  BY <1>4, <1>5

LEMMA FailsForReason ==
  ASSUME LinkIInv, [LinkNext]_linkVars PROVE FailedForReason
<1> SUFFICES ASSUME Busy, pc' = "wild" \/ (pc' = "idle" /\ ret' = FF)
             PROVE  hurt \/ answer.value = FF
  BY DEF FailedForReason
<1>1. CASE Returns \/ ChunkDone
  <2>1. pc' = "idle"
    BY <1>1 DEF Returns, ChunkDone, Fails, Leaves
  <2> QED
    BY <1>1, <2>1, LastFails
<1>2. CASE Refuse \/ (\E o \in Ops \ {ReadOp} : Call(o, 0)) \/ (\E n \in Counts : Call(ReadOp, n))
  BY <1>2 DEF Refuse, Call, Busy
<1>3. CASE SendRequest \/ SendFails
  BY <1>3 DEF SendRequest, SendFails
<1>4. CASE SkipEcho \/ HostAnswers \/ HostRejects \/ Disconnect \/ UNCHANGED linkVars
  <2>1. pc' = pc
    BY <1>4 DEF SkipEcho, HostAnswers, HostRejects, Disconnect, linkVars
  <2> QED
    BY <2>1 DEF Busy
<1>5. CASE ReadSig
  <2>1. pc' = "idle"
    BY <1>5 DEF ReadSig, Fails, Leaves
  <2> QED
    BY <1>5, <2>1, ReadSigFails
<1>6. CASE ReadLen
  <2>1. pc' = "idle"
    BY <1>6 DEF ReadLen, Fails, Leaves
  <2> QED
    BY <1>6, <2>1, ReadLenFails
<1>7. CASE ReadSum
  <2>1. pc' = "idle"
    BY <1>7 DEF ReadSum, Fails, Leaves
  <2> QED
    BY <1>7, <2>1, ReadSumFails
<1>8. CASE ReadStopFails
  BY <1>8, ReadStopFailsFails
<1>9. CASE ReadData
  <2>1. pc' = "wild"
    BY <1>9 DEF ReadData
  <2> QED
    BY <1>9, <2>1, ReadDataFails
<1>10. CASE ReadOpcode \/ ReadValue
  BY <1>10 DEF ReadOpcode, ReadValue
<1> QED
  BY <1>1, <1>2, <1>3, <1>4, <1>5, <1>6, <1>7, <1>8, <1>9, <1>10 DEF LinkNext, CallStep

(* AnswersTrue: a call over the parallel port that does not return -1      *)
(* returns what the host answered to it, and rread the file's next bytes;  *)
(* it fails, or leaves its buffer, only if something went wrong during it  *)
(* or the host's answer is -1.  For every file, every length asked for,    *)
(* every set of calls, however many bytes are damaged, one in a message,   *)
(* and wherever the cable is pulled.                                       *)
THEOREM AnswersTrueHolds == LinkSpec => AnswersTrue
<1>1. LinkIInv /\ [LinkNext]_linkVars =>
        /\ [Busy /\ pc' = "idle" /\ ret' # FF =>
             IF op = ReadOp
             THEN /\ pos = start + ret'
                  /\ SubSeq(total \o buf, 1, ret') = SubSeq(File, start + 1, pos)
             ELSE ret' = answer.value /\ buf = answer.data]_linkVars
        /\ [Busy /\ (pc' = "wild" \/ (pc' = "idle" /\ ret' = FF)) =>
              hurt \/ answer.value = FF]_linkVars
  <2> SUFFICES ASSUME LinkIInv, [LinkNext]_linkVars PROVE CallDelivered /\ FailedForReason
    BY DEF CallDelivered, FailedForReason
  <2> QED
    BY Delivers, FailsForReason
<1>2. LinkIInv => LinkTypeOK
  BY DEF LinkIInv
<1> QED
  BY <1>1, <1>2, LinkInitKeeps, LinkIInvNext, PTL DEF LinkSpec, AnswersTrue
=============================================================================
