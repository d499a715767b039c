------------------------------ MODULE CepcLoad ------------------------------
(***************************************************************************)
(* loadcepc loading an image (main.c: main, LoadImage, DownloadRead,       *)
(* ExitSigHandler).  It takes the largest block of extended memory from    *)
(* the XMS driver (external), zeroes it, moves the image's sections into   *)
(* it and starts the image; on any error, and on Ctrl-C, it gives the      *)
(* block back and returns to DOS, where it may be run again.               *)
(*                                                                         *)
(* Memory is the bytes of that block.  A byte holds Old, Zero, Stale (what *)
(* the transfer buffer still held) or the number of a section.             *)
(***************************************************************************)
EXTENDS Integers, Sequences

CONSTANTS
  Images,      \* sequences of sections [addr, size], the one that ends
               \*   the image left out
  Linear,      \* address of the block
  BlockSize,   \* its bytes
  ChunkSize,   \* CHUNKSIZE: bytes of one transfer; even
  AddressSpace \* 2^32: where the check of a section's end wraps

Old == -2
Stale == -1
Zero == 0
Block == Linear .. (Linear + BlockSize - 1)

ASSUME LoadAssumption ==
  /\ {Linear, BlockSize, ChunkSize, AddressSpace} \subseteq Nat \ {0}
  /\ ChunkSize % 2 = 0 /\ Linear + BlockSize < AddressSpace
  /\ Images \subseteq Seq([addr : 1 .. (AddressSpace - 1),
                           size : 0 .. (AddressSpace - 1)])

VARIABLES
  lpc,       \* "dos", a place in main or LoadImage, or "launched"
  source,    \* "file", "parallel" or "serial"
  sections,  \* of the image that is read; none before its signature
  handle,    \* usBlockHandle: "none" (0), "ours", or "junk" after a failed allocation
  block,     \* the driver's block: "free", "allocated" or "locked"
  ram,       \* what each byte of it holds
  sec, off   \* the section being loaded, ulSectionOffset

loadVars == <<lpc, source, sections, handle, block, ram, sec, off>>
asked == <<source, sections>>
memory == <<block, ram>>

Blank == [b \in Block |-> Old]

LoadInit ==
  /\ lpc = "dos" /\ source = "file" /\ sections = <<>>
  /\ handle = "none" /\ block = "free" /\ ram = Blank
  /\ sec = 0 /\ off = 0

(* main: options, the XMS driver and the A20 line are looked at first.     *)
StartLoad ==
  /\ lpc = "dos"
  /\ source' \in {"file", "parallel", "serial"}
  /\ lpc' \in {"query", "main_error"}
  /\ UNCHANGED <<sections, handle, memory, sec, off>>

QueryFree ==
  /\ lpc = "query" /\ lpc' \in {"allocate", "main_error"}
  /\ UNCHANGED <<asked, handle, memory, sec, off>>

(* The driver's DX is stored whether it holds a handle or not.             *)
Allocate ==
  /\ lpc = "allocate"
  /\ \/ /\ block = "free" /\ block' = "allocated"
        /\ lpc' = "lock" /\ handle' = "ours"
     \/ lpc' = "main_error" /\ handle' \in {"none", "junk"} /\ block' = block
  /\ UNCHANGED <<asked, ram, sec, off>>

(* Bug: the block is kept when it cannot be locked.                        *)
LockKeeping ==
  /\ lpc = "lock"
  /\ \/ lpc' = "zero" /\ block' = "locked" /\ handle' = handle
     \/ lpc' = "main_error" /\ block' = block /\ handle' = "none"
  /\ UNCHANGED <<asked, ram, sec, off>>

Lock ==
  /\ lpc = "lock"
  /\ \/ lpc' = "zero" /\ block' = "locked" /\ handle' = handle
     \/ lpc' = "main_error" /\ block' = "free" /\ handle' = "none"
  /\ UNCHANGED <<asked, ram, sec, off>>

ZeroBlock ==
  /\ lpc = "zero"
  /\ \/ lpc' = "open" /\ ram' = [b \in Block |-> Zero]
     \/ lpc' = "main_error" /\ ram' = ram
  /\ UNCHANGED <<asked, handle, block, sec, off>>

(* The file, or the boot packet; a serial line cannot refuse it.           *)
Gone == source # "serial"

OpenImageFile ==
  /\ lpc = "open"
  /\ \/ lpc' = "signature"
     \/ lpc' = "main_error" /\ Gone
  /\ UNCHANGED <<asked, handle, memory, sec, off>>

ReadSignature ==
  /\ lpc = "signature"
  /\ \/ lpc' = "header" /\ sections' \in Images
     \/ lpc' = "main_error" /\ UNCHANGED sections
  /\ UNCHANGED <<source, handle, memory, sec, off>>

-----------------------------------------------------------------------------
(* The sections                                                            *)
Here == sections[sec]
Fits(s) ==
  /\ s.addr >= Linear
  /\ (s.addr + s.size) % AddressSpace <= Linear + BlockSize

ReadHeader ==
  /\ lpc = "header" /\ sec < Len(sections)
  /\ sec' = sec + 1 /\ off' = 0
  /\ lpc' = IF ~Fits(sections[sec + 1]) THEN "main_error"
            ELSE IF sections[sec + 1].size = 0 THEN "header" ELSE "chunk"
  /\ UNCHANGED <<asked, handle, memory>>

ReadLastHeader ==
  /\ lpc = "header" /\ sec = Len(sections)
  /\ lpc' = "a20"
  /\ UNCHANGED <<asked, handle, memory, sec, off>>

(* A file that ends, or a cable that is pulled.                            *)
ReadFails ==
  /\ lpc \in {"header", "chunk"} /\ Gone
  /\ lpc' = "main_error"
  /\ UNCHANGED <<asked, handle, memory, sec, off>>

ThisMuch ==
  IF Here.size - off < ChunkSize THEN Here.size - off ELSE ChunkSize
At == Here.addr + off

(* The driver moves an even number of bytes inside the block or nothing:   *)
(* after an odd section one byte of the transfer buffer goes along.        *)
EvenLength(n) == n + (n % 2)
Movable == At + EvenLength(ThisMuch) <= Linear + BlockSize

ByOne == off + 1              \* bug: the offset counts moves, not bytes
NextOffset == off + ThisMuch

Chunk ==
  /\ lpc = "chunk" /\ Movable
  /\ ram' = [b \in Block |->
               IF b \in At .. (At + ThisMuch - 1) THEN sec
               ELSE IF b \in At .. (At + EvenLength(ThisMuch) - 1) THEN Stale
               ELSE ram[b]]
  /\ off' = NextOffset
  /\ lpc' = IF NextOffset < Here.size THEN "chunk" ELSE "header"
  /\ UNCHANGED <<asked, handle, block, sec>>

MoveFails ==
  /\ lpc = "chunk" /\ ~Movable
  /\ lpc' = "main_error"
  /\ UNCHANGED <<asked, handle, memory, sec, off>>

-----------------------------------------------------------------------------
(* XmsLocalEnableA20, the video mode and the jump flags; only the first    *)
(* can fail.                                                               *)
EnableA20 ==
  /\ lpc = "a20" /\ lpc' \in {"jump", "main_error"}
  /\ UNCHANGED <<asked, handle, memory, sec, off>>

Launch ==
  /\ lpc = "jump" /\ lpc' = "launched"
  /\ UNCHANGED <<asked, handle, memory, sec, off>>

(* Unlock and free what usBlockHandle names; the driver refuses junk.  The *)
(* program and its variables end here.                                     *)
ToDos ==
  /\ lpc' = "dos"
  /\ block' = IF handle = "ours" THEN "free" ELSE block
  /\ ram' = IF handle = "ours" THEN Blank ELSE ram
  /\ handle' = "none" /\ sections' = <<>> /\ sec' = 0 /\ off' = 0
  /\ source' = source

MainError == lpc = "main_error" /\ ToDos

ExitSigHandler == lpc \notin {"dos", "launched"} /\ ToDos

LoadStep ==
  \/ QueryFree \/ Allocate \/ Lock \/ ZeroBlock \/ OpenImageFile
  \/ ReadSignature \/ ReadHeader \/ ReadLastHeader
  \/ Chunk \/ MoveFails \/ EnableA20 \/ Launch \/ MainError

LoadNext == StartLoad \/ LoadStep \/ ReadFails \/ ExitSigHandler

(* Loading from a file runs on, without the help of a read that fails; a   *)
(* host at the end of a cable may fall silent.                             *)
LoadFairness == WF_loadVars(source = "file" /\ LoadStep)
LoadSpec == LoadInit /\ [][LoadNext]_loadVars /\ LoadFairness

-----------------------------------------------------------------------------
(* Properties                                                              *)
LoadTypeOK ==
  /\ lpc \in {"dos", "query", "allocate", "lock", "zero", "open", "signature",
              "header", "chunk", "a20", "jump", "launched", "main_error"}
  /\ source \in {"file", "parallel", "serial"} /\ sections \in Images \cup {<<>>}
  /\ handle \in {"none", "ours", "junk"}
  /\ block \in {"free", "allocated", "locked"}
  /\ ram \in [Block -> -2 .. Len(sections)]
  /\ sec \in 0 .. Len(sections)
  /\ off \in 0 .. (IF sec = 0 THEN 0 ELSE Here.size)

(* "XMS must be freed or unlocked or we can't execute loadcepc again       *)
(* without rebooting" (main.c:757): no error and no Ctrl-C, wherever it    *)
(* comes, takes the program back to DOS with the block still taken.  And   *)
(* every variable has its type.                                            *)
XmsGivenBack ==
  /\ LoadTypeOK
  /\ lpc = "dos" => block = "free"

Covers(s, b) == b \in s.addr .. (s.addr + s.size - 1)
IsPad(s, b) == s.size % 2 = 1 /\ b = s.addr + s.size

(* Only a whole image is started.  Every byte of its sections is in place, *)
(* the later section winning - unless it is the byte behind an odd section *)
(* that came later - and all other memory of the block is zero.            *)
MemoryAtLaunch ==
  lpc = "launched" =>
    /\ block = "locked"
    /\ \A b \in Block :
         LET covering == {k \in 1 .. Len(sections) : Covers(sections[k], b)}
             padding == {k \in 1 .. Len(sections) : IsPad(sections[k], b)}
             last == CHOOSE k \in covering \cup padding :
                       \A j \in covering \cup padding : j <= k
         IN  ram[b] = IF covering \cup padding = {} THEN Zero
                      ELSE IF last \in covering THEN last ELSE Stale

(* A load from a file comes to an end: in the image or back in DOS.        *)
LoadEnds == lpc # "dos" /\ source = "file" ~> lpc \in {"dos", "launched"}

(* Across its two ways out main keeps both promises: DOS gets its memory   *)
(* back, and the system image its contents.                                *)
LoadRight == XmsGivenBack /\ MemoryAtLaunch
=============================================================================
