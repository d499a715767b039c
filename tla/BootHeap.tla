------------------------------ MODULE BootHeap ------------------------------
(***************************************************************************)
(* The boot heap of NLoader (core/common/heap.c): a first-fit allocator    *)
(* over the RAM between ROMHDR.ulRAMFree and the boot stack.  Blocks carry *)
(* a header (cookie, free, prevSize, size); a block is cut from the TOP of *)
(* the first free block that is large enough, and BootFree merges a block  *)
(* with its free neighbours.                                               *)
(*                                                                         *)
(* An address is an offset in bytes from ulRAMFree.  hdr maps the address  *)
(* of every header whose cookie is intact to its fields: setting           *)
(* cookie = BOOT_HEAP_COOKIE adds an address to DOMAIN hdr, cookie = 0     *)
(* removes it.  Payload bytes are assumed never to spell a cookie at an    *)
(* address where a stale pointer looks for one.                            *)
(***************************************************************************)
EXTENDS Integers, FiniteSets, Functions

CONSTANTS
  Regions,        \* values ulRAMEnd - ulRAMFree may have in the image's TOC
  BootStackSize,  \* bytes kept for the stack below ulRAMEnd
  HeaderSize,     \* sizeof(BootHeapBlock_t)
  MinPayload,     \* a remainder is split off only if it has this much payload
  Requests,       \* sizes callers pass to BootAlloc
  AllocLimit,     \* 0x20000000 in the code
  WordSize,       \* 2^32: size_t arithmetic wraps here
  MaxDamage       \* how many headers a client may destroy (Splash.cpp can)

ASSUME HeapAssumption ==
  /\ HeaderSize \in Nat \ {0} /\ HeaderSize % 4 = 0
  /\ MinPayload \in Nat \ {0}
  /\ BootStackSize \in Nat
  /\ WordSize \in Nat /\ AllocLimit \in Nat /\ MaxDamage \in Nat
  /\ AllocLimit + HeaderSize + 3 <= WordSize
  /\ Requests \subseteq 0 .. (WordSize - 1)
  /\ \A r \in Regions : r \in Int /\ r < WordSize
  \* Between one and two headers of room the first header and the end
  \* marker would overlap; no image is linked that way.
  /\ \A r \in Regions :
       LET room == r - BootStackSize
       IN  room <= HeaderSize \/ room >= 2 * HeaderSize

VARIABLES
  pc,        \* "boot" before BootHeapInit, "idle", or "walk" inside BootAlloc
  heapUp,    \* s_bootHeap # NULL
  arena,     \* address of the end marker
  hdr,       \* intact headers: address -> [free, prevSize, size]
  damaged,   \* addresses of headers whose cookie a client has overwritten
  cursor,    \* pBlock in BootAlloc's search loop
  asked,     \* argument of the BootAlloc call in progress
  want,      \* size after header and rounding
  live,      \* blocks the clients own: payload address -> bytes asked for
  released   \* payload addresses that were handed out and given back

vars == <<pc, heapUp, arena, hdr, damaged, cursor, asked, want, live, released>>

Header == [free : BOOLEAN, prevSize : Nat, size : Nat]
NULL == -1

(* size = (size + sizeof(BootHeapBlock_t) + 3) & ~0x03 in size_t.          *)
WrapAdd(n, k) == IF n + k < WordSize THEN n + k ELSE n + k - WordSize
RoundUp(n) == LET s == WrapAdd(n, HeaderSize + 3) IN s - (s % 4)

Intact(a) == a \in DOMAIN hdr
After(a) == a + hdr[a].size

-----------------------------------------------------------------------------
Init ==
  /\ pc = "boot"
  /\ heapUp = FALSE
  /\ arena = 0
  /\ hdr = [a \in {} |-> [free |-> FALSE, prevSize |-> 0, size |-> 0]]
  /\ damaged = {}
  /\ cursor = 0 /\ asked = 0 /\ want = 0
  /\ live = [p \in {} |-> 0]
  /\ released = {}

(* One free block followed by the end marker, if the region has the room.  *)
BootHeapInit ==
  /\ pc = "boot"
  /\ pc' = "idle"
  /\ \E r \in Regions :
       LET end == r - BootStackSize - HeaderSize
       IN  IF r <= 0 \/ r < BootStackSize \/ end < 0
           THEN UNCHANGED <<heapUp, arena, hdr>>
           ELSE /\ heapUp' = TRUE
                /\ arena' = end
                /\ hdr' = [a \in {0, end} |->
                             IF a = end
                             THEN [free |-> FALSE, prevSize |-> end, size |-> 0]
                             ELSE [free |-> TRUE, prevSize |-> 0, size |-> end]]
  /\ UNCHANGED <<damaged, cursor, asked, want, live, released>>

-----------------------------------------------------------------------------
(* BootAlloc                                                               *)

(* The call is refused before the search: no heap, or the size is too big. *)
BootAllocRefused(n) ==
  /\ pc = "idle"
  /\ ~heapUp \/ n >= AllocLimit
  /\ UNCHANGED vars

(* Bug: no upper limit on the size, so that its rounding can wrap.         *)
BootAllocBeginUnlimited(n) ==
  /\ pc = "idle"
  /\ heapUp
  /\ pc' = "walk"
  /\ asked' = n
  /\ want' = RoundUp(n)
  /\ cursor' = 0
  /\ UNCHANGED <<heapUp, arena, hdr, damaged, live, released>>

BootAllocBegin(n) ==
  /\ pc = "idle"
  /\ heapUp /\ n < AllocLimit
  /\ pc' = "walk"
  /\ asked' = n
  /\ want' = RoundUp(n)
  /\ cursor' = 0
  /\ UNCHANGED <<heapUp, arena, hdr, damaged, live, released>>

(* The search stops with NULL at a destroyed header or at the end marker,  *)
(* or at a fitting block it should divide whose successor is destroyed.    *)
FitsStrictly(a) == hdr[a].free /\ hdr[a].size > want  \* bug: an exact fit is missed
Fits(a) == hdr[a].free /\ hdr[a].size >= want
Rest(a) == hdr[a].size - want
Divides(a) == Rest(a) >= HeaderSize + MinPayload

StopsWithNull ==
  \/ ~Intact(cursor)
  \/ (Intact(cursor) /\ hdr[cursor].size = 0)
  \/ /\ Intact(cursor) /\ hdr[cursor].size # 0
     /\ Fits(cursor) /\ Divides(cursor) /\ ~Intact(After(cursor))

(* BootAlloc returns: its locals are gone.                                 *)
Return ==
  /\ pc' = "idle"
  /\ cursor' = 0 /\ asked' = 0 /\ want' = 0

BootAllocFail ==
  /\ pc = "walk"
  /\ StopsWithNull
  /\ Return
  /\ UNCHANGED <<heapUp, arena, hdr, damaged, live, released>>

BootAllocNext ==
  /\ pc = "walk"
  /\ Intact(cursor) /\ hdr[cursor].size # 0 /\ ~Fits(cursor)
  /\ cursor' = After(cursor)
  /\ UNCHANGED <<pc, heapUp, arena, hdr, damaged, asked, want, live, released>>

HandOut(p) ==
  /\ Return
  /\ live' = [q \in DOMAIN live \cup {p} |-> IF q = p THEN asked ELSE live[q]]
  /\ released' = released \ {p}

(* The caller gets the top want bytes; what is left stays free.            *)
BootAllocSplit ==
  LET rest == Rest(cursor)
      top  == cursor + rest
      next == After(cursor)
      cut  == [hdr EXCEPT ![next].prevSize = want, ![cursor].size = rest]
  IN
  /\ pc = "walk"
  /\ Intact(cursor) /\ hdr[cursor].size # 0 /\ Fits(cursor) /\ Divides(cursor)
  /\ Intact(next)
  /\ hdr' = [a \in DOMAIN hdr \cup {top} |->
               IF a = top
               THEN [free |-> FALSE, prevSize |-> rest, size |-> want]
               ELSE cut[a]]
  /\ HandOut(top + HeaderSize)
  /\ UNCHANGED <<heapUp, arena, damaged>>

BootAllocWhole ==
  /\ pc = "walk"
  /\ Intact(cursor) /\ hdr[cursor].size # 0 /\ Fits(cursor) /\ ~Divides(cursor)
  /\ hdr' = [hdr EXCEPT ![cursor].free = FALSE]
  /\ HandOut(cursor + HeaderSize)
  /\ UNCHANGED <<heapUp, arena, damaged>>

-----------------------------------------------------------------------------
(* BootFree of the block whose header is at b                              *)

NotMarked(h, b) == h                  \* bug: pBlock->free = TRUE is missing
MarkFree(h, b) == [h EXCEPT ![b].free = TRUE]

(* Bug: the block above keeps the old prevSize.                            *)
AbsorbForward(h, a, n, n2) ==
  [Restrict(h, DOMAIN h \ {n}) EXCEPT ![a].size = @ + h[n].size]

(* Block a swallows block n, which ends at n2.                             *)
Absorb(h, a, n, n2) ==
  [Restrict(h, DOMAIN h \ {n}) EXCEPT
     ![n2].prevSize = @ + h[a].size,
     ![a].size = @ + h[n].size]

FreeingAny(b) == Intact(b)            \* bug: pBlock->free is not looked at
Freeing(b) == Intact(b) /\ ~hdr[b].free

FreeIgnored(b) ==
  /\ ~Freeing(b)
  /\ hdr' = hdr

PrevIgnored(b) == b # b               \* bug: no merge with the block below
PrevIsFree(b) ==
  LET q == b - hdr[b].prevSize
  IN  hdr[b].prevSize # 0 /\ Intact(q) /\ hdr[q].free

(* A destroyed neighbour above stops BootFree after the block is marked.   *)
FreeBelowDamage(b) ==
  /\ Freeing(b)
  /\ \/ ~Intact(After(b))
     \/ /\ Intact(After(b)) /\ hdr[After(b)].free
        /\ ~Intact(After(After(b)))
  /\ hdr' = MarkFree(hdr, b)

FreeNoMerge(b) ==
  /\ Freeing(b) /\ Intact(After(b)) /\ ~hdr[After(b)].free
  /\ ~PrevIsFree(b)
  /\ hdr' = MarkFree(hdr, b)

FreeMergeNext(b) ==
  LET n == After(b) IN
  /\ Freeing(b) /\ Intact(n) /\ hdr[n].free /\ Intact(After(n))
  /\ ~PrevIsFree(b)
  /\ hdr' = Absorb(MarkFree(hdr, b), b, n, After(n))

FreeMergePrev(b) ==
  LET n == After(b) IN
  /\ Freeing(b) /\ Intact(n) /\ ~hdr[n].free
  /\ PrevIsFree(b)
  /\ hdr' = Absorb(MarkFree(hdr, b), b - hdr[b].prevSize, b, n)

FreeMergeBoth(b) ==
  LET n == After(b) IN
  /\ Freeing(b) /\ Intact(n) /\ hdr[n].free /\ Intact(After(n))
  /\ PrevIsFree(b)
  /\ hdr' = Absorb(Absorb(MarkFree(hdr, b), b, n, After(n)),
                   b - hdr[b].prevSize, b, After(n))

BootFreeBlock(b) ==
  \/ FreeIgnored(b)
  \/ FreeBelowDamage(b)
  \/ FreeNoMerge(b)
  \/ FreeMergeNext(b)
  \/ FreeMergePrev(b)
  \/ FreeMergeBoth(b)

(* A client gives back a block it owns.                                    *)
BootFree(p) ==
  /\ pc = "idle"
  /\ p \in DOMAIN live
  /\ BootFreeBlock(p - HeaderSize)
  /\ live' = Restrict(live, DOMAIN live \ {p})
  /\ released' = released \cup {p}
  /\ UNCHANGED <<pc, heapUp, arena, damaged, cursor, asked, want>>

(* A client gives back a block a second time.                              *)
BootFreeAgain(p) ==
  /\ pc = "idle"
  /\ p \in released
  /\ BootFreeBlock(p - HeaderSize)
  /\ UNCHANGED <<pc, heapUp, arena, damaged, cursor, asked, want, live, released>>

(* BootFree(NULL) returns at once.                                         *)
BootFreeNull == pc = "idle" /\ UNCHANGED vars

(* A client writes past its block: the header above loses its cookie, the  *)
(* state the "Heap memory layout destroyed" checks are there for.          *)
Overrun(p) ==
  LET n == After(p - HeaderSize) IN
  /\ pc = "idle"
  /\ p \in DOMAIN live /\ Intact(p - HeaderSize) /\ Intact(n)
  /\ damaged' = damaged \cup {n}
  /\ hdr' = Restrict(hdr, DOMAIN hdr \ {n})
  /\ UNCHANGED <<pc, heapUp, arena, cursor, asked, want, live, released>>

MayDamage == Cardinality(damaged) < MaxDamage

-----------------------------------------------------------------------------
Next ==
  \/ BootHeapInit
  \/ \E n \in Requests : BootAllocRefused(n)
  \/ \E n \in Requests : BootAllocBegin(n)
  \/ BootAllocFail
  \/ BootAllocNext
  \/ BootAllocSplit
  \/ BootAllocWhole
  \/ \E p \in DOMAIN live : BootFree(p)
  \/ \E p \in released : BootFreeAgain(p)
  \/ BootFreeNull
  \/ MayDamage /\ \E p \in DOMAIN live : Overrun(p)

Spec == Init /\ [][Next]_vars

-----------------------------------------------------------------------------
(* Properties                                                              *)

(* Every header address, intact or destroyed.                              *)
Starts == DOMAIN hdr \cup damaged

(* The variables have their types.                                         *)
TypeOK ==
  /\ pc \in {"boot", "idle", "walk"}
  /\ heapUp \in BOOLEAN
  /\ arena \in Nat
  /\ hdr \in [DOMAIN hdr -> Header] /\ DOMAIN hdr \subseteq Nat
  /\ damaged \subseteq Nat
  /\ cursor \in Nat /\ asked \in Nat /\ want \in Nat
  /\ live \in [DOMAIN live -> Nat] /\ DOMAIN live \subseteq Nat
  /\ released \subseteq Nat

(* What BootAlloc handed out is the caller's alone: no two owned blocks    *)
(* overlap, none runs past the end marker, and no header of the heap lies  *)
(* inside one - whatever calls came before, and although a client has      *)
(* overwritten a header.                                                   *)
LiveDisjoint ==
  \A p \in DOMAIN live :
    /\ p + live[p] <= arena
    /\ \A q \in DOMAIN live : p < q => p + live[p] <= q - HeaderSize
    /\ \A a \in Starts : a >= p => p + live[p] <= a

(* A block that is not free belongs to some client: BootFree never strands *)
(* memory it could read the header of, and no other block is ever marked.  *)
NoLeak ==
  \A a \in DOMAIN hdr :
    a # arena /\ ~hdr[a].free => a + HeaderSize \in DOMAIN live

(* Free neighbours have always been merged, so a free block is as large as *)
(* the free space around it.                                               *)
Coalesced ==
  damaged = {} =>
    \A a \in DOMAIN hdr :
      a # arena /\ hdr[a].free => ~hdr[After(a)].free

(* BootAlloc returns NULL to an intact heap only if no free block is large *)
(* enough: the one-way search misses nothing.                              *)
FailOnlyWhenFull ==
  [][pc = "walk" /\ pc' = "idle" /\ live' = live /\ damaged = {}
       => \A a \in DOMAIN hdr : ~(hdr[a].free /\ hdr[a].size >= want)]_vars

(* A second BootFree of the same block changes nothing, even after the     *)
(* block was merged into a neighbour or its memory was handed out again as *)
(* part of another block.                                                  *)
DoubleFreeHarmless ==
  [][(\E p \in released : BootFreeAgain(p)) => hdr' = hdr]_vars

-----------------------------------------------------------------------------
(* The layout the operations maintain and rely on, for headers h and       *)
(* header addresses T = Starts: an intact block reaches exactly to the     *)
(* next header, the two sizes kept for it agree, and the end marker is     *)
(* never free.                                                             *)
ForwardLinks(h, T) ==
  \A a \in DOMAIN h \ {arena} :
    /\ h[a].size >= HeaderSize
    /\ a + h[a].size \in T
    /\ \A t \in T : t <= a \/ t >= a + h[a].size
    /\ a + h[a].size \in DOMAIN h =>
         h[a + h[a].size].prevSize = h[a].size

BackLinks(h, T) ==
  \A a \in DOMAIN h :
    /\ a = 0 <=> h[a].prevSize = 0
    /\ a # 0 => /\ a - h[a].prevSize \in T
                /\ \A t \in T : t >= a \/ t <= a - h[a].prevSize

EndMarker(h) == arena \in DOMAIN h => h[arena].size = 0 /\ ~h[arena].free

Layout(h, T) ==
  /\ h \in [DOMAIN h -> Header]
  /\ DOMAIN h \subseteq T /\ T \subseteq 0 .. arena
  /\ ForwardLinks(h, T) /\ BackLinks(h, T) /\ EndMarker(h)

(* Owned blocks sit right above a header and below the next one; their     *)
(* header, when intact, is not free.                                       *)
Owned(h, T, own) ==
  \A p \in DOMAIN own :
    /\ p - HeaderSize \in T \ {arena}
    /\ p - HeaderSize \in DOMAIN h => ~h[p - HeaderSize].free
    /\ \A t \in T : t <= p - HeaderSize \/ t >= p + own[p]

(* The search has passed no block it could have used.                      *)
SearchInv ==
  pc = "walk" =>
    /\ heapUp /\ cursor \in Starts
    /\ asked \in Requests /\ asked < AllocLimit /\ want = RoundUp(asked)
    /\ \A a \in DOMAIN hdr : a < cursor => ~Fits(a)

(* The heap's layout survives every sequence of calls, and the search      *)
(* position is always a header of it.                                      *)
HeapInv ==
  /\ arena < WordSize
  /\ Layout(hdr, Starts)
  /\ DOMAIN hdr \cap damaged = {}
  /\ Owned(hdr, Starts, live)
  /\ IF heapUp THEN {0, arena} \subseteq Starts
     ELSE Starts = {} /\ live = [p \in {} |-> 0] /\ released = {}
  /\ pc = "boot" => ~heapUp
  /\ released \cap DOMAIN live = {} /\ \A p \in released : p <= arena
  /\ SearchInv

-----------------------------------------------------------------------------
(* The heap implements the abstract allocator: a block it hands out        *)
(* overlaps none that is owned, and only its owner's BootFree ends it.     *)
Allocator == INSTANCE BlockAllocator
               WITH Addresses <- 0 .. (WordSize - 1), Sizes <- Requests

AllocatorSpec == Allocator!Spec
=============================================================================
