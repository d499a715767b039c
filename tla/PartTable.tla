----------------------------- MODULE PartTable -----------------------------
(* The partition table of an MBR and the functions of diskpart.cpp that       *)
(* read and rewrite it in memory.  A table has four entries; an entry whose   *)
(* Part_StartSector is zero is free.  The cylinder, head and sector fields    *)
(* repeat start and total in another unit and are left out.                   *)
EXTENDS Integers

CONSTANTS
  Sectors,        \* StoreInfo.snNumSectors
  MinSectors,     \* sectors of 5 MB, the least size of a partition
  DWord           \* 2^32: sector numbers wrap

ASSUME TableAssumption ==
  /\ Sectors \in Nat /\ MinSectors \in Nat \ {0} /\ DWord \in Nat
  /\ 1 < Sectors /\ 2 * Sectors < DWord /\ MinSectors < Sectors

MAX_PARTTABLE_ENTRIES == 4
Slot == 0 .. MAX_PARTTABLE_ENTRIES - 1
FileSystem == {"none", "dos", "extended", "other"}
Entry == [start : 0 .. DWord - 1, total : 0 .. DWord - 1, active : BOOLEAN, fs : FileSystem]
Table == [Slot -> Entry]
NoEntry == [start |-> 0, total |-> 0, active |-> FALSE, fs |-> "none"]

InUse(e) == e.start # 0
End(e) == (e.start + e.total) % DWord
Inside(s, e) == e.start <= s /\ s < End(e)

\* The entries before the first free one.
EntriesInUse(t) ==
  CHOOSE n \in 0 .. MAX_PARTTABLE_ENTRIES :
    /\ \A x \in 0 .. n - 1 : InUse(t[x])
    /\ n \in Slot => ~InUse(t[n])

SectorIsFree(s, t) == \A x \in 0 .. EntriesInUse(t) - 1 : ~Inside(s, t[x])

\* What the loop has after n entries: the largest gap so far and the sector
\* from which the next gap is measured, which moves only when a larger gap was
\* found.
GapAfter(t) ==
  LET g[n \in 0 .. EntriesInUse(t)] ==
        IF n = 0 THEN [large |-> 0, cur |-> 1]
        ELSE LET e == t[n - 1]  was == g[n - 1]
             IN IF e.start > was.cur /\ e.start - was.cur > was.large
                THEN [large |-> e.start - was.cur, cur |-> End(e)]
                ELSE was
  IN g[EntriesInUse(t)]

GetLargestPossiblePartition(t) ==
  LET g == GapAfter(t)
  IN IF g.cur < Sectors /\ Sectors - g.cur > g.large THEN Sectors - g.cur ELSE g.large

\* ConvertLBAtoCHS refuses a sector behind the last one (and lets the one just
\* behind it pass).
ConvertLBAtoCHS(s) == s <= Sectors

GenerateMBREntry(start, total) ==
  [start |-> start, total |-> total, active |-> FALSE, fs |-> "dos"]

EntryFits(e) ==
  ConvertLBAtoCHS(e.start) /\ ConvertLBAtoCHS((e.start + e.total - 1) % DWord)

\* Entries from n on move up, but the one at n is lost.
MoveOver(t, n, e) == [x \in Slot |-> IF x = n THEN e ELSE t[x]]

\* Entries from n on move up by one; the last is dropped.
MoveUp(t, n, e) == [x \in Slot |-> IF x < n THEN t[x] ELSE IF x = n THEN e ELSE t[x - 1]]

MinSize(total) == IF total < MinSectors THEN MinSectors ELSE total

\* dwCurSector when the loop looks at entry x.
CurSector(t, x) == IF x = 0 THEN 1 ELSE End(t[x - 1])

GapFitsAlmost(t, x, start, total) ==
  /\ start = 0 /\ t[x].start > CurSector(t, x)
  /\ t[x].start - CurSector(t, x) >= total

\* The three ways in which the loop of InsertPartition stops at entry x.
StartPassed(t, x, start) == start # 0 /\ t[x].start > start /\ CurSector(t, x) > start
GapFits(t, x, start, total) ==
  /\ start = 0 /\ t[x].start > CurSector(t, x)
  /\ t[x].start - CurSector(t, x) >= MinSize(total)
StartBefore(t, x, start) == start # 0 /\ t[x].start > start
StopsAt(t, x, start, total) ==
  StartPassed(t, x, start) \/ GapFits(t, x, start, total) \/ StartBefore(t, x, start)

\* The entry the loop stops at, or the one after the last it may look at.
Searched(t) == IF EntriesInUse(t) < 3 THEN EntriesInUse(t) ELSE 3
InsertAt(t, start, total) ==
  CHOOSE n \in 0 .. Searched(t) :
    /\ \A x \in 0 .. n - 1 : ~StopsAt(t, x, start, total)
    /\ n < Searched(t) => StopsAt(t, n, start, total)

\* The entry InsertPartition makes at n; total = 0 asks for all there is.
NewEntry(t, n, start, total) ==
  LET from  == IF start # 0 THEN start ELSE CurSector(t, n)
      space == IF n < Searched(t) THEN t[n].start - CurSector(t, n)
               ELSE IF n = 0 THEN Sectors - 1
               ELSE (Sectors - CurSector(t, n) - 1) % DWord
  IN GenerateMBREntry(from, IF total # 0 THEN MinSize(total) ELSE space)

CanInsert(t, start, total) ==
  LET n == InsertAt(t, start, total)
  IN /\ ~(n < Searched(t) /\ StartPassed(t, n, start))
     /\ EntryFits(NewEntry(t, n, start, total))

InsertPartition(t, start, total) ==
  LET n == InsertAt(t, start, total)
      e == NewEntry(t, n, start, total)
  IN IF n < Searched(t) THEN MoveUp(t, n, e) ELSE [t EXCEPT ![n] = e]

CompactRoundShort(was, x) ==
  IF InUse(was.t[was.p]) THEN [was EXCEPT !.p = @ + 1]
  ELSE [was EXCEPT !.t = [y \in Slot |->
          IF y \in was.p .. was.p + 2 - x THEN was.t[y + 1] ELSE was.t[y]]]

\* One round of CompactMBR: keep the entry, or close the hole and free the last.
CompactRound(was, x) ==
  IF InUse(was.t[was.p]) THEN [was EXCEPT !.p = @ + 1]
  ELSE [was EXCEPT !.t = [y \in Slot |->
          IF y \in was.p .. was.p + 2 - x THEN was.t[y + 1]
          ELSE IF y = was.p + 3 - x THEN NoEntry ELSE was.t[y]]]

CompactMBR(t) ==
  CompactRound(CompactRound(CompactRound([t |-> t, p |-> 0], 0), 1), 2).t

Extended(e) == e.fs = "extended"

\* Entries in use start one behind the other.
Ordered(t) ==
  \A x, y \in Slot : x < y /\ InUse(t[x]) /\ InUse(t[y]) => t[x].start <= t[y].start

MBRIsValid(t) ==
  Ordered(t) /\ \A x, y \in Slot : Extended(t[x]) /\ Extended(t[y]) => x = y

\* No two partitions share a sector.
Apart(d, e) == d.start + d.total <= e.start \/ e.start + e.total <= d.start
Disjoint(t) ==
  \A x, y \in Slot : x # y /\ InUse(t[x]) /\ InUse(t[y]) => Apart(t[x], t[y])
OnDisk(t) == \A x \in Slot : InUse(t[x]) => t[x].start + t[x].total <= Sectors
Proper(t) == OnDisk(t) /\ \A x \in Slot : InUse(t[x]) => t[x].total > 0
=============================================================================
