--------------------------- MODULE DiskPartProofs ---------------------------
(***************************************************************************)
(* Theorems about DiskPart, for every disk, every table on it and every    *)
(* sequence of commands, any of which may fail.  What is hard about them   *)
(* is in the functions that move entries about in memory: CompactMBR and   *)
(* InsertPartition.                                                        *)
(***************************************************************************)
EXTENDS DiskPart, FiniteSetTheorems, SequenceTheorems, TLAPS

-----------------------------------------------------------------------------
LEMMA Slots == Slot = 0 .. 3
BY DEF Slot, MAX_PARTTABLE_ENTRIES

LEMMA Sizing ==
  /\ Sectors \in Nat /\ MinSectors \in Nat \ {0} /\ DWord \in Nat
  /\ 1 < Sectors /\ 2 * Sectors < DWord /\ MinSectors < Sectors
BY TableAssumption

LEMMA EntryType ==
  ASSUME NEW t \in Table, NEW x \in Slot
  PROVE  t[x] \in Entry /\ t[x].start \in 0 .. DWord - 1 /\ t[x].total \in 0 .. DWord - 1
BY DEF Table, Entry

LEMMA NoEntryType ==
  NoEntry \in Entry /\ ~InUse(NoEntry) /\ ~NoEntry.active /\ NoEntry.start = 0
<1>1. 0 \in 0 .. DWord - 1
  BY Sizing
<1> QED
  BY <1>1 DEF NoEntry, Entry, FileSystem, InUse

(* A loop that looks at n entries stops at one of them, or after the last. *)
LEMMA LoopStops ==
  ASSUME NEW n \in 0 .. 4, NEW Stop \in SUBSET Slot
  PROVE  \E k \in 0 .. n : (\A x \in 0 .. k - 1 : x \notin Stop) /\ (k < n => k \in Stop)
<1>1. CASE n = 0
  BY <1>1
<1>2. CASE n > 0 /\ 0 \in Stop
  BY <1>2
<1>3. CASE n = 1 /\ 0 \notin Stop
  BY <1>3
<1>4. CASE n > 1 /\ 0 \notin Stop /\ 1 \in Stop
  BY <1>4
<1>5. CASE n = 2 /\ 0 \notin Stop /\ 1 \notin Stop
  BY <1>5
<1>6. CASE n > 2 /\ 0 \notin Stop /\ 1 \notin Stop /\ 2 \in Stop
  BY <1>6
<1>7. CASE n = 3 /\ 0 \notin Stop /\ 1 \notin Stop /\ 2 \notin Stop
  BY <1>7
<1>8. CASE n = 4 /\ 0 \notin Stop /\ 1 \notin Stop /\ 2 \notin Stop /\ 3 \in Stop
  BY <1>8
<1>9. CASE n = 4 /\ 0 \notin Stop /\ 1 \notin Stop /\ 2 \notin Stop /\ 3 \notin Stop
  BY <1>9
<1> QED
  BY <1>1, <1>2, <1>3, <1>4, <1>5, <1>6, <1>7, <1>8, <1>9

(* The table as the map m of slots says: each holds an entry of t, or      *)
(* none, in t's order, and none that is in use is left out.                *)
Picked(t, m, y) == IF m[y] = 4 THEN NoEntry ELSE t[m[y]]
PicksUsed(t, m) ==
  /\ m \in [Slot -> 0 .. 4]
  /\ \A y, z \in Slot : y < z => m[y] < m[z] \/ m[z] = 4
  /\ \A z \in Slot : InUse(t[z]) => \E y \in Slot : m[y] = z

(* What CompactMBR has after x rounds, s.p of which kept an entry.         *)
RoundInv(t, s, m, x) ==
  /\ s = [t |-> [y \in Slot |-> Picked(t, m, y)], p |-> s.p] /\ s.p \in 0 .. x
  /\ PicksUsed(t, m)
  /\ \A y \in 0 .. s.p - 1 : InUse(Picked(t, m, y))
  /\ \A y \in Slot : y > s.p + 3 - x => m[y] = 4

LEMMA RoundKeeps ==
  ASSUME NEW t, NEW s, NEW m, NEW x \in 0 .. 2, RoundInv(t, s, m, x)
  PROVE  \E n : RoundInv(t, CompactRound(s, x), n, x + 1)
<1> DEFINE p == s.p  kept == [y \in Slot |-> Picked(t, m, y)]  r == CompactRound(s, x)
<1>1. /\ s = [t |-> kept, p |-> p] /\ p \in 0 .. x /\ p \in Slot
      /\ m \in [Slot -> 0 .. 4] /\ s.t = kept
  BY Slots DEF RoundInv, PicksUsed
<1>2. CASE InUse(kept[p])
  <2>1. r = [s EXCEPT !.p = @ + 1]
    BY <1>1, <1>2 DEF CompactRound
  <2>2. r.p = p + 1 /\ r = [t |-> kept, p |-> p + 1]
    BY <1>1, <2>1
  <2>3. RoundInv(t, r, m, x + 1)
    <3>1. \A y \in 0 .. p : InUse(Picked(t, m, y))
      BY <1>1, <1>2 DEF RoundInv
    <3>2. \A y \in Slot : y > (p + 1) + 3 - (x + 1) => m[y] = 4
      BY <1>1, Slots DEF RoundInv
    <3>3. PicksUsed(t, m) /\ p + 1 \in 0 .. x + 1
      BY <1>1 DEF RoundInv
    <3>4. \A y \in 0 .. r.p - 1 : InUse(Picked(t, m, y))
      BY <1>1, <2>2, <3>1
    <3>5. r = [t |-> kept, p |-> r.p] /\ r.p \in 0 .. x + 1
      BY <2>1, <2>2, <3>3
    <3>6. \A y \in Slot : y > r.p + 3 - (x + 1) => m[y] = 4
      BY <2>2, <3>2
    <3> HIDE DEF r, p
    <3> QED
      BY <3>3, <3>4, <3>5, <3>6 DEF RoundInv
  <2> QED
    BY <2>3
<1>3. CASE ~InUse(kept[p])
  <2> DEFINE n == [y \in Slot |-> IF y \in p .. p + 2 - x THEN m[y + 1]
                                  ELSE IF y = p + 3 - x THEN 4 ELSE m[y]]
  <2>1. \A y \in Slot : y + 1 \in Slot \/ y \notin p .. p + 2 - x
    BY <1>1, Slots
  <2> DEFINE closed == [y \in Slot |-> IF y \in p .. p + 2 - x THEN kept[y + 1]
                                       ELSE IF y = p + 3 - x THEN NoEntry ELSE kept[y]]
  <2>2. r = [t |-> closed, p |-> p]
    BY <1>1, <1>3 DEF CompactRound
  <2>3. closed = [y \in Slot |-> Picked(t, n, y)]
    BY <2>1 DEF Picked
  <2>4. r.p = p /\ r = [t |-> [y \in Slot |-> Picked(t, n, y)], p |-> r.p]
    <3> HIDE DEF closed, p, r
    <3> QED
      BY <2>2, <2>3
  <2>5. n \in [Slot -> 0 .. 4]
    BY <1>1, <2>1, Slots
  <2>6. \A y, z \in Slot : y < z => n[y] < n[z] \/ n[z] = 4
    <3>1. \A y, z \in Slot : y < z => m[y] < m[z] \/ m[z] = 4
      BY DEF RoundInv, PicksUsed
    <3>2. \A y \in Slot : y > p + 3 - x => m[y] = 4
      BY DEF RoundInv
    <3> QED
      <4> SUFFICES ASSUME NEW y \in Slot, NEW z \in Slot, y < z PROVE n[y] < n[z] \/ n[z] = 4
        OBVIOUS
      <4>1. CASE z > p + 3 - x
        BY <1>1, <3>1, <3>2, <4>1, Slots
      <4>2. CASE z = p + 3 - x
        BY <1>1, <4>2, Slots
      <4>3. CASE z < p
        BY <1>1, <3>1, <4>3, Slots
      <4>4. CASE z \in p .. p + 2 - x /\ y < p
        <5>1. n[y] = m[y] /\ n[z] = m[z + 1] /\ z + 1 \in Slot /\ y < z + 1
          BY <1>1, <4>4, Slots
        <5> QED
          BY <3>1, <5>1
      <4>5. CASE z \in p .. p + 2 - x /\ y >= p
        <5>1. n[y] = m[y + 1] /\ n[z] = m[z + 1] /\ z + 1 \in Slot /\ y + 1 \in Slot /\ y + 1 < z + 1
          BY <1>1, <4>5, Slots
        <5> QED
          BY <3>1, <5>1
      <4> QED
        BY <1>1, <4>1, <4>2, <4>3, <4>4, <4>5, Slots
  <2>7. ASSUME NEW z \in Slot, InUse(t[z]) PROVE \E y \in Slot : n[y] = z
    <3>1. PICK y \in Slot : m[y] = z
      BY <2>7 DEF RoundInv, PicksUsed
    <3>2. y # p
      BY <1>3, <3>1, <2>7, Slots DEF Picked
    <3>3. y <= p + 3 - x
      BY <3>1, Slots DEF RoundInv
    <3>4. CASE y < p
      BY <3>1, <3>4, <1>1, Slots
    <3>5. CASE y > p
      <4>1. y - 1 \in Slot /\ y - 1 \in p .. p + 2 - x
        BY <3>3, <3>5, <1>1, Slots
      <4>2. n[y - 1] = m[y]
        BY <4>1, Slots
      <4> QED
        BY <3>1, <4>1, <4>2
    <3> QED
      BY <3>2, <3>4, <3>5, <1>1, Slots
  <2>8. \A y \in 0 .. p - 1 : InUse(Picked(t, n, y))
    <3>1. \A y \in 0 .. p - 1 : n[y] = m[y]
      BY <1>1, Slots
    <3> QED
      BY <3>1, <1>1 DEF RoundInv, Picked
  <2>9. \A y \in Slot : y > p + 3 - (x + 1) => n[y] = 4
    BY <1>1, Slots DEF RoundInv
  <2>10. p \in 0 .. x + 1
    BY <1>1
  <2> HIDE DEF n, r, p
  <2>11. PicksUsed(t, n)
    BY <2>5, <2>6, <2>7 DEF PicksUsed
  <2>12. RoundInv(t, r, n, x + 1)
    <3>1. /\ r.p \in 0 .. x + 1
          /\ \A y \in 0 .. r.p - 1 : InUse(Picked(t, n, y))
          /\ \A y \in Slot : y > r.p + 3 - (x + 1) => n[y] = 4
      BY <2>4, <2>8, <2>9, <2>10
    <3> QED
      BY <2>4, <2>11, <3>1 DEF RoundInv
  <2> QED
    BY <2>12 DEF r
<1> QED
  BY <1>2, <1>3

(* What CompactMBR returns: a table in the order of t with its k entries   *)
(* in use, and only they, in front.                                        *)
Compacted(t, c, m, k) ==
  /\ c = [y \in Slot |-> Picked(t, m, y)] /\ PicksUsed(t, m)
  /\ k \in 0 .. 4 /\ \A y \in Slot : InUse(c[y]) <=> y < k

LEMMA CompactIs ==
  ASSUME NEW t \in Table
  PROVE  \E m, k : Compacted(t, CompactMBR(t), m, k)
<1> DEFINE s0 == [t |-> t, p |-> 0]  s1 == CompactRound(s0, 0)  s2 == CompactRound(s1, 1)
           s3 == CompactRound(s2, 2)
<1>1. RoundInv(t, s0, [y \in Slot |-> y], 0)
  <2> DEFINE m == [y \in Slot |-> y]
  <2>1. PicksUsed(t, m)
    BY Slots DEF PicksUsed
  <2>2. \A y \in Slot : Picked(t, m, y) = t[y]
    BY Slots DEF Picked
  <2>3. t = [y \in Slot |-> Picked(t, m, y)]
    BY <2>2 DEF Table
  <2> HIDE DEF m
  <2>4. s0.p = 0 /\ s0 = [t |-> [y \in Slot |-> Picked(t, m, y)], p |-> s0.p]
    BY <2>3
  <2>5. \A y \in 0 .. 0 - 1 : InUse(Picked(t, m, y))
    OBVIOUS
  <2>6. \A y \in Slot : y > 0 + 3 - 0 => m[y] = 4
    BY Slots
  <2> HIDE DEF s0
  <2>7. RoundInv(t, s0, m, 0)
    BY <2>1, <2>4, <2>5, <2>6 DEF RoundInv
  <2> QED
    BY <2>7 DEF m
<1> HIDE DEF s0
<1>2. \E m : RoundInv(t, s1, m, 1)
  BY <1>1, RoundKeeps
<1> HIDE DEF s1
<1>3. \E m : RoundInv(t, s2, m, 2)
  BY <1>2, RoundKeeps DEF s2
<1> HIDE DEF s2
<1>4. PICK m : RoundInv(t, s3, m, 3)
  BY <1>3, RoundKeeps DEF s3
<1> HIDE DEF s3
<1>5. CompactMBR(t) = s3.t
  BY DEF CompactMBR, s0, s1, s2, s3
<1> DEFINE c == [y \in Slot |-> Picked(t, m, y)]  p == s3.p
<1>6. s3.t = c
  BY <1>4 DEF RoundInv
<1>7. p \in 0 .. 3 /\ PicksUsed(t, m)
  BY <1>4 DEF RoundInv
<1>8. \A y \in Slot : y < p => InUse(c[y])
  BY <1>4, <1>7, Slots DEF RoundInv
<1>9. \A y \in Slot : y > p => ~InUse(c[y])
  BY <1>4, <1>7, Slots, NoEntryType DEF RoundInv, Picked
<1> HIDE DEF c, p
<1>10. CASE InUse(c[p])
  <2>1. \A y \in Slot : InUse(c[y]) <=> y < p + 1
    BY <1>7, <1>8, <1>9, <1>10, Slots
  <2>2. Compacted(t, CompactMBR(t), m, p + 1)
    BY <1>5, <1>6, <1>7, <2>1 DEF Compacted, c
  <2> QED
    BY <2>2
<1>11. CASE ~InUse(c[p])
  <2>1. \A y \in Slot : InUse(c[y]) <=> y < p
    BY <1>7, <1>8, <1>9, <1>11, Slots
  <2>2. Compacted(t, CompactMBR(t), m, p)
    BY <1>5, <1>6, <1>7, <2>1 DEF Compacted, c
  <2> QED
    BY <2>2
<1> QED
  BY <1>10, <1>11

LEMMA CompactInOrder ==
  ASSUME NEW t \in Table, NEW c, NEW m, NEW k, Compacted(t, c, m, k)
  PROVE  /\ c \in Table
         /\ \A y \in Slot : m[y] \in Slot \/ (m[y] = 4 /\ c[y] = NoEntry)
         /\ \A y \in Slot : m[y] \in Slot => c[y] = t[m[y]]
         /\ \A y, z \in Slot : m[y] = m[z] /\ m[y] \in Slot => y = z
         /\ \A y, z \in Slot : y < z /\ m[z] \in Slot => m[y] \in Slot /\ m[y] < m[z]
         /\ \A y \in Slot : y < k => m[y] \in Slot /\ InUse(t[m[y]]) /\ c[y] = t[m[y]]
         /\ \A z \in Slot : InUse(t[z]) => \E y \in Slot : y < k /\ m[y] = z
<1>1. m \in [Slot -> 0 .. 4] /\ \A y, z \in Slot : y < z => m[y] < m[z] \/ m[z] = 4
  BY DEF Compacted, PicksUsed
<1>2. \A y \in Slot : m[y] \in Slot \/ (m[y] = 4 /\ c[y] = NoEntry)
  BY <1>1, Slots DEF Compacted, Picked
<1>3. \A y \in Slot : m[y] \in Slot => c[y] = t[m[y]]
  BY Slots DEF Compacted, Picked
<1>4. \A y \in Slot : c[y] \in Entry
  BY <1>2, <1>3, EntryType, NoEntryType
<1>5. c \in Table
  BY <1>4 DEF Compacted, Table
<1>6. \A y, z \in Slot : m[y] = m[z] /\ m[y] \in Slot => y = z
  BY <1>1, Slots
<1>7. \A y, z \in Slot : y < z /\ m[z] \in Slot => m[y] \in Slot /\ m[y] < m[z]
  BY <1>1, Slots
<1>8. \A y \in Slot : InUse(c[y]) <=> y < k
  BY DEF Compacted
<1>9. \A y \in Slot : y < k => m[y] \in Slot /\ InUse(t[m[y]]) /\ c[y] = t[m[y]]
  BY <1>2, <1>3, <1>8, NoEntryType
<1>10. ASSUME NEW z \in Slot, InUse(t[z]) PROVE \E y \in Slot : y < k /\ m[y] = z
  <2>1. PICK y \in Slot : m[y] = z
    BY <1>10 DEF Compacted, PicksUsed
  <2> QED
    BY <1>3, <1>8, <1>10, <2>1
<1> QED
  BY <1>2, <1>3, <1>5, <1>6, <1>7, <1>9, <1>10

LEMMA UsedFinite ==
  ASSUME NEW t
  PROVE  IsFiniteSet(UsedSlots(t)) /\ UsedSlots(t) \subseteq Slot
<1>1. IsFiniteSet(Slot)
  <2>1. Slot \in SUBSET Nat /\ \A x \in Slot : x <= 3
    BY Slots
  <2> QED
    BY <2>1, FS_BoundedSetOfNaturals
<1>2. UsedSlots(t) \subseteq Slot
  BY DEF UsedSlots
<1> QED
  BY <1>1, <1>2, FS_Subset

LEMMA UsedInFront ==
  ASSUME NEW c, NEW k \in 0 .. 4, \A y \in Slot : InUse(c[y]) <=> y < k
  PROVE  UsedSlots(c) = 0 .. k - 1 /\ Cardinality(UsedSlots(c)) = k
<1>1. UsedSlots(c) = 0 .. k - 1
  BY Slots DEF UsedSlots
<1>2. Cardinality(0 .. k - 1) = k
  BY FS_Interval
<1> QED
  BY <1>1, <1>2

(* CompactMBR loses and changes no entry, and keeps their order.           *)
LEMMA CompactKeeps ==
  ASSUME NEW t \in Table, NEW c, c = CompactMBR(t)
  PROVE  /\ c \in Table
         /\ MarkedOnce(t) => MarkedOnce(c)
         /\ Used(c) = Used(t) /\ StartsOf(c) = StartsOf(t)
         /\ Cardinality(UsedSlots(c)) = Cardinality(UsedSlots(t))
         /\ Ordered(t) => Ordered(c)
         /\ Disjoint(t) => Disjoint(c)
         /\ Proper(t) => Proper(c)
         /\ \E k \in 0 .. 4 : \A y \in Slot : InUse(c[y]) <=> y < k
<1>1. PICK m, k : Compacted(t, c, m, k)
  BY CompactIs
<1>2. /\ c \in Table
      /\ \A y \in Slot : m[y] \in Slot \/ (m[y] = 4 /\ c[y] = NoEntry)
      /\ \A y \in Slot : m[y] \in Slot => c[y] = t[m[y]]
      /\ \A y, z \in Slot : m[y] = m[z] /\ m[y] \in Slot => y = z
      /\ \A y, z \in Slot : y < z /\ m[z] \in Slot => m[y] \in Slot /\ m[y] < m[z]
      /\ \A y \in Slot : y < k => m[y] \in Slot /\ InUse(t[m[y]]) /\ c[y] = t[m[y]]
      /\ \A z \in Slot : InUse(t[z]) => \E y \in Slot : y < k /\ m[y] = z
  BY <1>1, CompactInOrder
<1>3. k \in 0 .. 4 /\ \A y \in Slot : InUse(c[y]) <=> y < k
  BY <1>1 DEF Compacted
<1>4. MarkedOnce(t) => MarkedOnce(c)
  <2> SUFFICES ASSUME MarkedOnce(t), NEW x \in Slot, NEW y \in Slot, c[x].active, c[y].active
               PROVE  x = y
    BY DEF MarkedOnce
  <2>1. m[x] \in Slot /\ m[y] \in Slot
    BY <1>2, NoEntryType
  <2>2. t[m[x]].active /\ t[m[y]].active
    BY <1>2, <2>1
  <2> QED
    BY <1>2, <2>1, <2>2 DEF MarkedOnce
<1>5. Used(c) = Used(t)
  <2>1. ASSUME NEW e \in Used(c) PROVE e \in Used(t)
    <3>1. PICK y \in Slot : InUse(c[y]) /\ e = c[y]
      BY DEF Used, UsedSlots
    <3>2. m[y] \in Slot /\ InUse(t[m[y]]) /\ e = t[m[y]]
      BY <1>2, <1>3, <3>1
    <3> QED
      BY <3>2 DEF Used, UsedSlots
  <2>2. ASSUME NEW e \in Used(t) PROVE e \in Used(c)
    <3>1. PICK z \in Slot : InUse(t[z]) /\ e = t[z]
      BY DEF Used, UsedSlots
    <3>2. PICK y \in Slot : y < k /\ m[y] = z
      BY <1>2, <3>1
    <3>3. e = c[y] /\ InUse(c[y])
      BY <1>2, <1>3, <3>1, <3>2
    <3> QED
      BY <3>3 DEF Used, UsedSlots
  <2> QED
    BY <2>1, <2>2
<1>6. StartsOf(c) = StartsOf(t)
  <2>1. \A u : StartsOf(u) = {e.start : e \in Used(u)}
    BY DEF StartsOf, Used, UsedSlots
  <2> QED
    BY <1>5, <2>1
<1>7. Cardinality(UsedSlots(c)) = Cardinality(UsedSlots(t))
  <2> DEFINE f == [y \in UsedSlots(c) |-> m[y]]
  <2>1. \A y \in UsedSlots(c) : y \in Slot /\ y < k /\ m[y] \in UsedSlots(t)
    BY <1>2, <1>3 DEF UsedSlots
  <2>2. f \in Bijection(UsedSlots(c), UsedSlots(t))
    <3>1. f \in Injection(UsedSlots(c), UsedSlots(t))
      BY <1>2, <2>1 DEF Injection, IsInjective, UsedSlots
    <3>2. \A z \in UsedSlots(t) : \E y \in UsedSlots(c) : f[y] = z
      BY <1>2, <1>3 DEF UsedSlots
    <3> QED
      BY <3>1, <3>2 DEF Bijection, Surjection, Injection
  <2>3. ExistsBijection(UsedSlots(c), UsedSlots(t))
    BY <2>2 DEF ExistsBijection
  <2> QED
    BY <2>3, UsedFinite, FS_Bijection
<1>8. Ordered(t) => Ordered(c)
  BY <1>2, <1>3 DEF Ordered
<1>9. Disjoint(t) => Disjoint(c)
  BY <1>2, <1>3 DEF Disjoint
<1>10. Proper(t) => Proper(c)
  BY <1>2, <1>3 DEF Proper, OnDisk
<1> QED
  BY <1>2, <1>3, <1>4, <1>5, <1>6, <1>7, <1>8, <1>9, <1>10
-----------------------------------------------------------------------------
(* InsertPartition, on a table with its k entries in use in front.         *)
InFront(c, k) == \A y \in Slot : InUse(c[y]) <=> y < k

LEMMA EntriesAre ==
  ASSUME NEW c, NEW k \in 0 .. 4, InFront(c, k)
  PROVE  EntriesInUse(c) = k /\ (k < 4 => Searched(c) = k)
<1> DEFINE P(n) == /\ \A x \in 0 .. n - 1 : InUse(c[x])
                   /\ n \in Slot => ~InUse(c[n])
<1>1. P(k) /\ k \in 0 .. MAX_PARTTABLE_ENTRIES
  BY Slots DEF InFront, MAX_PARTTABLE_ENTRIES
<1>2. ASSUME NEW n \in 0 .. MAX_PARTTABLE_ENTRIES, P(n) PROVE n = k
  <2>1. CASE n < k
    BY <1>2, <2>1, Slots DEF InFront, MAX_PARTTABLE_ENTRIES
  <2>2. CASE n > k
    <3>1. k \in 0 .. n - 1 /\ k \in Slot
      BY <2>2, Slots DEF MAX_PARTTABLE_ENTRIES
    <3> QED
      BY <1>2, <3>1 DEF InFront
  <2> QED
    BY <2>1, <2>2 DEF MAX_PARTTABLE_ENTRIES
<1>3. EntriesInUse(c) = k
  <2>1. EntriesInUse(c) = CHOOSE n \in 0 .. MAX_PARTTABLE_ENTRIES : P(n)
    BY DEF EntriesInUse
  <2> HIDE DEF P
  <2> QED
    BY <1>1, <1>2, <2>1
<1> QED
  BY <1>3 DEF Searched

LEMMA InsertStops ==
  ASSUME NEW c, NEW k \in 0 .. 3, InFront(c, k), NEW start, NEW total,
         NEW n, n = InsertAt(c, start, total)
  PROVE  /\ n \in 0 .. k /\ n \in Slot
         /\ \A x \in 0 .. n - 1 : ~StopsAt(c, x, start, total)
         /\ n < k => StopsAt(c, n, start, total)
<1> DEFINE Stop == {x \in Slot : StopsAt(c, x, start, total)}
           P(i) == /\ \A x \in 0 .. i - 1 : ~StopsAt(c, x, start, total)
                   /\ i < k => StopsAt(c, i, start, total)
<1>1. k \in 0 .. 4 /\ Searched(c) = k
  BY EntriesAre
<1>2. PICK i \in 0 .. k : (\A x \in 0 .. i - 1 : x \notin Stop) /\ (i < k => i \in Stop)
  <2>1. Stop \in SUBSET Slot
    OBVIOUS
  <2> HIDE DEF Stop
  <2> QED
    BY <1>1, <2>1, LoopStops
<1>3. \A x \in 0 .. i - 1 : x \in Slot
  BY Slots
<1>4. P(i)
  BY <1>2, <1>3
<1>5. n = CHOOSE j \in 0 .. k : P(j)
  BY <1>1 DEF InsertAt
<1> HIDE DEF P
<1>6. n \in 0 .. k /\ P(n)
  BY <1>2, <1>4, <1>5
<1> QED
  BY <1>6, Slots DEF P

LEMMA EndType ==
  ASSUME NEW e \in Entry
  PROVE  /\ e.start \in Nat /\ e.total \in Nat /\ End(e) \in 0 .. DWord - 1
         /\ e.start + e.total < DWord => End(e) = e.start + e.total
<1>1. e.start \in 0 .. DWord - 1 /\ e.total \in 0 .. DWord - 1 /\ DWord \in Nat /\ DWord > 0
  BY Sizing DEF Entry
<1>2. ASSUME NEW a \in 0 .. DWord - 1, NEW b \in 0 .. DWord - 1
      PROVE  (a + b) % DWord \in 0 .. DWord - 1 /\ (a + b < DWord => (a + b) % DWord = a + b)
  <2>1. (a + b) % DWord \in 0 .. DWord - 1
    BY <1>1
  <2>2. a + b < DWord => (a + b) % DWord = a + b
    BY <1>1
  <2> QED
    BY <2>1, <2>2
<1> QED
  BY <1>1, <1>2 DEF End

LEMMA CurSectorType ==
  ASSUME NEW c \in Table, NEW x \in Slot
  PROVE  CurSector(c, x) \in 0 .. DWord - 1
<1>1. CASE x = 0
  BY <1>1, Sizing DEF CurSector
<1>2. CASE x # 0
  <2>1. x - 1 \in Slot
    BY <1>2, Slots
  <2>2. End(c[x - 1]) \in 0 .. DWord - 1
    BY <2>1, EntryType, EndType
  <2> QED
    BY <1>2, <2>2 DEF CurSector
<1> QED
  BY <1>1, <1>2

(* The entry that is made fits its fields: nothing is subtracted from less.*)
LEMMA NewEntryIs ==
  ASSUME NEW c \in Table, NEW k \in 0 .. 3, InFront(c, k),
         NEW start \in Nat, NEW total \in Nat, start < Sectors, total < Sectors,
         NEW n, n = InsertAt(c, start, total), ~(n < k /\ StartPassed(c, n, start)),
         NEW e, e = NewEntry(c, n, start, total)
  PROVE  /\ e \in Entry /\ ~e.active
         /\ e.start = IF start # 0 THEN start ELSE CurSector(c, n)
         /\ e.total = IF total # 0 THEN MinSize(total)
                      ELSE IF n < k THEN c[n].start - CurSector(c, n)
                      ELSE IF n = 0 THEN Sectors - 1
                      ELSE (Sectors - CurSector(c, n) - 1) % DWord
<1>1. /\ n \in 0 .. k /\ n \in Slot /\ (n < k => StopsAt(c, n, start, total))
      /\ Searched(c) = k
  <2>1. k \in 0 .. 4
    OBVIOUS
  <2> QED
    BY <2>1, InsertStops, EntriesAre
<1>2. CurSector(c, n) \in 0 .. DWord - 1 /\ c[n].start \in 0 .. DWord - 1
  BY <1>1, CurSectorType, EntryType
<1> DEFINE from == IF start # 0 THEN start ELSE CurSector(c, n)
           long == IF total # 0 THEN MinSize(total)
                   ELSE IF n < k THEN c[n].start - CurSector(c, n)
                   ELSE IF n = 0 THEN Sectors - 1
                   ELSE (Sectors - CurSector(c, n) - 1) % DWord
<1>3. e = GenerateMBREntry(from, long)
  BY <1>1 DEF NewEntry
<1>4. from \in 0 .. DWord - 1
  BY <1>2, Sizing
<1>5. n < k => c[n].start - CurSector(c, n) \in 0 .. DWord - 1
  <2> SUFFICES ASSUME n < k PROVE c[n].start > CurSector(c, n)
    BY <1>2, Sizing
  <2>1. StopsAt(c, n, start, total) /\ ~StartPassed(c, n, start)
    BY <1>1
  <2>2. CASE GapFits(c, n, start, total)
    BY <2>2 DEF GapFits
  <2>3. CASE StartBefore(c, n, start)
    BY <1>2, <2>1, <2>3 DEF StartBefore, StartPassed
  <2> QED
    BY <2>1, <2>2, <2>3 DEF StopsAt
<1>6. MinSize(total) \in 0 .. DWord - 1
  BY Sizing DEF MinSize
<1>7. (Sectors - CurSector(c, n) - 1) % DWord \in 0 .. DWord - 1
  <2>1. PICK q \in Int : q = Sectors - CurSector(c, n) - 1
    BY <1>2, Sizing
  <2>2. q % DWord \in 0 .. DWord - 1
    BY Sizing
  <2> QED
    BY <2>1, <2>2
<1>8. Sectors - 1 \in 0 .. DWord - 1
  BY Sizing
<1>9. long \in 0 .. DWord - 1
  BY <1>5, <1>6, <1>7, <1>8
<1> HIDE DEF from, long
<1>10. e.start = from /\ e.total = long /\ ~e.active
  BY <1>3 DEF GenerateMBREntry
<1>11. e \in Entry
  BY <1>3, <1>4, <1>9 DEF GenerateMBREntry, Entry, FileSystem
<1> QED
  BY <1>10, <1>11 DEF from, long

(* The entries before place n stay, those from n on move up, and d has e   *)
(* between them.                                                           *)
Inserted(c, k, n, e, d) ==
  /\ n \in 0 .. k /\ n \in Slot /\ e \in Entry /\ ~e.active /\ d \in Table
  /\ d[n] = e
  /\ \A x \in Slot : x < n => d[x] = c[x]
  /\ \A x \in Slot : x > n => x - 1 \in Slot /\ d[x] = IF n < k THEN c[x - 1] ELSE c[x]

LEMMA InsertIs ==
  ASSUME NEW c \in Table, NEW k \in 0 .. 3, InFront(c, k),
         NEW start \in Nat, NEW total \in Nat, start < Sectors, total < Sectors,
         CanInsert(c, start, total),
         NEW n, n = InsertAt(c, start, total), NEW e, e = NewEntry(c, n, start, total)
  PROVE  Inserted(c, k, n, e, InsertPartition(c, start, total))
<1> DEFINE d == InsertPartition(c, start, total)
<1>1. n \in 0 .. k /\ n \in Slot
  BY InsertStops
<1>2. Searched(c) = k
  <2>1. k \in 0 .. 4
    OBVIOUS
  <2> QED
    BY <2>1, EntriesAre
<1>3. ~(n < k /\ StartPassed(c, n, start))
  BY <1>2 DEF CanInsert
<1>4. e \in Entry /\ ~e.active
  BY <1>3, NewEntryIs
<1>5. d = IF n < k THEN MoveUp(c, n, e) ELSE [c EXCEPT ![n] = e]
  BY <1>2 DEF InsertPartition
<1>6. \A x \in Slot : c[x] \in Entry
  BY DEF Table
<1>7. \A x \in Slot : x > n => x - 1 \in Slot
  BY <1>1, Slots
<1>8. CASE n < k
  <2>1. d = [x \in Slot |-> IF x < n THEN c[x] ELSE IF x = n THEN e ELSE c[x - 1]]
    BY <1>5, <1>8 DEF MoveUp
  <2>2. \A x \in Slot : x < n \/ x = n \/ x > n
    BY <1>1, Slots
  <2>3. d \in Table
    BY <1>4, <1>6, <1>7, <2>1, <2>2 DEF Table
  <2>4. /\ d[n] = e /\ \A x \in Slot : x < n => d[x] = c[x]
        /\ \A x \in Slot : x > n => d[x] = c[x - 1]
    BY <1>1, <2>1, Slots
  <2> HIDE DEF d
  <2> QED
    BY <1>1, <1>4, <1>7, <1>8, <2>3, <2>4 DEF Inserted, d
<1>9. CASE ~(n < k)
  <2>1. d = [c EXCEPT ![n] = e]
    BY <1>5, <1>9
  <2>2. d \in Table
    BY <1>4, <2>1 DEF Table
  <2>3. d[n] = e /\ \A x \in Slot : x # n => d[x] = c[x]
    BY <1>1, <2>1 DEF Table
  <2>4. /\ \A x \in Slot : x < n => d[x] = c[x]
        /\ \A x \in Slot : x > n => d[x] = c[x]
    BY <1>1, <2>3, Slots
  <2> HIDE DEF d
  <2> QED
    BY <1>1, <1>4, <1>7, <1>9, <2>2, <2>3, <2>4 DEF Inserted, d
<1> QED
  BY <1>8, <1>9

LEMMA InsertMarks ==
  ASSUME NEW c, NEW k \in 0 .. 3, NEW n, NEW e, NEW d, Inserted(c, k, n, e, d), MarkedOnce(c)
  PROVE  MarkedOnce(d)
<1> SUFFICES ASSUME NEW x \in Slot, NEW y \in Slot, d[x].active, d[y].active PROVE x = y
  BY DEF MarkedOnce
<1>1. x # n /\ y # n
  BY DEF Inserted
<1> DEFINE From(z) == IF n < k /\ z > n THEN z - 1 ELSE z
<1>2. /\ From(x) \in Slot /\ d[x] = c[From(x)]
      /\ From(y) \in Slot /\ d[y] = c[From(y)]
  <2>1. ASSUME NEW z \in Slot, z # n PROVE From(z) \in Slot /\ d[z] = c[From(z)]
    <3>1. CASE z < n
      BY <3>1, Slots DEF Inserted
    <3>2. CASE z > n
      BY <3>2, Slots DEF Inserted
    <3> QED
      BY <2>1, <3>1, <3>2, Slots DEF Inserted
  <2> QED
    BY <1>1, <2>1
<1>3. From(x) = From(y)
  <2> HIDE DEF From
  <2>1. c[From(x)].active /\ c[From(y)].active
    BY <1>2
  <2> QED
    BY <1>2, <2>1 DEF MarkedOnce
<1>4. n \in Slot /\ n \in 0 .. k
  BY DEF Inserted
<1> QED
  BY <1>1, <1>3, <1>4, Slots

(* Where the entries of c are in d.                                        *)
LEMMA InsertMoves ==
  ASSUME NEW c, NEW k \in 0 .. 3, InFront(c, k), NEW n, NEW e, NEW d, Inserted(c, k, n, e, d)
  PROVE  /\ \A y \in Slot : y < k => \E x \in Slot : x # n /\ d[x] = c[y]
         /\ \A x \in Slot : x > k => ~InUse(d[x])
         /\ \A x \in Slot : x < n => d[x] = c[x] /\ InUse(c[x])
         /\ \A x \in Slot : x > n /\ x <= k => x - 1 \in Slot /\ d[x] = c[x - 1] /\ InUse(c[x - 1])
<1>1. n \in 0 .. k /\ n \in Slot
  BY DEF Inserted
<1>2. \A x \in Slot : x > n => x - 1 \in Slot /\ d[x] = IF n < k THEN c[x - 1] ELSE c[x]
  BY DEF Inserted
<1>3. \A x \in Slot : x < n => d[x] = c[x] /\ InUse(c[x])
  BY <1>1, Slots DEF Inserted, InFront
<1>4. \A x \in Slot : x > n /\ x <= k => x - 1 \in Slot /\ d[x] = c[x - 1] /\ InUse(c[x - 1])
  BY <1>1, <1>2, Slots DEF InFront
<1>5. \A x \in Slot : x > k => ~InUse(d[x])
  BY <1>1, <1>2, Slots DEF InFront
<1>6. ASSUME NEW y \in Slot, y < k PROVE \E x \in Slot : x # n /\ d[x] = c[y]
  <2>1. CASE y < n
    BY <1>1, <1>3, <2>1, Slots
  <2>2. CASE y >= n
    <3>1. y + 1 \in Slot /\ y + 1 > n /\ y + 1 <= k /\ (y + 1) - 1 = y
      BY <1>1, <1>6, <2>2, Slots
    <3>2. d[y + 1] = c[y]
      BY <1>4, <3>1
    <3> QED
      BY <1>1, <3>1, <3>2, Slots
  <2> QED
    BY <1>1, <2>1, <2>2, Slots
<1> QED
  BY <1>3, <1>4, <1>5, <1>6

LEMMA InsertKeeps ==
  ASSUME NEW c, NEW k \in 0 .. 3, InFront(c, k), NEW n, NEW e, NEW d, Inserted(c, k, n, e, d)
  PROVE  /\ InUse(e) => Used(c) \subseteq Used(d) /\ Cardinality(UsedSlots(d)) = k + 1
         /\ ~InUse(e) => StartsOf(d) \subseteq StartsOf(c)
<1>1. n \in 0 .. k /\ n \in Slot /\ d[n] = e
  BY DEF Inserted
<1>2. /\ \A y \in Slot : y < k => \E x \in Slot : x # n /\ d[x] = c[y]
      /\ \A x \in Slot : x > k => ~InUse(d[x])
      /\ \A x \in Slot : x < n => d[x] = c[x] /\ InUse(c[x])
      /\ \A x \in Slot : x > n /\ x <= k =>
           x - 1 \in Slot /\ d[x] = c[x - 1] /\ InUse(c[x - 1])
  BY InsertMoves
<1>3. Used(c) \subseteq Used(d)
  <2> SUFFICES ASSUME NEW y \in Slot, InUse(c[y]) PROVE c[y] \in Used(d)
    BY DEF Used, UsedSlots
  <2>1. PICK x \in Slot : d[x] = c[y]
    BY <1>2 DEF InFront
  <2> QED
    BY <2>1 DEF Used, UsedSlots
<1>4. ASSUME InUse(e) PROVE Cardinality(UsedSlots(d)) = k + 1
  <2>1. \A x \in Slot : InUse(d[x]) <=> x < k + 1
    BY <1>1, <1>2, <1>4, Slots
  <2>2. k + 1 \in 0 .. 4
    OBVIOUS
  <2> QED
    BY <2>1, <2>2, UsedInFront
<1>5. ASSUME ~InUse(e) PROVE StartsOf(d) \subseteq StartsOf(c)
  <2> SUFFICES ASSUME NEW x \in Slot, InUse(d[x]) PROVE d[x].start \in StartsOf(c)
    BY DEF StartsOf
  <2>1. x # n /\ x <= k
    BY <1>1, <1>2, <1>5, Slots
  <2>2. PICK y \in Slot : d[x] = c[y] /\ InUse(c[y])
    BY <1>1, <1>2, <2>1, Slots
  <2> QED
    BY <2>2 DEF StartsOf
<1> QED
  BY <1>3, <1>4, <1>5

(* The place in the order, and what surrounds it.                          *)
LEMMA InsertBetween ==
  ASSUME NEW c \in Table, NEW k \in 0 .. 3, InFront(c, k), Ordered(c), Proper(c),
         NEW start \in Nat, NEW total \in Nat, start < Sectors, total < Sectors,
         CanInsert(c, start, total),
         NEW n, n = InsertAt(c, start, total), NEW e, e = NewEntry(c, n, start, total)
  PROVE  /\ \A x \in Slot : x < n => c[x].start <= e.start
         /\ \A x \in Slot : n <= x /\ x < k => e.start <= c[x].start
         /\ start = 0 /\ Disjoint(c) =>
              /\ \A x \in Slot : x < n => c[x].start + c[x].total <= e.start
              /\ \A x \in Slot : n <= x /\ x < k => e.start + e.total <= c[x].start
<1>1. /\ n \in 0 .. k /\ n \in Slot
      /\ \A x \in 0 .. n - 1 : ~StopsAt(c, x, start, total)
      /\ n < k => StopsAt(c, n, start, total)
  BY InsertStops
<1>2. Searched(c) = k
  <2>1. k \in 0 .. 4
    OBVIOUS
  <2> QED
    BY <2>1, EntriesAre
<1>3. ~(n < k /\ StartPassed(c, n, start))
  BY <1>2 DEF CanInsert
<1>4. /\ e.start = IF start # 0 THEN start ELSE CurSector(c, n)
      /\ n < k => e.total = IF total # 0 THEN MinSize(total) ELSE c[n].start - CurSector(c, n)
  BY <1>3, NewEntryIs
<1>5. \A x \in Slot : c[x].start \in Nat /\ c[x].total \in Nat
  BY EntryType
<1>6. \A x \in Slot : x < k => InUse(c[x]) /\ c[x].total > 0 /\ c[x].start + c[x].total < DWord
  BY <1>5, Sizing DEF InFront, Proper, OnDisk
<1>7. \A x, y \in Slot : x < y /\ y < k => c[x].start <= c[y].start
  BY <1>6, Slots DEF Ordered
<1>8. n > 0 => /\ n - 1 \in Slot /\ n - 1 < k
               /\ CurSector(c, n) = c[n - 1].start + c[n - 1].total
  <2> SUFFICES ASSUME n > 0
               PROVE  /\ n - 1 \in Slot /\ n - 1 < k
                      /\ CurSector(c, n) = c[n - 1].start + c[n - 1].total
    OBVIOUS
  <2>1. n - 1 \in Slot /\ n - 1 < k /\ c[n - 1] \in Entry
    BY <1>1, Slots DEF Table
  <2>2. c[n - 1].start + c[n - 1].total < DWord
    BY <1>6, <2>1
  <2> QED
    BY <2>1, <2>2, EndType DEF CurSector
<1>9. CurSector(c, n) \in Nat
  BY <1>1, CurSectorType, Sizing
<1>10. n < k => c[n].start > e.start
  <2> SUFFICES ASSUME n < k PROVE c[n].start > e.start
    OBVIOUS
  <2> QED
    BY <1>1, <1>4, <1>5, <1>9 DEF StopsAt, StartPassed, GapFits, StartBefore
<1>11. ASSUME NEW x \in Slot, n <= x, x < k PROVE e.start <= c[x].start /\ c[n].start <= c[x].start
  <2>1. c[n].start <= c[x].start
    BY <1>1, <1>5, <1>7, <1>11, Slots
  <2>2. e.start \in Nat /\ n < k
    BY <1>1, <1>4, <1>9, <1>11, Slots
  <2>3. c[n].start \in Nat /\ c[x].start \in Nat
    BY <1>1, <1>5
  <2>4. c[n].start > e.start
    BY <1>10, <2>2
  <2> QED
    BY <2>1, <2>2, <2>3, <2>4
<1>12. ASSUME NEW x \in Slot, x < n PROVE c[x].start <= e.start
  <2>1. CASE start # 0
    <3>1. ~StopsAt(c, x, start, total)
      BY <1>1, <1>12, Slots
    <3> QED
      BY <1>4, <1>5, <2>1, <3>1 DEF StopsAt, StartBefore
  <2>2. CASE start = 0
    <3>1. c[x].start <= c[n - 1].start
      BY <1>1, <1>5, <1>7, <1>8, <1>12, Slots
    <3> QED
      BY <1>1, <1>4, <1>5, <1>8, <1>12, <2>2, <3>1, Slots
  <2> QED
    BY <2>1, <2>2
<1>13. ASSUME start = 0, Disjoint(c), NEW x \in Slot, x < n
       PROVE  c[x].start + c[x].total <= e.start
  <2>1. n - 1 \in Slot /\ n - 1 < k /\ e.start = c[n - 1].start + c[n - 1].total
    BY <1>1, <1>4, <1>8, <1>13, Slots
  <2>2. CASE x = n - 1
    BY <2>1, <2>2, <1>5
  <2>3. CASE x # n - 1
    <3>1. c[x].start <= c[n - 1].start /\ Apart(c[x], c[n - 1])
      <4>1. x < n - 1 /\ x < k
        BY <1>1, <1>13, <2>1, <2>3, Slots
      <4> QED
        BY <1>6, <1>7, <1>13, <2>1, <2>3, <4>1 DEF Disjoint
    <3> QED
      BY <1>5, <1>6, <2>1, <3>1 DEF Apart
  <2> QED
    BY <2>2, <2>3
<1>14. ASSUME start = 0, Disjoint(c), NEW x \in Slot, n <= x, x < k
       PROVE  e.start + e.total <= c[x].start
  <2>1. n < k /\ c[n].start <= c[x].start
    <3>1. c[n].start <= c[x].start
      BY <1>11, <1>14
    <3> QED
      BY <1>1, <1>14, <3>1, Slots
  <2>2. GapFits(c, n, start, total)
    BY <1>1, <1>14, <2>1 DEF StopsAt, StartPassed, StartBefore
  <2>3. e.total <= c[n].start - CurSector(c, n)
    BY <1>1, <1>4, <1>5, <1>9, <2>1, <2>2 DEF GapFits
  <2>4. e.total \in Int /\ e.start = CurSector(c, n)
    BY <1>1, <1>4, <1>5, <1>9, <1>14, <2>1, Sizing DEF MinSize
  <2> QED
    BY <1>1, <1>5, <1>9, <2>1, <2>3, <2>4
<1> QED
  BY <1>11, <1>12, <1>13, <1>14

LEMMA InsertOrdered ==
  ASSUME NEW c \in Table, NEW k \in 0 .. 3, InFront(c, k), Ordered(c), Proper(c),
         NEW start \in Nat, NEW total \in Nat, start < Sectors, total < Sectors,
         CanInsert(c, start, total), NEW d, d = InsertPartition(c, start, total)
  PROVE  Ordered(d) /\ (start = 0 /\ Disjoint(c) => Disjoint(d))
<1>1. PICK n, e : n = InsertAt(c, start, total) /\ e = NewEntry(c, n, start, total)
  OBVIOUS
<1>2. Inserted(c, k, n, e, d)
  BY <1>1, InsertIs
<1>3. /\ \A x \in Slot : x < n => c[x].start <= e.start
      /\ \A x \in Slot : n <= x /\ x < k => e.start <= c[x].start
      /\ start = 0 /\ Disjoint(c) =>
           /\ \A x \in Slot : x < n => c[x].start + c[x].total <= e.start
           /\ \A x \in Slot : n <= x /\ x < k => e.start + e.total <= c[x].start
  BY <1>1, InsertBetween
<1>4. /\ \A x \in Slot : x > k => ~InUse(d[x])
      /\ \A x \in Slot : x < n => d[x] = c[x] /\ InUse(c[x])
      /\ \A x \in Slot : x > n /\ x <= k =>
           x - 1 \in Slot /\ d[x] = c[x - 1] /\ InUse(c[x - 1])
  BY <1>2, InsertMoves
<1>5. n \in 0 .. k /\ n \in Slot /\ d[n] = e
  BY <1>2 DEF Inserted
<1>6. ASSUME NEW x \in Slot, InUse(d[x])
      PROVE  \/ x < n /\ d[x] = c[x] /\ InUse(c[x])
             \/ x = n /\ d[x] = e
             \/ x > n /\ x - 1 \in Slot /\ n <= x - 1 /\ x - 1 < k
                /\ d[x] = c[x - 1] /\ InUse(c[x - 1])
  BY <1>4, <1>5, <1>6, Slots
<1>7. \A x, y \in Slot : x < y /\ InUse(c[x]) /\ InUse(c[y]) => c[x].start <= c[y].start
  BY DEF Ordered
<1>8. Ordered(d)
  <2> SUFFICES ASSUME NEW x \in Slot, NEW y \in Slot, x < y, InUse(d[x]), InUse(d[y])
               PROVE  d[x].start <= d[y].start
    BY DEF Ordered
  <2>1. CASE x < n /\ y < n
    <3>1. d[x] = c[x] /\ d[y] = c[y] /\ InUse(c[x]) /\ InUse(c[y])
      BY <1>5, <1>6, <2>1, Slots
    <3> QED
      BY <1>7, <3>1
  <2>2. CASE x < n /\ y = n
    BY <1>3, <1>6, <2>2, Slots
  <2>3. CASE x < n /\ y > n
    BY <1>5, <1>6, <1>7, <2>3, Slots
  <2>4. CASE x = n /\ y > n
    BY <1>3, <1>6, <2>4, Slots
  <2>5. CASE x > n /\ y > n
    <3>1. x - 1 < y - 1
      BY Slots
    <3>2. x - 1 \in Slot /\ y - 1 \in Slot /\ d[x] = c[x - 1] /\ d[y] = c[y - 1]
          /\ InUse(c[x - 1]) /\ InUse(c[y - 1])
      BY <1>5, <1>6, <2>5, Slots
    <3> QED
      BY <1>7, <3>1, <3>2
  <2> QED
    BY <1>5, <2>1, <2>2, <2>3, <2>4, <2>5, Slots
<1>9. ASSUME start = 0, Disjoint(c) PROVE Disjoint(d)
  <2>1. \A x, y \in Slot : x # y /\ InUse(c[x]) /\ InUse(c[y]) => Apart(c[x], c[y])
    BY <1>9 DEF Disjoint
  <2>2. ASSUME NEW x \in Slot, NEW y \in Slot, x < y, InUse(d[x]), InUse(d[y])
        PROVE  Apart(d[x], d[y]) /\ Apart(d[y], d[x])
    <3>1. CASE x < n /\ y < n
      <4>1. d[x] = c[x] /\ d[y] = c[y] /\ InUse(c[x]) /\ InUse(c[y]) /\ x # y
        BY <1>5, <1>6, <2>2, <3>1, Slots
      <4> QED
        BY <2>1, <4>1
    <3>2. CASE x < n /\ y = n
      BY <1>3, <1>6, <1>9, <2>2, <3>2, Slots DEF Apart
    <3>3. CASE x < n /\ y > n
      <4>1. x # y - 1
        BY <1>5, <2>2, <3>3, Slots
      <4>2. d[x] = c[x] /\ d[y] = c[y - 1] /\ InUse(c[x]) /\ InUse(c[y - 1]) /\ y - 1 \in Slot
        BY <1>5, <1>6, <2>2, <3>3, Slots
      <4> QED
        BY <2>1, <4>1, <4>2
    <3>4. CASE x = n /\ y > n
      BY <1>3, <1>6, <1>9, <2>2, <3>4, Slots DEF Apart
    <3>5. CASE x > n /\ y > n
      <4>1. x - 1 # y - 1
        BY <2>2, Slots
      <4>2. d[x] = c[x - 1] /\ d[y] = c[y - 1] /\ InUse(c[x - 1]) /\ InUse(c[y - 1])
            /\ x - 1 \in Slot /\ y - 1 \in Slot
        BY <1>5, <1>6, <2>2, <3>5, Slots
      <4> QED
        BY <2>1, <4>1, <4>2
    <3> QED
      BY <1>5, <2>2, <3>1, <3>2, <3>3, <3>4, <3>5, Slots
  <2> QED
    BY <2>2, Slots DEF Disjoint
<1> QED
  BY <1>8, <1>9

-----------------------------------------------------------------------------
(* What the storage manager lists of a table.                              *)
Members(s) == {s[i] : i \in 1 .. Len(s)}

LEMMA ConcatMembers ==
  ASSUME NEW S, NEW a \in Seq(S), NEW b \in Seq(S)
  PROVE  a \o b \in Seq(S) /\ Members(a \o b) = Members(a) \cup Members(b)
<1>1. /\ a \o b \in Seq(S) /\ Len(a \o b) = Len(a) + Len(b)
      /\ \A i \in 1 .. Len(a) + Len(b) :
           (a \o b)[i] = IF i <= Len(a) THEN a[i] ELSE b[i - Len(a)]
      /\ Len(a) \in Nat /\ Len(b) \in Nat
  BY ConcatProperties, LenProperties
<1> DEFINE c == a \o b
<1>2. ASSUME NEW i \in 1 .. Len(a) PROVE a[i] \in Members(c)
  <2>1. i \in 1 .. Len(c) /\ c[i] = a[i]
    BY <1>1
  <2> HIDE DEF c
  <2> QED
    BY <2>1 DEF Members
<1>3. ASSUME NEW i \in 1 .. Len(b) PROVE b[i] \in Members(c)
  <2>1. PICK j \in 1 .. Len(a) + Len(b) : j = i + Len(a) /\ j > Len(a) /\ j - Len(a) = i
    BY <1>1
  <2>2. j \in 1 .. Len(c) /\ c[j] = b[i]
    BY <1>1, <2>1
  <2> HIDE DEF c
  <2> QED
    BY <2>2 DEF Members
<1>4. ASSUME NEW i \in 1 .. Len(c) PROVE c[i] \in Members(a) \cup Members(b)
  <2>1. CASE i <= Len(a)
    <3>1. i \in 1 .. Len(a) /\ c[i] = a[i]
      BY <1>1, <2>1
    <3> QED
      BY <3>1 DEF Members
  <2>2. CASE i > Len(a)
    <3>1. i - Len(a) \in 1 .. Len(b) /\ c[i] = b[i - Len(a)]
      BY <1>1, <2>2
    <3> QED
      BY <3>1 DEF Members
  <2> QED
    BY <1>1, <2>1, <2>2
<1>5. \A x : x \in Members(c) => x \in Members(a) \cup Members(b)
  <2> HIDE DEF c
  <2> QED
    BY <1>4 DEF Members
<1>6. \A x : x \in Members(a) => x \in Members(c)
  <2> HIDE DEF c
  <2> QED
    BY <1>2 DEF Members
<1>7. \A x : x \in Members(b) => x \in Members(c)
  <2> HIDE DEF c
  <2> QED
    BY <1>3 DEF Members
<1> QED
  BY <1>1, <1>5, <1>6, <1>7

LEMMA PartitionsAre ==
  ASSUME NEW t \in Table
  PROVE  PartitionsOf(t) \in Seq(0 .. DWord - 1) /\ Members(PartitionsOf(t)) = StartsOf(t)
<1> DEFINE S == 0 .. DWord - 1
           P(x) == IF InUse(t[x]) THEN <<t[x].start>> ELSE <<>>
           M(x) == IF InUse(t[x]) THEN {t[x].start} ELSE {}
<1>1. ASSUME NEW x \in Slot PROVE P(x) \in Seq(S) /\ Members(P(x)) = M(x)
  <2>1. t[x].start \in S
    BY EntryType
  <2>2. \A v \in S : <<v>> \in Seq(S) /\ Members(<<v>>) = {v}
    BY DEF Members
  <2>3. <<>> \in Seq(S) /\ Members(<<>>) = {}
    BY DEF Members
  <2> HIDE DEF S
  <2> QED
    BY <2>1, <2>2, <2>3
<1>2. 0 \in Slot /\ 1 \in Slot /\ 2 \in Slot /\ 3 \in Slot
  BY Slots
<1>3. PartitionsOf(t) = ((P(0) \o P(1)) \o P(2)) \o P(3)
  BY DEF PartitionsOf
<1> HIDE DEF P, S, M
<1>4. P(0) \o P(1) \in Seq(S) /\ Members(P(0) \o P(1)) = M(0) \cup M(1)
  BY <1>1, <1>2, ConcatMembers
<1>5. PICK a : a = P(0) \o P(1)
  OBVIOUS
<1>6. a \in Seq(S) /\ Members(a) = M(0) \cup M(1)
  BY <1>4, <1>5
<1>7. a \o P(2) \in Seq(S) /\ Members(a \o P(2)) = (M(0) \cup M(1)) \cup M(2)
  BY <1>1, <1>2, <1>6, ConcatMembers
<1>8. PICK b : b = a \o P(2)
  OBVIOUS
<1>9. b \in Seq(S) /\ Members(b) = (M(0) \cup M(1)) \cup M(2)
  BY <1>7, <1>8
<1>10. b \o P(3) \in Seq(S) /\ Members(b \o P(3)) = ((M(0) \cup M(1)) \cup M(2)) \cup M(3)
  BY <1>1, <1>2, <1>9, ConcatMembers
<1>11. PartitionsOf(t) = b \o P(3)
  BY <1>3, <1>5, <1>8
<1>12. StartsOf(t) = ((M(0) \cup M(1)) \cup M(2)) \cup M(3)
  BY Slots DEF StartsOf, M
<1> QED
  BY <1>10, <1>11, <1>12 DEF S

-----------------------------------------------------------------------------
(* Commands that change the entries in place.                              *)
LEMMA SameExtents ==
  ASSUME NEW t, NEW d, \A x \in Slot : d[x].start = t[x].start /\ d[x].total = t[x].total
  PROVE  /\ StartsOf(d) = StartsOf(t)
         /\ Ordered(t) => Ordered(d)
         /\ Disjoint(t) => Disjoint(d)
<1>1. \A x \in Slot : InUse(d[x]) <=> InUse(t[x])
  BY DEF InUse
<1>2. StartsOf(d) = StartsOf(t)
  BY <1>1 DEF StartsOf
<1>3. Ordered(t) => Ordered(d)
  BY <1>1 DEF Ordered
<1>4. Disjoint(t) => Disjoint(d)
  BY <1>1 DEF Disjoint, Apart
<1> QED
  BY <1>2, <1>3, <1>4

LEMMA ActivatedIs ==
  ASSUME NEW t \in Table, NEW g \in Slot, NEW d,
         d = [x \in Slot |-> [t[x] EXCEPT !.active = (x = g)]]
  PROVE  /\ d \in Table /\ MarkedOnce(d)
         /\ StartsOf(d) = StartsOf(t)
         /\ Ordered(t) => Ordered(d)
         /\ Disjoint(t) => Disjoint(d)
<1>1. ASSUME NEW e \in Entry, NEW b \in BOOLEAN
      PROVE  /\ [e EXCEPT !.active = b] \in Entry
             /\ [e EXCEPT !.active = b].active = b
             /\ [e EXCEPT !.active = b].start = e.start
             /\ [e EXCEPT !.active = b].total = e.total
  BY <1>1 DEF Entry
<1>2. ASSUME NEW x \in Slot
      PROVE  /\ d[x] \in Entry /\ (d[x].active <=> x = g)
             /\ d[x].start = t[x].start /\ d[x].total = t[x].total
  <2>1. d[x] = [t[x] EXCEPT !.active = (x = g)] /\ t[x] \in Entry
    BY DEF Table
  <2>2. PICK b \in BOOLEAN : b = (x = g)
    OBVIOUS
  <2>3. d[x] = [t[x] EXCEPT !.active = b]
    BY <2>1, <2>2, Zenon
  <2>4. PICK e \in Entry : e = t[x]
    BY <2>1
  <2>5. d[x] = [e EXCEPT !.active = b]
    BY <2>3, <2>4, Zenon
  <2>6. PICK f : f = [e EXCEPT !.active = b]
    OBVIOUS
  <2>7. f \in Entry /\ f.active = b /\ f.start = e.start /\ f.total = e.total
    BY <1>1, <2>6
  <2>8. d[x] = f
    BY <2>5, <2>6, Zenon
  <2> QED
    BY <2>2, <2>4, <2>7, <2>8, Zenon
<1>3. d \in Table
  BY <1>2 DEF Table
<1>4. MarkedOnce(d)
  BY <1>2 DEF MarkedOnce
<1>5. \A x \in Slot : d[x].start = t[x].start /\ d[x].total = t[x].total
  BY <1>2
<1>6. StartsOf(d) = StartsOf(t) /\ (Ordered(t) => Ordered(d)) /\ (Disjoint(t) => Disjoint(d))
  BY <1>5, SameExtents, Zenon
<1> QED
  BY <1>3, <1>4, <1>6

LEMMA TypedIs ==
  ASSUME NEW t \in Table, NEW fs \in FileSystem
  PROVE  \A d : d = [t EXCEPT ![0].fs = fs] =>
           /\ d \in Table /\ (MarkedOnce(t) => MarkedOnce(d))
           /\ StartsOf(d) = StartsOf(t)
           /\ Ordered(t) => Ordered(d)
           /\ Disjoint(t) => Disjoint(d)
<1>1. ASSUME NEW d, d = [t EXCEPT ![0].fs = fs], NEW x \in Slot
      PROVE  /\ d \in [Slot -> Entry] /\ d[x].active = t[x].active
             /\ d[x].start = t[x].start /\ d[x].total = t[x].total
  <2>1. t[x] \in Entry /\ 0 \in Slot
    BY Slots DEF Table
  <2>2. d[x] = t[x] \/ d[x] = [t[x] EXCEPT !.fs = fs]
    BY <1>1, <2>1 DEF Table
  <2>3. /\ d[x].active = t[x].active
        /\ d[x].start = t[x].start /\ d[x].total = t[x].total
    BY <2>1, <2>2 DEF Entry
  <2>4. [t[0] EXCEPT !.fs = fs] \in Entry
    BY <2>1 DEF Entry, Table
  <2>5. d = [t EXCEPT ![0] = [t[0] EXCEPT !.fs = fs]]
    BY <1>1
  <2>6. d \in [Slot -> Entry]
    BY <2>1, <2>4, <2>5 DEF Table
  <2> QED
    BY <2>3, <2>6
<1>2. ASSUME NEW d, d \in [Slot -> Entry],
             \A x \in Slot : /\ d[x].active = t[x].active
                             /\ d[x].start = t[x].start /\ d[x].total = t[x].total
      PROVE  /\ d \in Table /\ (MarkedOnce(t) => MarkedOnce(d))
             /\ StartsOf(d) = StartsOf(t)
             /\ Ordered(t) => Ordered(d)
             /\ Disjoint(t) => Disjoint(d)
  <2>1. d \in Table
    BY <1>2 DEF Table
  <2>2. MarkedOnce(t) => MarkedOnce(d)
    BY <1>2 DEF MarkedOnce
  <2>3. StartsOf(d) = StartsOf(t) /\ (Ordered(t) => Ordered(d)) /\ (Disjoint(t) => Disjoint(d))
    BY <1>2, SameExtents
  <2> QED
    BY <2>1, <2>2, <2>3
<1> QED
  <2> SUFFICES ASSUME NEW d
               PROVE  d = [t EXCEPT ![0].fs = fs] =>
                        /\ d \in Table /\ (MarkedOnce(t) => MarkedOnce(d))
                        /\ StartsOf(d) = StartsOf(t)
                        /\ Ordered(t) => Ordered(d)
                        /\ Disjoint(t) => Disjoint(d)
    OBVIOUS
  <2>1. CASE d = [t EXCEPT ![0].fs = fs]
    <3>1. /\ d \in [Slot -> Entry]
          /\ \A x \in Slot : /\ d[x].active = t[x].active
                             /\ d[x].start = t[x].start /\ d[x].total = t[x].total
      <4>1. 0 \in Slot
        BY Slots
      <4> QED
        BY <1>1, <2>1, <4>1, Zenon
    <3> QED
      BY <1>2, <3>1, Zenon
  <2> QED
    BY <2>1

(* A table from which entry g is taken.                                    *)
LEMMA RemovedIs ==
  ASSUME NEW t \in Table, NEW g \in Slot, NEW d, d = [t EXCEPT ![g] = NoEntry]
  PROVE  /\ d \in Table /\ (MarkedOnce(t) => MarkedOnce(d))
         /\ StartsOf(d) \subseteq StartsOf(t)
         /\ Ordered(t) => Ordered(d)
         /\ Disjoint(t) => Disjoint(d)
         /\ InUse(t[g]) => /\ Used(d) \cup {t[g]} = Used(t)
                           /\ Cardinality(UsedSlots(d)) - Cardinality(UsedSlots(t)) = -1
<1>1. d[g] = NoEntry /\ \A x \in Slot : x # g => d[x] = t[x]
  BY DEF Table
<1>2. d \in Table
  BY NoEntryType DEF Table
<1>3. \A x \in Slot : InUse(d[x]) => x # g /\ d[x] = t[x]
  BY <1>1, NoEntryType
<1>4. \A x \in Slot : x # g => d[x] = t[x]
  BY <1>1
<1>5. MarkedOnce(t) => MarkedOnce(d)
  BY <1>1, NoEntryType DEF MarkedOnce
<1>6. StartsOf(d) \subseteq StartsOf(t)
  <2> SUFFICES ASSUME NEW x \in Slot, InUse(d[x]) PROVE d[x].start \in StartsOf(t)
    BY DEF StartsOf
  <2> QED
    BY <1>3 DEF StartsOf
<1>7. Ordered(t) => Ordered(d)
  BY <1>3 DEF Ordered
<1>8. Disjoint(t) => Disjoint(d)
  BY <1>3 DEF Disjoint
<1>9. ASSUME InUse(t[g])
      PROVE  /\ Used(d) \cup {t[g]} = Used(t)
             /\ Cardinality(UsedSlots(d)) - Cardinality(UsedSlots(t)) = -1
  <2>1. UsedSlots(d) = UsedSlots(t) \ {g}
    BY <1>3, <1>4 DEF UsedSlots
  <2>2. Used(d) \cup {t[g]} = Used(t)
    <3>1. ASSUME NEW e \in Used(d) PROVE e \in Used(t)
      BY <1>3 DEF Used, UsedSlots
    <3>2. t[g] \in Used(t)
      BY <1>9 DEF Used, UsedSlots
    <3>3. ASSUME NEW e \in Used(t), e # t[g] PROVE e \in Used(d)
      <4>1. PICK x \in Slot : InUse(t[x]) /\ e = t[x]
        BY DEF Used, UsedSlots
      <4>2. x # g /\ d[x] = t[x]
        BY <1>4, <3>3, <4>1
      <4> QED
        BY <4>1, <4>2 DEF Used, UsedSlots
    <3> QED
      BY <3>1, <3>2, <3>3
  <2>3. IsFiniteSet(UsedSlots(t)) /\ g \in UsedSlots(t)
    BY <1>9, UsedFinite DEF UsedSlots
  <2>4. Cardinality(UsedSlots(d)) = Cardinality(UsedSlots(t)) - 1
    BY <2>1, <2>3, FS_RemoveElement
  <2>5. Cardinality(UsedSlots(t)) \in Nat
    BY <2>3, FS_CardinalityType
  <2>6. \A i \in Nat : (i - 1) - i = -1
    OBVIOUS
  <2> QED
    BY <2>2, <2>4, <2>5, <2>6
<1> QED
  BY <1>2, <1>5, <1>6, <1>7, <1>8, <1>9

LEMMA DeletedIs ==
  ASSUME NEW t \in Table, NEW g \in Slot, NEW d, d = CompactMBR([t EXCEPT ![g] = NoEntry])
  PROVE  /\ d \in Table /\ (MarkedOnce(t) => MarkedOnce(d))
         /\ StartsOf(d) \subseteq StartsOf(t)
         /\ Ordered(t) => Ordered(d)
         /\ Disjoint(t) => Disjoint(d)
         /\ InUse(t[g]) => /\ Used(d) \cup {t[g]} = Used(t)
                           /\ Cardinality(UsedSlots(d)) - Cardinality(UsedSlots(t)) = -1
<1>1. PICK u : u = [t EXCEPT ![g] = NoEntry]
  OBVIOUS
<1>2. /\ u \in Table /\ (MarkedOnce(t) => MarkedOnce(u))
      /\ StartsOf(u) \subseteq StartsOf(t)
      /\ Ordered(t) => Ordered(u)
      /\ Disjoint(t) => Disjoint(u)
      /\ InUse(t[g]) => /\ Used(u) \cup {t[g]} = Used(t)
                        /\ Cardinality(UsedSlots(u)) - Cardinality(UsedSlots(t)) = -1
  BY <1>1, RemovedIs
<1>3. d = CompactMBR(u)
  BY <1>1
<1>4. /\ d \in Table
      /\ MarkedOnce(u) => MarkedOnce(d)
      /\ Used(d) = Used(u) /\ StartsOf(d) = StartsOf(u)
      /\ Cardinality(UsedSlots(d)) = Cardinality(UsedSlots(u))
      /\ Ordered(u) => Ordered(d)
      /\ Disjoint(u) => Disjoint(d)
  BY <1>2, <1>3, CompactKeeps
<1> QED
  BY <1>2, <1>4

(* The table that CREATE writes.                                           *)
LEMMA CreatedIs ==
  ASSUME NEW t \in Table, NEW c, c = CompactMBR(t), NEW start \in Nat, NEW total \in Nat,
         Acceptable(c, start, total), CanInsert(c, start, total),
         NEW d, d = InsertPartition(c, start, total)
  PROVE  /\ d \in Table
         /\ MarkedOnce(t) => MarkedOnce(d)
         /\ \/ /\ Used(t) \subseteq Used(d)
               /\ Cardinality(UsedSlots(d)) - Cardinality(UsedSlots(t)) = 1
            \/ StartsOf(d) \subseteq StartsOf(t)
         /\ Proper(t) => Ordered(d) /\ (start = 0 /\ Disjoint(t) => Disjoint(d))
<1>1. /\ c \in Table
      /\ MarkedOnce(t) => MarkedOnce(c)
      /\ Used(c) = Used(t) /\ StartsOf(c) = StartsOf(t)
      /\ Cardinality(UsedSlots(c)) = Cardinality(UsedSlots(t))
      /\ Disjoint(t) => Disjoint(c)
      /\ Proper(t) => Proper(c)
      /\ \E k \in 0 .. 4 : \A y \in Slot : InUse(c[y]) <=> y < k
  BY CompactKeeps
<1>2. PICK k \in 0 .. 4 : InFront(c, k)
  BY <1>1 DEF InFront
<1>3. EntriesInUse(c) = k /\ Cardinality(UsedSlots(c)) = k
  BY <1>2, EntriesAre, UsedInFront DEF InFront
<1>4. Ordered(c) /\ k # 4 /\ start < Sectors /\ total < Sectors
  BY <1>3 DEF Acceptable, MBRIsValid, MAX_PARTTABLE_ENTRIES
<1>5. k \in 0 .. 3
  BY <1>4
<1>6. PICK n, e : n = InsertAt(c, start, total) /\ e = NewEntry(c, n, start, total)
  OBVIOUS
<1>7. Inserted(c, k, n, e, d)
  BY <1>1, <1>2, <1>4, <1>5, <1>6, InsertIs
<1>8. /\ InUse(e) => Used(c) \subseteq Used(d) /\ Cardinality(UsedSlots(d)) = k + 1
      /\ ~InUse(e) => StartsOf(d) \subseteq StartsOf(c)
  BY <1>2, <1>5, <1>7, InsertKeeps
<1>9. MarkedOnce(c) => MarkedOnce(d)
  BY <1>5, <1>7, InsertMarks
<1>10. Proper(c) => Ordered(d) /\ (start = 0 /\ Disjoint(c) => Disjoint(d))
  BY <1>1, <1>2, <1>4, <1>5, InsertOrdered
<1>11. d \in Table
  BY <1>7 DEF Inserted
<1>12. \/ /\ Used(t) \subseteq Used(d)
          /\ Cardinality(UsedSlots(d)) - Cardinality(UsedSlots(t)) = 1
       \/ StartsOf(d) \subseteq StartsOf(t)
  BY <1>1, <1>3, <1>8
<1> QED
  BY <1>1, <1>9, <1>10, <1>11, <1>12

-----------------------------------------------------------------------------
(* Every command keeps the types.                                          *)
LEMMA JunkTyped ==
  ASSUME NEW t, t \in InitMBRs \cup JunkTables
  PROVE  t \in Table
BY DiskAssumption

LEMMA EmptyIs ==
  ASSUME NEW t, t = [x \in Slot |-> NoEntry]
  PROVE  t \in Table /\ MarkedOnce(t) /\ StartsOf(t) = {} /\ Ordered(t) /\ Disjoint(t)
<1>1. \A x \in Slot : t[x] = NoEntry
  OBVIOUS
<1>2. t \in Table
  BY NoEntryType DEF Table
<1> QED
  BY <1>1, <1>2, NoEntryType DEF MarkedOnce, StartsOf, Ordered, Disjoint

LEMMA TypesAre == Types \subseteq FileSystem
BY DiskAssumption

(* A table that CREATE, DELETE, ACTIVE or SETPARTITIONTYPE may leave, or a *)
(* raw write.                                                              *)
MbrSteps ==
  \/ mbr' = mbr
  \/ \E start \in Starts, size \in Sizes :
       /\ Acceptable(CompactMBR(mbr), start, size * SectorsPerMB)
       /\ CanInsert(CompactMBR(mbr), start, size * SectorsPerMB)
       /\ mbr' = InsertPartition(CompactMBR(mbr), start, size * SectorsPerMB)
       /\ CreatePartition(start, size)
  \/ mbr' = CompactMBR([mbr EXCEPT ![gPart] = NoEntry]) /\ DeletePartition
  \/ mbr' = [x \in Slot |-> NoEntry]
  \/ mbr' = [x \in Slot |-> [mbr[x] EXCEPT !.active = (x = gPart)]]
  \/ \E fs \in Types : mbr' = [mbr EXCEPT ![0].fs = fs]
  \/ RawStep /\ mbr' \in JunkTables

LEMMA MbrStep ==
  ASSUME DpNext
  PROVE  MbrSteps
<1>1. CASE SelectObject
  BY <1>1 DEF SelectObject, SelectDisk, SelectPartition, MbrSteps
<1>2. CASE ListObjects \/ DumpMBR \/ DumpPartInfo \/ DeActivatePartition \/ WriteMBRCode
           \/ FixPartOffset \/ FixCRC
  BY <1>2 DEF ListObjects, DumpMBR, DumpPartInfo, DeActivatePartition, WriteMBRCode,
              FixPartOffset, FixCRC, dpVars, MbrSteps
<1>3. ASSUME NEW start \in Starts, NEW size \in Sizes, CreatePartition(start, size)
      PROVE  MbrSteps
  BY <1>3 DEF CreatePartition, CreateFails, WriteMBR, MbrSteps
<1>4. CASE DeletePartition
  BY <1>4 DEF DeletePartition, WriteMBR, MbrSteps
<1>5. CASE DeleteFails \/ CleanFails \/ FormatPartition
  BY <1>5 DEF DeleteFails, CleanFails, FormatPartition, MbrSteps
<1>6. CASE CleanDisk
  BY <1>6 DEF CleanDisk, WriteMBR, MbrSteps
<1>7. CASE ActivatePartition
  BY <1>7 DEF ActivatePartition, WriteMBR, Activated, WriteBootCode, RawStep, MbrSteps
<1>8. ASSUME NEW fs \in Types, SetPartitionType(fs) PROVE MbrSteps
  BY <1>8 DEF SetPartitionType, WriteMBR, MbrSteps
<1>9. ASSUME NEW s \in RawSectors, ZeroSector(s) PROVE MbrSteps
  BY <1>9 DEF ZeroSector, MbrSteps
<1>10. ASSUME NEW s \in RawSectors, WriteBootSector(s) PROVE MbrSteps
  BY <1>10 DEF WriteBootSector, WriteBootCode, RawStep, MbrSteps
<1>11. CASE Leave \/ WinMain
  BY <1>11 DEF Leave, WinMain, MbrSteps
<1> QED
  BY <1>1, <1>2, <1>3, <1>4, <1>5, <1>6, <1>7, <1>8, <1>9, <1>10, <1>11 DEF DpNext, ExecCommand

LEMMA CreateArgs ==
  ASSUME NEW start \in Starts, NEW size \in Sizes
  PROVE  start \in Nat /\ size * SectorsPerMB \in Nat
<1>1. start \in Nat /\ size \in Nat /\ SectorsPerMB \in Nat
  BY DiskAssumption
<1>2. \A i, j \in Nat : i * j \in Nat
  OBVIOUS
<1> QED
  BY <1>1, <1>2

LEMMA MbrTyped ==
  ASSUME mbr \in Table, gPart \in Slot, MbrSteps
  PROVE  mbr' \in Table /\ (TablesMarkedOnce /\ MarkedOnce(mbr) => MarkedOnce(mbr'))
<1> PICK t, d, g : t = mbr /\ d = mbr' /\ g = gPart
  OBVIOUS
<1>1. t \in Table /\ g \in Slot
  OBVIOUS
<1> SUFFICES d \in Table /\ (TablesMarkedOnce /\ MarkedOnce(t) => MarkedOnce(d))
  OBVIOUS
<1>2. CASE d = t
  BY <1>1, <1>2
<1>3. ASSUME NEW start \in Starts, NEW size \in Sizes,
             Acceptable(CompactMBR(t), start, size * SectorsPerMB),
             CanInsert(CompactMBR(t), start, size * SectorsPerMB),
             d = InsertPartition(CompactMBR(t), start, size * SectorsPerMB)
      PROVE  d \in Table /\ (MarkedOnce(t) => MarkedOnce(d))
  <2>1. PICK c, n : c = CompactMBR(t) /\ n = size * SectorsPerMB
    OBVIOUS
  <2>2. start \in Nat /\ n \in Nat
    BY <2>1, CreateArgs
  <2>3. Acceptable(c, start, n) /\ CanInsert(c, start, n) /\ d = InsertPartition(c, start, n)
    BY <1>3, <2>1
  <2> QED
    BY <1>1, <2>1, <2>2, <2>3, CreatedIs
<1>4. CASE d = CompactMBR([t EXCEPT ![g] = NoEntry])
  BY <1>1, <1>4, DeletedIs
<1>5. CASE d = [x \in Slot |-> NoEntry]
  BY <1>5, EmptyIs
<1>6. CASE d = [x \in Slot |-> [t[x] EXCEPT !.active = (x = g)]]
  BY <1>1, <1>6, ActivatedIs
<1>7. ASSUME NEW fs \in Types, d = [t EXCEPT ![0].fs = fs]
      PROVE  d \in Table /\ (MarkedOnce(t) => MarkedOnce(d))
  <2>1. fs \in FileSystem
    BY DiskAssumption
  <2> QED
    BY <1>1, <1>7, <2>1, TypedIs
<1>8. CASE d \in JunkTables
  BY <1>8, JunkTyped DEF TablesMarkedOnce
<1> QED
  BY <1>2, <1>3, <1>4, <1>5, <1>6, <1>7, <1>8 DEF MbrSteps

(* What a command does to the store.                                       *)
StoreSteps ==
  \/ UNCHANGED <<mbr, listed>> /\ mounted' \subseteq mounted \cup Listed
  \/ listed' = <<>> /\ mounted' = {}
  \/ listed' = PartitionsOf(mbr') /\ mounted' = StartsOf(mbr')
  \/ /\ UNCHANGED <<listed, mounted>>
     /\ \/ mbr' = [x \in Slot |-> [mbr[x] EXCEPT !.active = (x = gPart)]]
        \/ \E fs \in Types : mbr' = [mbr EXCEPT ![0].fs = fs]
  \/ UNCHANGED <<listed, mounted>> /\ RawStep

LEMMA Refreshed ==
  ASSUME NEW t, mbr' = t, Refresh(t)
  PROVE  StoreSteps
BY DEF Refresh, DismountStore, StoreSteps

LEMMA StoreStep ==
  ASSUME DpNext
  PROVE  StoreSteps
<1>1. CASE SelectObject
  BY <1>1 DEF SelectObject, SelectDisk, SelectPartition, StoreSteps
<1>2. CASE ListObjects \/ DumpMBR \/ DumpPartInfo \/ DeActivatePartition \/ WriteMBRCode
           \/ FixPartOffset \/ FixCRC
  BY <1>2 DEF ListObjects, DumpMBR, DumpPartInfo, DeActivatePartition, WriteMBRCode,
              FixPartOffset, FixCRC, dpVars, StoreSteps
<1>3. ASSUME NEW start \in Starts, NEW size \in Sizes, CreatePartition(start, size)
      PROVE  StoreSteps
  <2>1. CASE CreateFails
    BY <2>1 DEF CreateFails, DismountStore, StoreSteps
  <2>2. CASE ~CreateFails
    <3>1. PICK t : WriteMBR(t) /\ Refresh(t)
      BY <1>3, <2>2 DEF CreatePartition
    <3> QED
      BY <3>1, Refreshed DEF WriteMBR
  <2> QED
    BY <2>1, <2>2
<1>4. CASE DeletePartition
  <2>1. PICK t : WriteMBR(t) /\ Refresh(t)
    BY <1>4 DEF DeletePartition
  <2> QED
    BY <2>1, Refreshed DEF WriteMBR
<1>5. CASE DeleteFails \/ CleanFails
  BY <1>5 DEF DeleteFails, CleanFails, DismountStore, StoreSteps
<1>6. CASE CleanDisk
  <2>1. PICK t : WriteMBR(t) /\ Refresh(t)
    BY <1>6 DEF CleanDisk
  <2> QED
    BY <2>1, Refreshed DEF WriteMBR
<1>7. CASE ActivatePartition
  BY <1>7 DEF ActivatePartition, WriteMBR, Activated, RawStep, StoreSteps
<1>8. ASSUME NEW fs \in Types, SetPartitionType(fs) PROVE StoreSteps
  BY <1>8 DEF SetPartitionType, WriteMBR, StoreSteps
<1>9. CASE FormatPartition
  BY <1>9 DEF FormatPartition, StoreSteps
<1>10. ASSUME NEW s \in RawSectors, ZeroSector(s) \/ WriteBootSector(s) PROVE StoreSteps
  BY <1>10 DEF ZeroSector, WriteBootSector, RawStep, StoreSteps
<1>11. CASE Leave \/ WinMain
  BY <1>11 DEF Leave, WinMain, StoreSteps
<1> QED
  BY <1>1, <1>2, <1>3, <1>4, <1>5, <1>6, <1>7, <1>8, <1>9, <1>10, <1>11 DEF DpNext, ExecCommand

LEMMA StoreTyped ==
  ASSUME DpTypes, mbr' \in Table, StoreSteps
  PROVE  listed' \in Seq(0 .. DWord - 1) /\ mounted' \subseteq 0 .. DWord - 1
<1>1. Listed \subseteq 0 .. DWord - 1 /\ mounted \subseteq 0 .. DWord - 1
      /\ listed \in Seq(0 .. DWord - 1)
  BY ElementOfSeq DEF DpTypes, Listed
<1>2. CASE UNCHANGED <<mbr, listed>> /\ mounted' \subseteq mounted \cup Listed
  BY <1>1, <1>2
<1>3. CASE listed' = <<>> /\ mounted' = {}
  BY <1>3
<1>4. CASE listed' = PartitionsOf(mbr') /\ mounted' = StartsOf(mbr')
  <2>1. StartsOf(mbr') \subseteq 0 .. DWord - 1 /\ PartitionsOf(mbr') \in Seq(0 .. DWord - 1)
    <3>1. PICK t : t = mbr'
      OBVIOUS
    <3>2. StartsOf(t) \subseteq 0 .. DWord - 1 /\ PartitionsOf(t) \in Seq(0 .. DWord - 1)
      BY <3>1, EntryType, PartitionsAre DEF StartsOf
    <3> QED
      BY <3>1, <3>2
  <2> QED
    BY <1>4, <2>1
<1>5. CASE UNCHANGED <<listed, mounted>>
  BY <1>1, <1>5
<1> QED
  BY <1>2, <1>3, <1>4, <1>5 DEF StoreSteps

LEMMA SelectionTyped ==
  ASSUME DpTypes, DpNext
  PROVE  /\ hPart' \in 0 .. DWord - 1 /\ gPart' \in Slot
         /\ boot' \in [Watched -> BootSector]
<1>1. /\ hPart \in 0 .. DWord - 1 /\ gPart \in Slot /\ boot \in [Watched -> BootSector]
      /\ listed \in Seq(0 .. DWord - 1)
  BY DEF DpTypes
<1>2. 0 \in 0 .. DWord - 1 /\ 0 \in Slot
  BY Sizing, Slots
<1>3. \A s : \A b \in BootSector : BootSectorPut(s, b) => boot' \in [Watched -> BootSector]
  BY <1>1 DEF BootSectorPut
<1>4. "fat" \in BootSector /\ "none" \in BootSector
  BY DEF BootSector
<1>5. CASE \E n \in Slot : SelectPartition(n)
  BY <1>1, <1>5, ElementOfSeq DEF SelectPartition
<1>6. CASE SelectDisk \/ Leave \/ WinMain
  BY <1>1, <1>2, <1>6 DEF SelectDisk, Leave, WinMain
<1>7. CASE ListObjects \/ DumpMBR \/ DumpPartInfo \/ DeActivatePartition \/ WriteMBRCode
           \/ FixPartOffset \/ FixCRC
  BY <1>1, <1>7 DEF ListObjects, DumpMBR, DumpPartInfo, DeActivatePartition, WriteMBRCode,
                    FixPartOffset, FixCRC, dpVars
<1>8. ASSUME NEW start \in Starts, NEW size \in Sizes, CreatePartition(start, size)
      PROVE  UNCHANGED <<hPart, gPart, boot>>
  BY <1>8 DEF CreatePartition, CreateFails, handles
<1>9. CASE DeletePartition \/ DeleteFails \/ CleanDisk \/ CleanFails
  BY <1>1, <1>2, <1>9
     DEF DeletePartition, DeleteFails, CleanDisk, CleanFails, ClosePartition, handles
<1>10. CASE ActivatePartition
  BY <1>1, <1>10 DEF ActivatePartition, WriteBootCode, handles
<1>11. ASSUME NEW fs \in Types, SetPartitionType(fs) PROVE UNCHANGED <<hPart, gPart, boot>>
  BY <1>11 DEF SetPartitionType, handles
<1>12. CASE FormatPartition
  BY <1>1, <1>3, <1>4, <1>12 DEF FormatPartition, handles
<1>13. ASSUME NEW s \in RawSectors, ZeroSector(s) \/ WriteBootSector(s)
       PROVE  UNCHANGED <<hPart, gPart>> /\ boot' \in [Watched -> BootSector]
  BY <1>1, <1>3, <1>4, <1>13 DEF ZeroSector, WriteBootSector, WriteBootCode, handles
<1> QED
  BY <1>1, <1>5, <1>6, <1>7, <1>8, <1>9, <1>10, <1>11, <1>12, <1>13
     DEF DpNext, ExecCommand, SelectObject

LEMMA TypesStart == DpInit => DpTypes /\ Listed = StartsOf(mbr)
<1> SUFFICES ASSUME DpInit PROVE DpTypes /\ Listed = StartsOf(mbr)
  OBVIOUS
<1>1. mbr \in Table /\ boot \in [Watched -> BootSector]
  BY DiskAssumption DEF DpInit
<1>2. 0 \in 0 .. DWord - 1 /\ 0 \in Slot
  BY Sizing, Slots
<1>3. PICK t : t = mbr
  OBVIOUS
<1>4. PartitionsOf(t) \in Seq(0 .. DWord - 1) /\ Members(PartitionsOf(t)) = StartsOf(t)
      /\ StartsOf(t) \subseteq 0 .. DWord - 1
  BY <1>1, <1>3, PartitionsAre, EntryType DEF StartsOf
<1>5. Listed = StartsOf(mbr)
  BY <1>3, <1>4 DEF DpInit, Listed, Members
<1> QED
  BY <1>1, <1>2, <1>3, <1>4, <1>5 DEF DpInit, DpTypes

LEMMA TypesStep ==
  ASSUME DpTypes, [DpNext]_dpVars
  PROVE  DpTypes'
<1>1. CASE DpNext
  <2>1. mbr' \in Table
    BY <1>1, MbrStep, MbrTyped DEF DpTypes
  <2> QED
    BY <1>1, <2>1, StoreStep, StoreTyped, SelectionTyped DEF DpTypes
<1>2. CASE UNCHANGED dpVars
  BY <1>2 DEF dpVars, DpTypes
<1> QED
  BY <1>1, <1>2

LEMMA TypesAlways == DpSpec => []DpTypes
<1>1. DpInit => DpTypes
  BY TypesStart
<1>2. DpTypes /\ [DpNext]_dpVars => DpTypes'
  BY TypesStep
<1> QED
  BY <1>1, <1>2, PTL DEF DpSpec

-----------------------------------------------------------------------------
Flags == {running, hDisk} \subseteq BOOLEAN

LEMMA FlagsStep ==
  ASSUME Flags, [DpNext]_dpVars
  PROVE  Flags'
<1>1. running \in BOOLEAN /\ hDisk \in BOOLEAN
  BY Zenon DEF Flags
<1>2. CASE SelectObject
  <2>1. running' = running /\ (hDisk' = TRUE \/ hDisk' = hDisk)
    BY <1>2, Zenon DEF SelectObject, SelectDisk, SelectPartition
  <2> QED
    BY <1>1, <2>1, Zenon DEF Flags
<1>3. CASE Leave \/ WinMain
  <2>1. running' \in BOOLEAN /\ hDisk' = FALSE
    BY <1>3, Zenon DEF Leave, WinMain
  <2> QED
    BY <1>1, <2>1, Zenon DEF Flags
<1>4. CASE CleanDisk
  <2>1. running' = running /\ hDisk' = FALSE
    BY <1>4, Zenon DEF CleanDisk
  <2> QED
    BY <1>1, <2>1, Zenon DEF Flags
<1>5. ASSUME \/ UNCHANGED dpVars
             \/ ListObjects \/ DumpMBR \/ DumpPartInfo \/ DeActivatePartition \/ WriteMBRCode
             \/ FixPartOffset \/ FixCRC
             \/ \E start \in Starts, size \in Sizes : CreatePartition(start, size)
             \/ DeletePartition \/ DeleteFails \/ CleanFails \/ ActivatePartition
             \/ \E fs \in Types : SetPartitionType(fs)
             \/ FormatPartition
             \/ \E s \in RawSectors : ZeroSector(s) \/ WriteBootSector(s)
      PROVE  Flags'
  <2>1. running' = running /\ hDisk' = hDisk
    BY <1>5, Zenon
       DEF dpVars, handles, ListObjects, DumpMBR, DumpPartInfo, DeActivatePartition, WriteMBRCode,
           FixPartOffset, FixCRC, CreatePartition, CreateFails, DeletePartition, DeleteFails,
           CleanFails, ActivatePartition, SetPartitionType, FormatPartition, ZeroSector,
           WriteBootSector
  <2> QED
    BY <1>1, <2>1, Zenon DEF Flags
<1> QED
  BY <1>2, <1>3, <1>4, <1>5 DEF DpNext, ExecCommand

(* However partitions are created, deleted, activated and moved about in   *)
(* the table, at most one is active, and every variable has its type, if   *)
(* no table that the disk comes with, and no boot code read as a table,    *)
(* marks two.                                                              *)
THEOREM OneActiveHolds ==
  ASSUME TablesMarkedOnce
  PROVE  DpSpec => []OneActive
<1> DEFINE Inv == MarkedOnce(mbr) /\ Flags
<1>1. DpInit => Inv
  <2> SUFFICES ASSUME DpInit PROVE Inv
    OBVIOUS
  <2>1. MarkedOnce(mbr)
    BY DEF DpInit, TablesMarkedOnce
  <2>2. Flags
    BY Zenon DEF DpInit, Flags
  <2> QED
    BY <2>1, <2>2
<1>2. DpTypes /\ Inv /\ [DpNext]_dpVars => Inv'
  <2> SUFFICES ASSUME DpTypes, Inv, [DpNext]_dpVars PROVE Inv'
    OBVIOUS
  <2>1. MarkedOnce(mbr')
    <3>1. CASE DpNext
      BY <3>1, MbrStep, MbrTyped DEF DpTypes
    <3>2. CASE UNCHANGED dpVars
      BY <3>2 DEF dpVars
    <3> QED
      BY <3>1, <3>2
  <2>2. Flags'
    BY FlagsStep
  <2> QED
    BY <2>1, <2>2
<1>3. DpTypes /\ Inv => OneActive
  BY DEF OneActive, DpTypeOK, Flags
<1> QED
  BY <1>1, <1>2, <1>3, TypesAlways, PTL DEF DpSpec

-----------------------------------------------------------------------------
LEMMA EntriesKeptStep ==
  ASSUME DpTypes, DpNext
  PROVE  EntriesKept
<1> PICK t, d, g : t = mbr /\ d = mbr' /\ g = gPart
  OBVIOUS
<1>1. t \in Table /\ g \in Slot
  BY DEF DpTypes
<1>2. ASSUME ~(StartsOf(d) \subseteq StartsOf(t)), ~RawStep
      PROVE  Used(t) \subseteq Used(d) /\ Cardinality(UsedSlots(d)) - Cardinality(UsedSlots(t)) = 1
  <2>1. d # t
    BY <1>2
  <2>2. ASSUME NEW start \in Starts, NEW size \in Sizes,
               Acceptable(CompactMBR(t), start, size * SectorsPerMB),
               CanInsert(CompactMBR(t), start, size * SectorsPerMB),
               d = InsertPartition(CompactMBR(t), start, size * SectorsPerMB)
        PROVE  /\ Used(t) \subseteq Used(d)
               /\ Cardinality(UsedSlots(d)) - Cardinality(UsedSlots(t)) = 1
    <3>1. PICK c, n : c = CompactMBR(t) /\ n = size * SectorsPerMB
      OBVIOUS
    <3>2. start \in Nat /\ n \in Nat
      BY <3>1, CreateArgs
    <3>3. Acceptable(c, start, n) /\ CanInsert(c, start, n) /\ d = InsertPartition(c, start, n)
      BY <2>2, <3>1
    <3> QED
      BY <1>1, <1>2, <3>1, <3>2, <3>3, CreatedIs
  <2>3. d # CompactMBR([t EXCEPT ![g] = NoEntry])
    BY <1>1, <1>2, DeletedIs
  <2>4. d # [x \in Slot |-> NoEntry]
    BY <1>2, EmptyIs
  <2>5. d # [x \in Slot |-> [t[x] EXCEPT !.active = (x = g)]]
    BY <1>1, <1>2, ActivatedIs
  <2>6. \A fs \in Types : d # [t EXCEPT ![0].fs = fs]
    BY <1>1, <1>2, TypedIs, TypesAre
  <2> QED
    BY <1>2, <2>1, <2>2, <2>3, <2>4, <2>5, <2>6, MbrStep DEF MbrSteps
<1>3. ASSUME InUse(t[g]), DeletePartition
      PROVE  Used(d) \cup {t[g]} = Used(t) /\ Cardinality(UsedSlots(d)) - Cardinality(UsedSlots(t)) = -1
  <2>1. d = CompactMBR([t EXCEPT ![g] = NoEntry])
    BY <1>3 DEF DeletePartition, WriteMBR
  <2> QED
    BY <1>1, <1>3, <2>1, DeletedIs
<1> QED
  BY <1>2, <1>3 DEF EntriesKept, Before, After, Grown

LEMMA OrderKeptStep ==
  ASSUME DpTypes, DpNext, Proper(mbr)
  PROVE  OrderKept /\ DisjointKept
<1> PICK t, d, g : t = mbr /\ d = mbr' /\ g = gPart
  OBVIOUS
<1>1. t \in Table /\ g \in Slot /\ Proper(t)
  BY DEF DpTypes
<1> DEFINE Free == \E start \in Starts \ {0}, size \in Sizes : CreatePartition(start, size)
           Goal == (Ordered(t) => Ordered(d)) /\ (Disjoint(t) => Disjoint(d) \/ Free)
<1>2. CASE RawStep
  BY <1>2 DEF OrderKept, DisjointKept
<1>3. ASSUME ~RawStep PROVE Goal
  <2>1. CASE d = t
    BY <2>1
  <2>2. ASSUME NEW start \in Starts, NEW size \in Sizes,
               Acceptable(CompactMBR(t), start, size * SectorsPerMB),
               CanInsert(CompactMBR(t), start, size * SectorsPerMB),
               d = InsertPartition(CompactMBR(t), start, size * SectorsPerMB),
               CreatePartition(start, size)
        PROVE  Goal
    <3>1. PICK c, n : c = CompactMBR(t) /\ n = size * SectorsPerMB
      OBVIOUS
    <3>2. start \in Nat /\ n \in Nat
      BY <3>1, CreateArgs
    <3>3. Acceptable(c, start, n) /\ CanInsert(c, start, n) /\ d = InsertPartition(c, start, n)
      BY <2>2, <3>1
    <3>4. Ordered(d) /\ (start = 0 /\ Disjoint(t) => Disjoint(d))
      BY <1>1, <3>1, <3>2, <3>3, CreatedIs
    <3> QED
      BY <2>2, <3>4
  <2>3. CASE d = CompactMBR([t EXCEPT ![g] = NoEntry])
    <3>1. (Ordered(t) => Ordered(d)) /\ (Disjoint(t) => Disjoint(d))
      BY <1>1, <2>3, DeletedIs
    <3> QED
      BY <3>1
  <2>4. CASE d = [x \in Slot |-> NoEntry]
    BY <2>4, EmptyIs
  <2>5. CASE d = [x \in Slot |-> [t[x] EXCEPT !.active = (x = g)]]
    <3>1. (Ordered(t) => Ordered(d)) /\ (Disjoint(t) => Disjoint(d))
      BY <1>1, <2>5, ActivatedIs
    <3> QED
      BY <3>1
  <2>6. ASSUME NEW fs \in Types, d = [t EXCEPT ![0].fs = fs] PROVE Goal
    <3>1. (Ordered(t) => Ordered(d)) /\ (Disjoint(t) => Disjoint(d))
      BY <1>1, <2>6, TypedIs, TypesAre
    <3> QED
      BY <3>1
  <2> HIDE DEF Goal
  <2> QED
    BY <1>3, <2>1, <2>2, <2>3, <2>4, <2>5, <2>6, MbrStep DEF MbrSteps
<1> QED
  BY <1>2, <1>3 DEF OrderKept, DisjointKept

(* CREATE and DELETE keep every other partition of the table, its order    *)
(* and, unless a place was asked for, the partitions apart, on every disk. *)
THEOREM PartitionsKeptHolds == DpSpec => PartitionsKept
<1>1. DpTypes /\ [DpNext]_dpVars =>
        [EntriesKept /\ (Proper(mbr) => OrderKept /\ DisjointKept)]_mbr
  <2> SUFFICES ASSUME DpTypes, DpNext
               PROVE  EntriesKept /\ (Proper(mbr) => OrderKept /\ DisjointKept)
    BY DEF dpVars
  <2> QED
    BY EntriesKeptStep, OrderKeptStep
<1> QED
  BY <1>1, TypesAlways, PTL DEF DpSpec, PartitionsKept

-----------------------------------------------------------------------------
LEMMA ListStep ==
  ASSUME DpTypes, DpNext, ListTrue
  PROVE  ListTrue' \/ RawStep
<1> PICK t, d, g : t = mbr /\ d = mbr' /\ g = gPart
  OBVIOUS
<1>1. t \in Table /\ g \in Slot /\ d \in Table
  BY MbrStep, MbrTyped DEF DpTypes
<1>2. Listed \subseteq StartsOf(t) /\ mounted \subseteq Listed
  BY DEF ListTrue
<1> SUFFICES ASSUME ~RawStep PROVE Listed' \subseteq StartsOf(d) /\ mounted' \subseteq Listed'
  BY DEF ListTrue
<1>3. CASE UNCHANGED <<mbr, listed>> /\ mounted' \subseteq mounted \cup Listed
  BY <1>2, <1>3 DEF Listed
<1>4. CASE listed' = <<>> /\ mounted' = {}
  BY <1>4 DEF Listed
<1>5. CASE listed' = PartitionsOf(mbr') /\ mounted' = StartsOf(mbr')
  <2>1. Members(PartitionsOf(d)) = StartsOf(d)
    BY <1>1, PartitionsAre
  <2>2. listed' = PartitionsOf(d) /\ mounted' = StartsOf(d)
    BY <1>5
  <2>3. Listed' = Members(PartitionsOf(d))
    BY <2>2 DEF Listed, Members
  <2> QED
    BY <2>1, <2>2, <2>3
<1>6. ASSUME UNCHANGED <<listed, mounted>>, StartsOf(d) = StartsOf(t)
      PROVE  Listed' \subseteq StartsOf(d) /\ mounted' \subseteq Listed'
  BY <1>2, <1>6 DEF Listed
<1>7. CASE d = [x \in Slot |-> [t[x] EXCEPT !.active = (x = g)]] /\ UNCHANGED <<listed, mounted>>
  <2>1. StartsOf(d) = StartsOf(t)
    BY <1>1, <1>7, ActivatedIs
  <2> QED
    BY <1>6, <1>7, <2>1
<1>8. ASSUME NEW fs \in Types, d = [t EXCEPT ![0].fs = fs], UNCHANGED <<listed, mounted>>
      PROVE  Listed' \subseteq StartsOf(d) /\ mounted' \subseteq Listed'
  <2>1. StartsOf(d) = StartsOf(t)
    BY <1>1, <1>8, TypedIs, TypesAre
  <2> QED
    BY <1>6, <1>8, <2>1
<1> QED
  BY <1>3, <1>4, <1>5, <1>7, <1>8, StoreStep DEF StoreSteps

(* No command but one that writes over sector 0 leaves a volume mounted    *)
(* that has no entry in the table.                                         *)
THEOREM ListKeptHolds == DpSpec => ListKept
<1>1. DpTypes /\ [DpNext]_dpVars => [ListTrue => ListTrue' \/ RawStep]_dpVars
  BY ListStep
<1> QED
  BY <1>1, TypesAlways, PTL DEF DpSpec, ListKept
=============================================================================
