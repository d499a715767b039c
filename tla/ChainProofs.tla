----------------------------- MODULE ChainProofs -----------------------------
(***************************************************************************)
(* Theorems about the chain of loaders: the boot sectors of the four       *)
(* loaders, the start of biosloader, and the second stage, for every       *)
(* volume, drive and file as formatters and installers make them.          *)
(***************************************************************************)
EXTENDS Xldr, BldrStart, SequenceTheorems, WellFoundedInduction, TLAPS

-----------------------------------------------------------------------------
(* Numbers                                                                 *)

LEMMA DivMod ==
  ASSUME NEW a \in Nat, NEW n \in Nat \ {0}
  PROVE  /\ a \div n \in Nat /\ a % n \in 0 .. n - 1
         /\ a = n * (a \div n) + (a % n)
<1>1. PICK q \in Int : q = a \div n
  OBVIOUS
<1>2. PICK r \in 0 .. n - 1 : r = a % n
  OBVIOUS
<1>3. n * q <= a /\ a < n * q + n
  BY <1>1
<1>4. q \in Nat
  BY <1>3
<1>5. a = n * q + r
  BY <1>1, <1>2
<1> QED
  BY <1>1, <1>2, <1>4, <1>5

LEMMA DivIs ==
  ASSUME NEW n \in Nat \ {0}, NEW q \in Nat, NEW r \in 0 .. n - 1, NEW a \in Nat,
         a = n * q + r
  PROVE  a \div n = q /\ a % n = r
<1>1. PICK p \in Nat, s \in 0 .. n - 1 : p = a \div n /\ s = a % n /\ a = n * p + s
  <2>1. a \div n \in Nat /\ a % n \in 0 .. n - 1 /\ a = n * (a \div n) + (a % n)
    BY DivMod
  <2> QED  BY <2>1
<1>2. p = q
  BY <1>1
<1> QED
  BY <1>1, <1>2

LEMMA ProductNat == ASSUME NEW a \in Nat, NEW b \in Nat PROVE a * b \in Nat
OBVIOUS

LEMMA WordType ==
  /\ ByteSize \in Nat \ {0} /\ Word \in Nat \ {0} /\ Word * Word \in Nat \ {0}
  /\ Word = ByteSize * ByteSize
<1>1. PICK b \in Nat \ {0} : b = ByteSize
  BY SectorAssumption
<1>2. PICK w \in Nat \ {0} : w = b * b
  OBVIOUS
<1>3. w * w \in Nat \ {0}
  OBVIOUS
<1> QED
  BY <1>1, <1>2, <1>3 DEF Word

LEMMA CylindersType == Cylinders \in Nat \ {0} /\ Cylinders <= Word
<1>1. PICK w \in Nat : w = Word /\ Cylinders \in 1 .. w
  BY SectorAssumption, WordType DEF Word
<1> QED  BY <1>1

LEMMA DoubleWordType ==
  ASSUME NEW n \in Nat
  PROVE  DoubleWord(n) \in Nat /\ DoubleWord(n) < Word * Word
<1>1. PICK v \in Nat \ {0} : v = Word * Word
  BY WordType
<1> QED  BY <1>1 DEF DoubleWord

LEMMA DoubleWordIs ==
  ASSUME NEW n \in Nat, n < Word * Word
  PROVE  DoubleWord(n) = n
<1>1. PICK v \in Nat \ {0} : v = Word * Word
  BY WordType
<1>2. n % v = n
  BY <1>1, DivIs, n = v * 0 + n
<1> QED  BY <1>1, <1>2 DEF DoubleWord

(* What is added to a number cut to 32 bits may as well be added before.   *)
LEMMA DoubleWordSum ==
  ASSUME NEW a \in Nat, NEW b \in Nat
  PROVE  DoubleWord(DoubleWord(a) + b) = DoubleWord(a + b)
<1>1. PICK v \in Nat \ {0} : v = Word * Word
  BY WordType
<1>2. PICK q \in Nat, r \in 0 .. v - 1 : r = a % v /\ a = v * q + r
  <2>1. a \div v \in Nat /\ a % v \in 0 .. v - 1 /\ a = v * (a \div v) + (a % v)
    BY DivMod
  <2> QED  BY <2>1
<1>e. PICK e \in Nat : e = r + b
  OBVIOUS
<1>3. PICK p \in Nat, s \in 0 .. v - 1 : s = e % v /\ e = v * p + s
  <2>1. e \div v \in Nat /\ e % v \in 0 .. v - 1 /\ e = v * (e \div v) + (e % v)
    BY DivMod
  <2> QED  BY <2>1
<1>g. PICK g \in Nat, t \in Nat : g = a + b /\ t = q + p
  OBVIOUS
<1>4. g = v * t + s
  <2>1. v * t = v * q + v * p
    BY <1>g
  <2>2. PICK c \in Nat, d \in Nat : c = v * q /\ d = v * p
    BY ProductNat
  <2>3. a = c + r /\ e = d + s /\ v * t = c + d
    BY <2>1, <2>2, <1>2, <1>3
  <2> QED  BY <2>3, <1>e, <1>g
<1>5. g % v = s
  BY <1>4, DivIs
<1> QED  BY <1>e, <1>g, <1>1, <1>2, <1>3, <1>5 DEF DoubleWord

LEMMA LowIs ==
  ASSUME NEW n \in Nat, n < Word
  PROVE  Low(n) = n /\ High(n) = 0
<1>1. PICK w \in Nat \ {0} : w = Word
  BY WordType
<1>2. n \div w = 0 /\ n % w = n
  BY <1>1, DivIs, n = w * 0 + n
<1>3. 0 % w = 0
  BY DivIs, 0 = w * 0 + 0
<1> QED  BY <1>1, <1>2, <1>3 DEF Low, High

LEMMA HalvesAre ==
  ASSUME NEW n \in Nat, n < Word * Word
  PROVE  /\ Low(n) \in Nat /\ High(n) \in Nat
         /\ High(n) * Word + Low(n) = n
<1>1. PICK w \in Nat \ {0} : w = Word
  BY WordType
<1>2. PICK q \in Nat, r \in 0 .. w - 1 : q = n \div w /\ r = n % w /\ n = w * q + r
  <2>1. n \div w \in Nat /\ n % w \in 0 .. w - 1 /\ n = w * (n \div w) + (n % w)
    BY DivMod
  <2> QED  BY <2>1
<1>3. q < w
  BY <1>1, <1>2
<1>4. q % w = q
  BY <1>3, DivIs, q = w * 0 + q
<1>5. q * w = w * q
  OBVIOUS
<1> QED  BY <1>1, <1>2, <1>4, <1>5 DEF Low, High

LEMMA CeilDivIs ==
  ASSUME NEW n \in Nat, NEW d \in Nat \ {0}
  PROVE  /\ CeilDiv(n, d) \in Nat
         /\ CeilDiv(n, d) = n \div d + (IF n % d # 0 THEN 1 ELSE 0)
<1>1. PICK q \in Nat, r \in 0 .. d - 1 : q = n \div d /\ r = n % d /\ n = d * q + r
  <2>1. n \div d \in Nat /\ n % d \in 0 .. d - 1 /\ n = d * (n \div d) + (n % d)
    BY DivMod
  <2> QED  BY <2>1
<1>2. CASE r = 0
  <2>1. n + d - 1 = d * q + (d - 1) /\ d - 1 \in 0 .. d - 1 /\ n + d - 1 \in Nat
    BY <1>1, <1>2
  <2>2. (n + d - 1) \div d = q
    BY <2>1, DivIs
  <2> QED  BY <2>2, <1>1, <1>2 DEF CeilDiv
<1>3. CASE r # 0
  <2>1. n + d - 1 = d * (q + 1) + (r - 1) /\ r - 1 \in 0 .. d - 1 /\ n + d - 1 \in Nat
    BY <1>1, <1>3
  <2>2. (n + d - 1) \div d = q + 1
    BY <2>1, DivIs, q + 1 \in Nat
  <2> QED  BY <2>2, <1>1, <1>3 DEF CeilDiv
<1> QED  BY <1>2, <1>3
-----------------------------------------------------------------------------
(* The places of a volume                                                  *)

LEMMA MediumNumbers ==
  ASSUME NEW m, NumbersMade(m)
  PROVE  /\ FatEnd(m) \in Nat /\ DataStart(m) \in Nat /\ RootStart(m) \in Nat
         /\ DataStart(m) < Word * Word /\ RootStart(m) < Word * Word
         /\ FatEnd(m) <= DataStart(m)
<1>1. m.fats * m.perFat \in Nat
  BY ProductNat DEF NumbersMade
<1>2. PICK p \in Nat : p = m.fats * m.perFat
  BY <1>1
<1>3. FatEnd(m) \in Nat
  <2>1. PICK h \in Nat, r \in Nat : h = m.hidden /\ r = m.reserved
    BY DEF NumbersMade
  <2> QED  BY <1>2, <2>1 DEF FatEnd
<1>4. CeilDiv(m.entries, EntriesPerRootSector) \in Nat
  BY CeilDivIs, SectorAssumption DEF NumbersMade
<1>5. DataStart(m) \in Nat /\ FatEnd(m) <= DataStart(m)
  BY <1>3, <1>4 DEF DataStart
<1>6. RootStart(m) \in Nat
  <2>1. CASE HasRootArea(m)
    BY <2>1, <1>3 DEF RootStart
  <2>2. CASE ~HasRootArea(m)
    <3>1. m.rootCluster - 2 \in Nat
      BY <2>2 DEF NumbersMade
    <3>2. (m.rootCluster - 2) * m.perCluster \in Nat
      BY <3>1, ProductNat DEF NumbersMade
    <3> QED  BY <3>2, <1>5, <2>2 DEF RootStart, ClusterStart
  <2> QED  BY <2>1, <2>2
<1> QED  BY <1>3, <1>5, <1>6 DEF NumbersMade, OnMedium

(* Off FAT32 the boot sector finds the start of the data area.             *)
LEMMA DataLbaOff32 ==
  ASSUME NEW m, NumbersMade(m), m.type # "FAT32"
  PROVE  DataLba(m) = DataStart(m)
<1>1. /\ FatEnd(m) \in Nat /\ DataStart(m) \in Nat /\ DataStart(m) < Word * Word
      /\ FatEnd(m) <= DataStart(m)
  BY MediumNumbers
<1>2. CASE m.type = "exFAT"
  <2>1. DataStart(m) = m.hidden + m.reserved
    BY <1>2 DEF DataStart, FatEnd, HasRootArea, NumbersMade
  <2> QED  BY <2>1, <1>1, <1>2, DoubleWordIs DEF DataLba, DataLbaEx
<1>3. CASE HasRootArea(m)
  <2>1. FatEnd(m) = m.hidden + m.reserved + m.fats * m.perFat
    BY <1>3 DEF FatEnd, HasRootArea
  <2>2. Low(m.perFat) = m.perFat
    BY <1>3, LowIs DEF NumbersMade
  <2>3. m.fats * Low(m.perFat) + m.hidden + m.reserved = FatEnd(m)
    <3>1. PICK p \in Nat : p = m.fats * m.perFat
      BY ProductNat DEF NumbersMade
    <3>2. PICK h \in Nat, r \in Nat : h = m.hidden /\ r = m.reserved
      BY DEF NumbersMade
    <3>3. p + h + r = h + r + p
      OBVIOUS
    <3> QED  BY <2>1, <2>2, <3>1, <3>2, <3>3
  <2>4. RootEnd(m) = FatEnd(m)
    <3>1. FatEnd(m) < Word * Word
      <4>1. PICK v \in Nat : v = Word * Word
        BY WordType
      <4> QED  BY <4>1, <1>1
    <3> QED  BY <2>3, <3>1, <1>1, DoubleWordIs DEF RootEnd
  <2>5. DataLba16(m) = DoubleWord(DataStart(m))
    BY <2>4, <1>3 DEF DataLba16, DataStart
  <2>6. DataLba(m) = DataLba16(m)
    BY <1>3 DEF DataLba, HasRootArea
  <2> QED  BY <2>5, <2>6, <1>1, DoubleWordIs
<1> QED  BY <1>2, <1>3 DEF NumbersMade, HasRootArea

LEMMA ByteOfLength ==
  ASSUME NEW m, NumbersMade(m), m.type = "FAT32"
  PROVE  \E h \in Nat, l \in 0 .. ByteSize - 1, e \in 0 .. ByteSize - 1 :
           m.perFat = ByteSize * h + l /\ SectPerFAT(m) = ByteSize * h + e
<1>1. PICK b \in Nat \ {0} : b = ByteSize
  BY WordType
<1>2. PICK n \in Nat : n = m.perFat
  BY DEF NumbersMade
<1>3. PICK h \in Nat, l \in 0 .. b - 1 : h = n \div b /\ l = n % b /\ n = b * h + l
  <2>1. n \div b \in Nat /\ n % b \in 0 .. b - 1 /\ n = b * (n \div b) + (n % b)
    BY DivMod
  <2> QED  BY <2>1
<1>4. b \div 2 \in 0 .. b - 1
  OBVIOUS
<1>5. FatLow(m) \in 0 .. b - 1
  BY <1>1, <1>2, <1>3, <1>4 DEF FatLow, DriveNumber, NumbersMade
<1>6. PICK e \in 0 .. b - 1 : e = FatLow(m)
  BY <1>5
<1>7. SectPerFAT(m) = h * b + e
  BY <1>1, <1>2, <1>3, <1>6 DEF SectPerFAT
<1>8. h * b = b * h
  OBVIOUS
<1> QED  BY <1>1, <1>2, <1>3, <1>7, <1>8

(* The low word of a number whose bytes are known.                         *)
LEMMA LowOfBytes ==
  ASSUME NEW h \in Nat, NEW h1 \in Nat, NEW h0 \in 0 .. ByteSize - 1, h = ByteSize * h1 + h0,
         NEW l \in 0 .. ByteSize - 1
  PROVE  /\ Low(ByteSize * h + l) = ByteSize * h0 + l
         /\ ByteSize * h + l = Word * h1 + (ByteSize * h0 + l)
<1>1. PICK b \in Nat \ {0} : b = ByteSize
  BY WordType
<1>2. PICK w \in Nat \ {0} : w = Word /\ w = b * b
  BY <1>1, WordType
<1>3. PICK r \in Nat : r = b * h0 + l
  BY <1>1, ProductNat
<1>4. r < w
  <2>1. b * h0 <= b * (b - 1)
    <3>1. PICK g \in Nat : b - 1 = h0 + g
      <4>1. b - 1 - h0 \in Nat /\ b - 1 = h0 + (b - 1 - h0)
        BY <1>1
      <4> QED  BY <4>1
    <3>2. b * (h0 + g) = b * h0 + b * g
      OBVIOUS
    <3>3. PICK x \in Nat, y \in Nat : x = b * h0 /\ y = b * g
      BY ProductNat
    <3> QED  BY <3>1, <3>2, <3>3
  <2>2. b * (b - 1) = b * b - b
    OBVIOUS
  <2> QED  BY <1>1, <1>2, <1>3, <2>1, <2>2
<1>5. PICK n \in Nat : n = b * h + l
  BY <1>1, ProductNat
<1>6. n = w * h1 + r
  <2>1. b * (b * h1 + h0) = (b * b) * h1 + b * h0
    BY <1>1
  <2> QED  BY <2>1, <1>1, <1>2, <1>3, <1>5
<1>7. n % w = r
  <2>1. r \in 0 .. w - 1
    BY <1>4
  <2>2. n \div w = h1 /\ n % w = r
    BY ONLY <1>6, <2>1, DivIs
  <2> QED  BY <2>2
<1> QED  BY <1>1, <1>2, <1>3, <1>5, <1>6, <1>7 DEF Low

LEMMA FirstProduct ==
  ASSUME NEW m, NumbersMade(m)
  PROVE  m.fats \in Nat /\ m.fats >= 1 /\ m.fats < ByteSize
BY WordType DEF NumbersMade

(* On FAT32 it is found when the length of the FAT is, and the data area   *)
(* begins below sector 2^16.                                               *)
LEMMA DataLba32Is ==
  ASSUME NEW m, NumbersMade(m), m.type = "FAT32", SectPerFAT(m) = m.perFat,
         High(DataStart(m)) = 0
  PROVE  DataLba(m) = DataStart(m)
<1>1. DataStart(m) \in Nat /\ DataStart(m) < Word * Word
  BY MediumNumbers
<1>2. PICK f \in Nat, p \in Nat, h \in Nat, r \in Nat, c \in Nat :
        f = m.fats /\ p = m.perFat /\ h = m.hidden /\ r = m.reserved /\ c = f * p /\ f >= 1
  BY FirstProduct, ProductNat DEF NumbersMade
<1>3. DataStart(m) = h + r + c
  BY <1>2 DEF DataStart, FatEnd, HasRootArea
<1>4. DataStart(m) < Word
  <2>1. DataStart(m) = Low(DataStart(m))
    <3>1. PICK w \in Nat \ {0} : w = Word
      BY WordType
    <3>2. Low(DataStart(m)) \in Nat /\ 0 * w + Low(DataStart(m)) = DataStart(m)
      BY <1>1, <3>1, HalvesAre
    <3> QED  BY <3>2, <3>1
  <2>2. PICK w \in Nat \ {0} : w = Word
    BY WordType
  <2>3. PICK d \in Nat : d = DataStart(m)
    BY <1>1
  <2>4. d % w < w
    OBVIOUS
  <2> QED  BY <2>1, <2>2, <2>3, <2>4 DEF Low
<1>5. p <= c
  BY <1>2
<1>6. PICK w \in Nat \ {0} : w = Word
  BY WordType
<1>7. p < Word
  BY <1>3, <1>4, <1>5, <1>6
<1>8. Low(m.perFat) = p /\ High(m.perFat) = 0
  BY <1>2, <1>7, LowIs
<1>9. Low(0) = 0
  BY LowIs, WordType
<1>10. PICK s \in Nat : s = (Low(c) \div ByteSize) * ByteSize + f
  <2>1. c < Word * Word
    <3>1. PICK v \in Nat : v = Word * Word
      BY WordType
    <3> QED  BY <3>1, <1>1, <1>3
  <2>2. PICK l \in Nat : l = Low(c)
    BY <2>1, HalvesAre
  <2>3. PICK b \in Nat \ {0} : b = ByteSize
    BY WordType
  <2>4. l \div b \in Nat
    BY DivMod
  <2>5. (l \div b) * b \in Nat
    BY <2>4, ProductNat
  <2> QED  BY <2>2, <2>3, <2>5
<1>11. s * 0 = 0
  OBVIOUS
<1>12. DataLba(m) = DoubleWord(c + 0 * w + h + r)
  BY <1>2, <1>6, <1>8, <1>9, <1>10, <1>11 DEF DataLba, DataLba32
<1>13. c + 0 * w + h + r = h + r + c
  OBVIOUS
<1> QED  BY <1>1, <1>3, <1>12, <1>13, DoubleWordIs

(* The sum that FAT32 computes, whatever the multiplications left in it.   *)
LEMMA SumOf32 ==
  ASSUME NEW m, NumbersMade(m), m.type = "FAT32"
  PROVE  /\ Low(SectPerFAT(m)) \in Nat
         /\ \E y \in Nat :
              DataLba(m) = DoubleWord(m.fats * Low(SectPerFAT(m)) + y * Word + m.hidden + m.reserved)
<1>1. PICK b \in Nat \ {0}, w \in Nat \ {0} : b = ByteSize /\ w = Word
  BY WordType
<1>2. PICK n \in Nat : n = SectPerFAT(m)
  <2>1. PICK h \in Nat, e \in 0 .. ByteSize - 1 : SectPerFAT(m) = ByteSize * h + e
    BY ByteOfLength
  <2>2. PICK c \in Nat : c = b * h
    BY ProductNat
  <2> QED  BY <1>1, <2>1, <2>2
<1>3. PICK k \in Nat : k = Low(n)
  <2>1. n % w \in Nat
    BY DivMod
  <2> QED  BY <1>1, <2>1 DEF Low
<1>4. PICK f \in Nat, p \in Nat : f = m.fats /\ p = m.perFat
  BY FirstProduct DEF NumbersMade
<1>5. PICK s \in Nat : s = (Low(f * k) \div ByteSize) * ByteSize + f
  <2>1. PICK g \in Nat : g = f * k
    BY ProductNat
  <2>2. PICK d \in Nat : d = Low(g)
    BY <1>1, DivMod DEF Low
  <2>3. d \div b \in Nat
    BY DivMod
  <2>4. (d \div b) * b \in Nat
    BY <2>3, ProductNat
  <2> QED  BY <1>1, <2>1, <2>2, <2>4
<1>6. PICK u \in Nat : u = High(p)
  <2>1. PICK a \in Nat : a = p \div w
    BY DivMod
  <2>2. a % w \in Nat
    BY DivMod
  <2> QED  BY <1>1, <2>1, <2>2 DEF High
<1>7. PICK y \in Nat : y = Low(s * u)
  <2>1. PICK g \in Nat : g = s * u
    BY ProductNat
  <2>2. g % w \in Nat
    BY DivMod
  <2> QED  BY <1>1, <2>1, <2>2 DEF Low
<1>8. DataLba(m) = DoubleWord(f * k + y * Word + m.hidden + m.reserved)
  BY <1>2, <1>3, <1>4, <1>5, <1>6, <1>7 DEF DataLba, DataLba32
<1> QED  BY <1>2, <1>3, <1>4, <1>8

LEMMA DataLbaType ==
  ASSUME NEW m, NumbersMade(m)
  PROVE  DataLba(m) \in Nat /\ DataLba(m) < Word * Word
<1>1. CASE m.type = "FAT32"
  <2>1. PICK y \in Nat :
          DataLba(m) = DoubleWord(m.fats * Low(SectPerFAT(m)) + y * Word + m.hidden + m.reserved)
    BY <1>1, SumOf32
  <2>2. PICK f \in Nat, k \in Nat, w \in Nat, h \in Nat, r \in Nat :
          f = m.fats /\ k = Low(SectPerFAT(m)) /\ w = Word /\ h = m.hidden /\ r = m.reserved
    BY <1>1, SumOf32, FirstProduct, WordType DEF NumbersMade
  <2>3. f * k + y * w + h + r \in Nat
    BY ProductNat
  <2> QED  BY <2>1, <2>2, <2>3, DoubleWordType
<1>2. CASE m.type # "FAT32"
  BY <1>2, DataLbaOff32, MediumNumbers
<1> QED  BY <1>1, <1>2

(* And when it is found, so was the length of the FAT: a wrong low byte    *)
(* is not made up for by the rest of the sum.                              *)
LEMMA LengthSeen ==
  ASSUME NEW m, NumbersMade(m), m.type = "FAT32", DataLba(m) = DataStart(m)
  PROVE  SectPerFAT(m) = m.perFat
<1>1. PICK h \in Nat, l \in 0 .. ByteSize - 1, e \in 0 .. ByteSize - 1 :
        m.perFat = ByteSize * h + l /\ SectPerFAT(m) = ByteSize * h + e
  BY ByteOfLength
<1>2. PICK b \in Nat \ {0}, w \in Nat \ {0}, v \in Nat \ {0} :
        b = ByteSize /\ w = Word /\ w = b * b /\ v = w * w
  BY WordType
<1>3. PICK h1 \in Nat, h0 \in 0 .. b - 1 : h = b * h1 + h0
  <2>1. h \div b \in Nat /\ h % b \in 0 .. b - 1 /\ h = b * (h \div b) + (h % b)
    BY DivMod
  <2> QED  BY <2>1
<1>4. PICK n \in Nat, k \in Nat, x \in Nat : n = b * h0 + l /\ k = b * h0 + e /\ x = b * h0
  BY <1>2, ProductNat
<1>5. m.perFat = w * h1 + n
  <2>1. h0 \in 0 .. ByteSize - 1 /\ h = ByteSize * h1 + h0
    BY <1>2, <1>3
  <2>2. ByteSize * h + l = Word * h1 + (ByteSize * h0 + l)
    BY <2>1, LowOfBytes
  <2> QED  BY <2>2, <1>1, <1>2, <1>4
<1>6. Low(SectPerFAT(m)) = k
  <2>0. h0 \in 0 .. ByteSize - 1 /\ h = ByteSize * h1 + h0
    BY <1>2, <1>3
  <2>1. Low(ByteSize * h + e) = ByteSize * h0 + e
    BY <2>0, LowOfBytes
  <2> QED  BY <2>1, <1>1, <1>2, <1>4
<1>7. PICK f \in Nat, p \in Nat, hid \in Nat, r \in Nat :
        f = m.fats /\ f >= 1 /\ f < b /\ p = m.perFat /\ hid = m.hidden /\ r = m.reserved
  BY <1>2, FirstProduct DEF NumbersMade
<1>8. PICK y \in Nat :
        DataLba(m) = DoubleWord(m.fats * Low(SectPerFAT(m)) + y * Word + m.hidden + m.reserved)
  BY SumOf32
<1>10. DataLba(m) = DoubleWord(f * k + y * w + hid + r)
  BY <1>2, <1>6, <1>7, <1>8
<1>11. DataStart(m) = hid + r + f * p
  BY <1>7 DEF DataStart, FatEnd, HasRootArea
<1>12. PICK fk \in Nat, yw \in Nat, fp \in Nat, t \in Nat :
         fk = f * k /\ yw = y * w /\ fp = f * p /\ t = fk + yw + hid + r
  BY ProductNat
<1>13. PICK a \in Nat, z \in 0 .. v - 1 : z = t % v /\ t = v * a + z
  <2>1. t \div v \in Nat /\ t % v \in 0 .. v - 1 /\ t = v * (t \div v) + (t % v)
    BY DivMod
  <2> QED  BY <2>1
<1>14. z = hid + r + fp
  BY <1>2, <1>10, <1>11, <1>12, <1>13 DEF DoubleWord
<1>15. fk + yw = v * a + fp
  <2>1. PICK va \in Nat : va = v * a
    BY ProductNat
  <2> QED  BY <2>1, <1>12, <1>13, <1>14
<1>16. PICK fe \in Nat, fl \in Nat, fx \in Nat, fh \in Nat :
         fe = f * e /\ fl = f * l /\ fx = f * x /\ fh = f * h1
  BY <1>2, ProductNat
<1>17. fk = fx + fe
  <2>1. f * (x + e) = f * x + f * e
    BY <1>2
  <2>2. k = x + e
    BY <1>4
  <2> QED  BY <2>1, <2>2, <1>12, <1>16
<1>18. fp = w * fh + fx + fl
  <2>1. f * (w * h1 + (x + l)) = w * (f * h1) + f * x + f * l
    BY <1>2
  <2>2. p = w * h1 + (x + l)
    BY <1>4, <1>5, <1>7
  <2> QED  BY <2>1, <2>2, <1>12, <1>16
<1>19. fe < w /\ fl < w
  <2>1. f * e <= (b - 1) * (b - 1) /\ f * l <= (b - 1) * (b - 1)
    BY <1>2, <1>7
  <2>2. (b - 1) * (b - 1) < b * b
    OBVIOUS
  <2> QED  BY <1>2, <1>16, <2>1, <2>2
<1>20. fe + w * y = w * (w * a + fh) + fl
  <2>1. w * (w * a + fh) = v * a + w * fh
    BY <1>2
  <2>2. y * w = w * y
    OBVIOUS
  <2>3. PICK va \in Nat, wh \in Nat : va = v * a /\ wh = w * fh
    BY ProductNat
  <2> QED  BY <2>1, <2>2, <2>3, <1>12, <1>15, <1>17, <1>18
<1>21. fe = fl
  <2>1. PICK c \in Nat, j \in Nat : c = w * a + fh /\ j = w * c + fl
    BY ProductNat
  <2>2. j = w * y + fe
    BY <1>20, <2>1
  <2>3. j % w = fl
    BY <1>19, <2>1, DivIs
  <2>4. j % w = fe
    BY <1>19, <2>2, DivIs
  <2> QED  BY <2>3, <2>4
<1>22. e = l
  BY <1>2, <1>7, <1>16, <1>21
<1> QED  BY <1>1, <1>22

(* What FSInit counts back from the start of the data area.                *)
LEMMA ParmsAre ==
  ASSUME NEW m, NumbersMade(m), m.type = "FAT32" => SectPerFAT(m) = m.perFat,
         EntriesPerRootSector = DirEntries,
         NEW v, v = [type |-> m.type, data |-> DataStart(m), sectsPerClust |-> m.perCluster,
                     fats |-> m.fats, perFat |-> SectPerFAT(m), entries |-> m.entries,
                     rootCluster |-> m.rootCluster, fatOffset |-> m.fatOffset,
                     partition |-> m.hidden, second |-> m.second]
  PROVE  Parms(v) = [root |-> RootStart(m), fat |-> FatStart(m)]
<1>1. /\ FatEnd(m) \in Nat /\ DataStart(m) \in Nat /\ FatEnd(m) <= DataStart(m)
  BY MediumNumbers
<1>2. PICK c \in Nat, h \in Nat, r \in Nat : c = m.fats * m.perFat /\ h = m.hidden /\ r = m.reserved
  BY ProductNat, FirstProduct DEF NumbersMade
<1>3. CASE HasRootArea(m)
  <2>1. FatEnd(m) = h + r + c
    BY <1>2, <1>3 DEF FatEnd, HasRootArea
  <2>2. PICK e \in Nat, d \in Nat \ {0} : e = m.entries /\ d = DirEntries
    BY SectorAssumption DEF NumbersMade
  <2>3. CeilDiv(e, d) = e \div d + (IF e % d # 0 THEN 1 ELSE 0) /\ CeilDiv(e, d) \in Nat
    BY CeilDivIs
  <2>4. PICK q \in Nat : q = e \div d
    BY DivMod
  <2>5. DataStart(m) = FatEnd(m) + CeilDiv(e, d)
    BY <1>3, <2>2 DEF DataStart
  <2>6. Root16(v) = DataStart(m) - e \div d - (IF e % d # 0 THEN 1 ELSE 0)
    BY <2>2 DEF Root16
  <2>7. Root16(v) = FatEnd(m)
    BY <1>1, <2>3, <2>4, <2>5, <2>6
  <2>8. SectPerFAT(m) = m.perFat
    BY <1>3 DEF SectPerFAT, HasRootArea
  <2>9. Parms(v) = [root |-> FatEnd(m), fat |-> FatEnd(m) - c]
    BY <1>2, <1>3, <2>7, <2>8 DEF Parms, Parms16, HasRootArea
  <2>10. FatEnd(m) - c = h + r
    BY <2>1
  <2>11. FatStart(m) = h + r
    BY <1>2, <1>3 DEF FatStart, HasRootArea
  <2> QED  BY <1>3, <2>9, <2>10, <2>11 DEF RootStart
<1>4. CASE m.type = "FAT32"
  <2>1. DataStart(m) = h + r + c
    BY <1>2, <1>4 DEF DataStart, FatEnd, HasRootArea
  <2>2. Parms(v) = [root |-> ClusterStart(m, m.rootCluster), fat |-> DataStart(m) - c]
    BY <1>2, <1>4 DEF Parms, Parms32, ClusterLba, ClusterStart
  <2>3. DataStart(m) - c = h + r
    BY <2>1
  <2>4. FatStart(m) = h + r
    BY <1>2, <1>4 DEF FatStart
  <2> QED  BY <1>4, <2>2, <2>3, <2>4 DEF RootStart, HasRootArea
<1>5. CASE m.type = "exFAT"
  <2>1. PICK o \in Nat, p \in Nat : o = m.fatOffset /\ p = m.perFat /\ SectPerFAT(m) = p
    BY <1>5 DEF NumbersMade, SectPerFAT
  <2>2. Parms(v) = [root |-> ClusterStart(m, m.rootCluster),
                    fat |-> o + h + (IF m.second /\ m.fats = 2 THEN p ELSE 0)]
    BY <1>2, <1>5, <2>1 DEF Parms, ParmsEx, ClusterLba, ClusterStart
  <2>3. FatStart(m) = h + (o + (IF m.second THEN p ELSE 0))
    BY <1>2, <1>5, <2>1 DEF FatStart
  <2>4. m.second => m.fats = 2
    BY DEF NumbersMade
  <2>5. o + h + (IF m.second /\ m.fats = 2 THEN p ELSE 0) = FatStart(m)
    BY <2>3, <2>4
  <2> QED  BY <1>5, <2>2, <2>5 DEF RootStart, HasRootArea
<1> QED  BY <1>3, <1>4, <1>5 DEF NumbersMade, HasRootArea

LEMMA ClusterFits ==
  ASSUME NEW c \in Nat, c >= 2, c < Word
  PROVE  Low(Low(c) - 2) = c - 2
<1>1. Low(c) = c
  BY LowIs
<1>2. PICK w \in Nat : w = Word
  BY WordType
<1>3. PICK d \in Nat : d = c - 2
  OBVIOUS
<1>4. Low(d) = d
  BY <1>2, <1>3, LowIs
<1> QED  BY <1>1, <1>3, <1>4

(* The boot sector finds the directory and BLDR.                           *)
LEMMA RootLbaIs ==
  ASSUME NEW m, NumbersMade(m), DataLba(m) = DataStart(m),
         m.type = "FAT32" => High(DataStart(m)) = 0 /\ m.rootCluster - 2 < ByteSize,
         m.type = "exFAT" => m.rootCluster < Word
  PROVE  RootLba(m) = RootStart(m)
<1>1. /\ FatEnd(m) \in Nat /\ DataStart(m) \in Nat /\ RootStart(m) \in Nat
      /\ DataStart(m) < Word * Word /\ RootStart(m) < Word * Word
  BY MediumNumbers
<1>2. CASE HasRootArea(m)
  <2>1. Low(m.perFat) = m.perFat
    BY <1>2, LowIs DEF NumbersMade
  <2>2. PICK c \in Nat, h \in Nat, r \in Nat : c = m.fats * m.perFat /\ h = m.hidden /\ r = m.reserved
    BY ProductNat, FirstProduct DEF NumbersMade
  <2>3. FatEnd(m) = h + r + c
    BY <1>2, <2>2 DEF FatEnd, HasRootArea
  <2>4. c + h + r = h + r + c
    OBVIOUS
  <2>5. RootEnd(m) = DoubleWord(FatEnd(m))
    BY <2>1, <2>2, <2>3, <2>4 DEF RootEnd
  <2>6. RootStart(m) = FatEnd(m)
    BY <1>2 DEF RootStart
  <2>7. RootLba(m) = RootEnd(m)
    BY <1>2 DEF RootLba, HasRootArea
  <2> QED  BY <1>1, <2>5, <2>6, <2>7, DoubleWordIs
<1>3. CASE ~HasRootArea(m)
  <2>1. PICK c \in Nat, p \in Nat : m.rootCluster - 2 = c /\ p = m.perCluster
    BY <1>3 DEF NumbersMade
  <2>2. RootStart(m) = DataStart(m) + c * p
    BY <1>3, <2>1 DEF RootStart, ClusterStart
  <2>3. CASE m.type = "FAT32"
    <3>1. c < ByteSize
      BY <2>1, <2>3
    <3>2. PICK b \in Nat \ {0}, w \in Nat \ {0} : b = ByteSize /\ w = Word
      BY WordType
    <3>3. c % b = c
      BY <3>1, <3>2, DivIs, c = b * 0 + c
    <3>4. RootLba(m) = DoubleWord(DataStart(m) + c * p + 0 * w)
      BY <1>3, <2>1, <2>3, <3>2, <3>3 DEF RootLba
    <3>5. PICK cp \in Nat : cp = c * p
      BY ProductNat
    <3>6. RootLba(m) = DoubleWord(RootStart(m))
      BY <1>1, <2>2, <3>4, <3>5
    <3> QED  BY <3>6, <1>1, DoubleWordIs
  <2>4. CASE m.type = "exFAT"
    <3>1. Low(Low(m.rootCluster) - 2) = c
      BY <1>3, <2>1, <2>4, ClusterFits DEF NumbersMade
    <3>2. RootLba(m) = DoubleWord(DataStart(m) + c * p)
      BY <1>3, <2>1, <2>4, <3>1 DEF RootLba
    <3> QED  BY <1>1, <2>2, <3>2, DoubleWordIs
  <2> QED  BY <1>3, <2>3, <2>4 DEF NumbersMade, HasRootArea
<1> QED  BY <1>2, <1>3

LEMMA FirstSector ==
  ASSUME NEW m, NumbersMade(m), NEW f, FileMade(m, f), 1 \in DOMAIN f.sectors
  PROVE  /\ f.cluster - 2 \in Nat /\ m.perCluster \in Nat
         /\ FileSector(m, f, 1) = DataStart(m) + (f.cluster - 2) * m.perCluster
         /\ FileSector(m, f, 1) \in Nat /\ FileSector(m, f, 1) < Word * Word
         /\ FileSector(m, f, 1) >= DataStart(m)
<1>1. PICK c \in Nat, p \in Nat, d \in Nat : c = f.cluster - 2 /\ p = m.perCluster /\ d = DataStart(m)
  <2>1. f.cluster - 2 \in Nat
    BY DEF FileMade
  <2>2. m.perCluster \in Nat
    BY DEF NumbersMade
  <2> QED  BY <2>1, <2>2, MediumNumbers
<1>2. PICK x \in Nat : x = d + c * p
  BY ProductNat
<1>3. ClusterStart(m, f.cluster) = x
  BY <1>1, <1>2 DEF ClusterStart
<1>4. FileSector(m, f, 1) = x
  BY <1>3 DEF FileSector, FileMade
<1>5. x >= d
  BY <1>2, ProductNat
<1> QED  BY <1>1, <1>2, <1>4, <1>5 DEF FileMade, OnMedium

LEMMA LoaderLbaIs ==
  ASSUME NEW m, NumbersMade(m), DataLba(m) = DataStart(m),
         NEW f, FileMade(m, f), 1 \in DOMAIN f.sectors, f.cluster < Word
  PROVE  LoaderLba(m, f.cluster) = FileSector(m, f, 1)
<1>1. Low(Low(f.cluster) - 2) = f.cluster - 2
  BY ClusterFits DEF FileMade
<1> QED  BY <1>1, FirstSector, DoubleWordIs DEF LoaderLba

(* The converse: where BLDR is found, so was the start of the data area.   *)
LEMMA StartSeen ==
  ASSUME NEW m, NumbersMade(m), NEW f, FileMade(m, f), 1 \in DOMAIN f.sectors, f.cluster < Word,
         LoaderLba(m, f.cluster) = FileSector(m, f, 1)
  PROVE  DataLba(m) = DataStart(m)
<1>1. Low(Low(f.cluster) - 2) = f.cluster - 2
  BY ClusterFits DEF FileMade
<1>2. PICK v \in Nat \ {0} : v = Word * Word
  BY WordType
<1>3. PICK d \in Nat, s \in Nat : d = DataLba(m) /\ s = DataStart(m) /\ d < v /\ s < v
  BY <1>2, MediumNumbers, DataLbaType
<1>4. PICK x \in Nat : x = (f.cluster - 2) * m.perCluster
  BY FirstSector, ProductNat
<1>5. FileSector(m, f, 1) = s + x /\ s + x < v
  BY <1>2, <1>3, <1>4, FirstSector
<1>6. PICK t \in Nat : t = d + x
  OBVIOUS
<1>7. t % v = s + x
  BY <1>1, <1>2, <1>3, <1>4, <1>5, <1>6 DEF LoaderLba, DoubleWord
<1>8. t < v + (s + x) \/ t >= v + (s + x)
  BY <1>2, <1>5
<1>9. PICK q \in Nat : t = v * q + (s + x)
  <2>1. t \div v \in Nat /\ t = v * (t \div v) + (t % v)
    BY DivMod
  <2> QED  BY <2>1, <1>7
<1>10. q = 0
  <2>1. CASE q >= 1
    <3>1. v * q >= v
      BY <2>1
    <3>2. PICK y \in Nat : y = v * q
      BY ProductNat
    <3>3. d >= v
      BY <3>1, <3>2, <1>6, <1>9
    <3> QED  BY <3>3, <1>2, <1>3
  <2> QED  BY <2>1
<1>11. v * 0 = 0
  OBVIOUS
<1> QED  BY <1>3, <1>6, <1>9, <1>10, <1>11

(* A file in one piece lies sector after sector.                           *)
LEMMA PieceIs ==
  ASSUME NEW m, NumbersMade(m), NEW f, FileMade(m, f), 1 \in DOMAIN f.sectors,
         FirstPiece(f), NEW i \in 1 .. READ_LENGTH
  PROVE  FileSector(m, f, i) = FileSector(m, f, 1) + (i - 1)
<1>1. PICK x \in Nat : x = DataStart(m) + (f.cluster - 2) * m.perCluster /\ FileSector(m, f, 1) = x
  BY FirstSector
<1>2. i \in Nat /\ (f.gap = 0 \/ ~(i >= f.split))
  BY SectorAssumption DEF FirstPiece, FileMade
<1>3. FileSector(m, f, i) = x + i - 1 + 0
  BY <1>1, <1>2 DEF FileSector, ClusterStart
<1> QED  BY <1>1, <1>2, <1>3

(* Cylinder, head and sector of a number, and back.                        *)
LEMMA ChsOf ==
  ASSUME NEW n \in Nat, NEW t \in Nat \ {0}, NEW h \in Nat \ {0}
  PROVE  \E c \in Nat, e \in 0 .. h - 1, s \in 0 .. t - 1 :
           n % t = s /\ (n \div t) % h = e /\ (n \div t) \div h = c /\ (c * h + e) * t + s = n
<1>1. PICK q \in Nat, s \in 0 .. t - 1 : q = n \div t /\ s = n % t /\ n = t * q + s
  <2>1. n \div t \in Nat /\ n % t \in 0 .. t - 1 /\ n = t * (n \div t) + (n % t)
    BY DivMod
  <2> QED  BY <2>1
<1>2. PICK c \in Nat, e \in 0 .. h - 1 : c = q \div h /\ e = q % h /\ q = h * c + e
  <2>1. q \div h \in Nat /\ q % h \in 0 .. h - 1 /\ q = h * (q \div h) + (q % h)
    BY DivMod
  <2> QED  BY <2>1
<1>3. n = t * q + s /\ q = h * c + e
  BY <1>1, <1>2
<1>4. (c * h + e) * t + s = n
  <2>1. c * h = h * c
    OBVIOUS
  <2>2. q * t = t * q
    OBVIOUS
  <2> QED  BY <2>1, <2>2, <1>3
<1> QED  BY <1>1, <1>2, <1>4

LEMMA CylinderBelow ==
  ASSUME NEW n \in Nat, NEW t \in Nat, NEW h \in Nat, NEW c \in Nat, NEW e \in Nat,
         NEW s \in Nat, n = (c * h + e) * t + s, NEW z \in Nat, n < z * h * t
  PROVE  c < z
<1>1. SUFFICES ASSUME c >= z PROVE FALSE
  OBVIOUS
<1>2. PICK g \in Nat : c = z + g
  <2>1. c - z \in Nat /\ c = z + (c - z)
    BY <1>1
  <2> QED  BY <2>1
<1>3. (c * h + e) * t + s = z * h * t + (g * h * t + e * t + s)
  BY <1>2
<1>4. g * h * t \in Nat /\ e * t \in Nat /\ z * h * t \in Nat
  BY ProductNat
<1>5. PICK x \in Nat, y \in Nat, v \in Nat : x = g * h * t /\ y = e * t /\ v = z * h * t
  BY <1>4
<1>6. n = v + (x + y + s) /\ n < v
  BY <1>3, <1>5
<1> QED  BY <1>6

(* A place that is on the drive and in reach is read.                      *)
LEMMA ChsPlaceIs ==
  ASSUME NEW m, NumbersMade(m), NEW n \in Nat, OnMedium(m, n), InReach(m, n),
         n < Word * m.drive.track
  PROVE  ChsPlace(m, n) = n
<1>1. PICK t \in Nat, h \in Nat, y \in Nat, k \in Nat \ {0}, w \in Nat \ {0} :
        t = m.drive.track /\ h = m.drive.heads /\ y = m.drive.cylinders /\ k = Cylinders /\ w = Word
  BY SectorAssumption, WordType DEF NumbersMade
<1>2. n < y * h * t /\ n < k * h * t /\ n < w * t
  BY <1>1 DEF OnMedium, InReach
<1>3. t \in Nat \ {0} /\ h \in Nat \ {0}
  BY <1>2
<1>c. PICK c \in Nat, e \in 0 .. h - 1, s \in 0 .. t - 1 :
        n % t = s /\ (n \div t) % h = e /\ (n \div t) \div h = c /\ (c * h + e) * t + s = n
  BY <1>3, ChsOf
<1>b. c < k /\ c < y
  BY <1>2, <1>c, CylinderBelow
<1>4. /\ n % t = s /\ (n \div t) % h = e /\ (n \div t) \div h = c
      /\ c < k /\ c < y /\ (c * h + e) * t + s = n
  BY <1>b, <1>c
<1>5. c % k = c
  BY <1>4, DivIs, c = k * 0 + c
<1>6. PICK g \in Nat : g = High(n) /\ g < t
  <2>1. n \div w \in Nat /\ n % w \in 0 .. w - 1 /\ n = w * (n \div w) + (n % w)
    BY DivMod
  <2>2. PICK a \in Nat, r \in 0 .. w - 1 : a = n \div w /\ n = w * a + r
    BY <2>1
  <2>3. PICK x \in Nat, g \in Nat : x = w * a /\ g = w * t
    BY ProductNat
  <2>4. a < t
    <3>1. SUFFICES ASSUME a >= t PROVE FALSE
      OBVIOUS
    <3>2. w * a >= w * t
      BY <3>1
    <3> QED  BY <3>2, <2>2, <2>3, <1>2
  <2>5. PICK z \in Nat : z = a % w /\ z <= a
    <3>1. a \div w \in Nat /\ a % w \in 0 .. w - 1 /\ a = w * (a \div w) + (a % w)
      BY DivMod
    <3>2. PICK p \in Nat, z \in 0 .. w - 1 : z = a % w /\ a = w * p + z
      BY <3>1
    <3>3. PICK wp \in Nat : wp = w * p
      BY ProductNat
    <3>4. z <= a
      BY <3>2, <3>3
    <3> QED  BY <3>2, <3>4
  <2>6. High(n) = (n \div w) % w
    BY <1>1 DEF High
  <2>7. High(n) = z
    BY <2>2, <2>5, <2>6
  <2>8. z < t
    BY <2>4, <2>5
  <2> QED  BY <2>7, <2>8
<1>7. /\ n % m.drive.track = s /\ (n \div m.drive.track) % m.drive.heads = e
      /\ ((n \div m.drive.track) \div m.drive.heads) % Cylinders = c
  BY <1>1, <1>4, <1>5
<1>8. ByChs(m.drive, c, e, s) = n
  BY <1>1, <1>4 DEF ByChs
<1>9. OnDrive(m.drive, c, e, s) /\ ~(High(n) >= m.drive.track)
  <2>1. e < h /\ s < t
    OBVIOUS
  <2>2. OnDrive(m.drive, c, e, s)
    BY <2>1, <1>1, <1>4 DEF OnDrive
  <2>3. ~(g >= t)
    BY <1>6
  <2> QED  BY <1>1, <1>6, <2>2, <2>3
<1> QED  BY <1>7, <1>8, <1>9 DEF ChsPlace

LEMMA OrNought == ASSUME NEW a \in Nat PROVE Or(a, 0) = a
<1>1. /\ Bit(0, 1) = 0 /\ Bit(0, 2) = 0 /\ Bit(0, 4) = 0 /\ Bit(0, 8) = 0
      /\ Bit(0, 16) = 0 /\ Bit(0, 32) = 0
  BY DEF Bit
<1> QED  BY <1>1 DEF Or

(* So is it by the boot sectors that put the bits of the cylinder into the *)
(* number of the sector.                                                   *)
LEMMA WecChsPlaceIs ==
  ASSUME NEW m, NumbersMade(m), NEW n \in Nat, OnMedium(m, n), InReach(m, n)
  PROVE  WecChsPlace(m, n) = n
<1>1. PICK t \in Nat, h \in Nat, y \in Nat, k \in Nat \ {0}, w \in Nat \ {0} :
        /\ t = m.drive.track /\ h = m.drive.heads /\ y = m.drive.cylinders /\ k = Cylinders
        /\ w = Word /\ k <= w
  BY SectorAssumption, WordType DEF NumbersMade, Word
<1>2. n < y * h * t /\ n < k * h * t
  BY <1>1 DEF OnMedium, InReach
<1>3. t \in Nat \ {0} /\ h \in Nat \ {0}
  BY <1>2
<1>c. PICK c \in Nat, e \in 0 .. h - 1, s \in 0 .. t - 1 :
        n % t = s /\ (n \div t) % h = e /\ (n \div t) \div h = c /\ (c * h + e) * t + s = n
  BY <1>3, ChsOf
<1>b. c < k /\ c < y
  BY <1>2, <1>c, CylinderBelow
<1>4. /\ n % t = s /\ (n \div t) % h = e /\ (n \div t) \div h = c
      /\ c < k /\ c < y /\ (c * h + e) * t + s = n
  BY <1>b, <1>c
<1>5. c % k = c /\ c \div k = 0
  BY <1>4, DivIs, c = k * 0 + c
<1>6. Or(s + 1, c \div k) = s + 1
  BY <1>5, OrNought
<1>7. /\ n % m.drive.track = s /\ (n \div m.drive.track) % m.drive.heads = e
      /\ (n \div m.drive.track) \div m.drive.heads = c
  BY <1>1, <1>4
<1>8. ByChs(m.drive, c, e, s + 1 - 1) = n
  BY <1>1, <1>4 DEF ByChs
<1>9. OnDrive(m.drive, c, e, 0) /\ ~(c >= Word) /\ ~(s + 1 > m.drive.track)
  <2>1. e < h /\ s < t /\ 0 < t
    OBVIOUS
  <2>2. OnDrive(m.drive, c, e, 0)
    BY <1>1, <1>4, <2>1 DEF OnDrive
  <2>3. ~(c >= w) /\ ~(s + 1 > t)
    BY <1>1, <1>4, <2>1
  <2> QED  BY <1>1, <2>2, <2>3
<1> QED  BY <1>1, <1>5, <1>6, <1>7, <1>8, <1>9 DEF WecChsPlace

Readable(m, n) ==
  /\ OnMedium(m, n)
  /\ IF UsesPackets(m) THEN m.drive.edd ELSE InReach(m, n) /\ QuotientFits(m, n)

LEMMA SectorPlaceIs ==
  ASSUME NEW m, NumbersMade(m), NEW n \in Nat, Readable(m, n)
  PROVE  SectorPlace(m, n) = n
<1>1. CASE UsesPackets(m)
  BY <1>1 DEF Readable, OnMedium, SectorPlace, ExtendedPlace
<1>2. CASE ~UsesPackets(m) /\ TwoStage(m)
  BY <1>2, WecChsPlaceIs DEF Readable, SectorPlace
<1>3. CASE ~UsesPackets(m) /\ ~TwoStage(m)
  BY <1>3, ChsPlaceIs DEF Readable, QuotientFits, SectorPlace
<1> QED  BY <1>1, <1>2, <1>3

(* What is at these places.                                                *)
LEMMA ContentOfFile ==
  ASSUME NEW m, FilesMade(m), NEW a \in DOMAIN m.files, NEW i \in DOMAIN m.files[a].sectors
  PROVE  Content(m, FileSector(m, m.files[a], i)) = m.files[a].sectors[i]
<1> DEFINE p == FileSector(m, m.files[a], i)
           Sectors == UNION {{n} \X DOMAIN m.files[n].sectors : n \in DOMAIN m.files}
           Here == {x \in Sectors : FileSector(m, m.files[x[1]], x[2]) = p}
<1>1. p # RootStart(m)
  BY DEF FilesMade, FileMade
<1>2. <<a, i>> \in Here
  OBVIOUS
<1>3. ASSUME NEW x \in Here PROVE x[1] = a /\ x[2] = i
  <2>1. PICK n \in DOMAIN m.files : x \in {n} \X DOMAIN m.files[n].sectors
    OBVIOUS
  <2>2. x[1] = n /\ x[2] \in DOMAIN m.files[n].sectors
    BY <2>1
  <2>3. FileSector(m, m.files[n], x[2]) = FileSector(m, m.files[a], i)
    BY <2>2
  <2> QED  BY <2>2, <2>3 DEF FilesMade
<1>4. (CHOOSE x \in Here : TRUE) \in Here
  BY <1>2
<1>5. Here # {}
  BY <1>2
<1>6. PICK x : x = (CHOOSE y \in Here : TRUE) /\ x[1] = a /\ x[2] = i
  BY <1>3, <1>4
<1>7. Content(m, p) = m.files[x[1]].sectors[x[2]]
  BY <1>1, <1>5, <1>6 DEF Content
<1> QED  BY <1>6, <1>7

Held(m) ==
  {Directory(m), Blank}
    \cup UNION {{m.files[n].sectors[i] : i \in DOMAIN m.files[n].sectors} : n \in DOMAIN m.files}

LEMMA ContentHeld == ASSUME NEW m, NEW p PROVE Content(m, p) \in Held(m)
<1> DEFINE Sectors == UNION {{n} \X DOMAIN m.files[n].sectors : n \in DOMAIN m.files}
           Here == {x \in Sectors : FileSector(m, m.files[x[1]], x[2]) = p}
<1>1. CASE p = RootStart(m)
  BY <1>1 DEF Content, Held
<1>2. CASE p # RootStart(m) /\ Here = {}
  BY <1>2 DEF Content, Held
<1>3. CASE p # RootStart(m) /\ Here # {}
  <2>1. PICK x \in Here : x = (CHOOSE y \in Here : TRUE)
    BY <1>3
  <2>2. PICK n \in DOMAIN m.files : x \in {n} \X DOMAIN m.files[n].sectors
    OBVIOUS
  <2>3. x[1] = n /\ x[2] \in DOMAIN m.files[n].sectors
    BY <2>2
  <2>4. Content(m, p) = m.files[x[1]].sectors[x[2]]
    BY <1>3, <2>1 DEF Content
  <2> QED  BY <2>3, <2>4 DEF Held
<1> QED  BY <1>1, <1>2, <1>3

(* Where the sectors of the loader are asked for.                                *)
FirstAsked(m) == LoaderLba(m, m.files[ImageName(m)].cluster)
AskedAt(m, n) == DoubleWord(FirstAsked(m) + n)

LEMMA AskedType ==
  ASSUME NEW m, NumbersMade(m), FilesMade(m), ImageName(m) \in DOMAIN m.files
  PROVE  FirstAsked(m) \in Nat /\ AskedAt(m, 0) = FirstAsked(m)
<1>1. PICK c \in Nat : c = m.files[ImageName(m)].cluster
  BY DEF FilesMade, FileMade
<1>2. PICK w \in Nat \ {0} : w = Word
  BY WordType
<1>3. PICK d \in Int : d = Low(c) - 2
  BY <1>2 DEF Low
<1>4. PICK e \in Nat : e = Low(d)
  <2>1. d % w \in Nat
    OBVIOUS
  <2> QED  BY <1>2, <2>1 DEF Low
<1>5. PICK s \in Nat, p \in Nat : s = DataLba(m) /\ p = m.perCluster
  BY DataLbaType DEF NumbersMade
<1>6. PICK x \in Nat : x = s + e * p
  BY ProductNat
<1>7. FirstAsked(m) = DoubleWord(x)
  BY <1>1, <1>3, <1>4, <1>5, <1>6 DEF FirstAsked, LoaderLba
<1>8. DoubleWord(x) \in Nat /\ DoubleWord(DoubleWord(x) + 0) = DoubleWord(x + 0)
  BY DoubleWordType, DoubleWordSum
<1>9. DoubleWord(x) + 0 = DoubleWord(x) /\ x + 0 = x
  BY <1>8
<1> QED  BY <1>7, <1>8, <1>9 DEF AskedAt

LEMMA AskedNext ==
  ASSUME NEW m, NumbersMade(m), FilesMade(m), ImageName(m) \in DOMAIN m.files, NEW n \in Nat
  PROVE  DoubleWord(AskedAt(m, n) + 1) = AskedAt(m, n + 1)
<1>1. PICK a \in Nat : a = FirstAsked(m)
  BY AskedType
<1>2. PICK b \in Nat : b = a + n
  OBVIOUS
<1>3. DoubleWord(DoubleWord(b) + 1) = DoubleWord(b + 1)
  BY DoubleWordSum
<1>4. b + 1 = a + (n + 1)
  BY <1>2
<1> QED  BY <1>1, <1>2, <1>3, <1>4 DEF AskedAt

(* A volume that has what the boot sector needs: all that is asked for is  *)
(* read, and is what it should be.                                         *)
LEMMA LoadsFound ==
  ASSUME NEW m, NumbersMade(m), FilesMade(m), NEW stage \in 1 .. READ_LENGTH,
         SectorLoads(m, stage)
  PROVE  /\ ImageName(m) \in DOMAIN m.files
         /\ SectorPlace(m, RootLba(m)) # -1
         /\ Content(m, SectorPlace(m, RootLba(m))) = Directory(m)
         /\ \A n \in 0 .. READ_LENGTH - 1 : SectorPlace(m, AskedAt(m, n)) # -1
         /\ \A n \in 0 .. stage - 1 :
              Content(m, SectorPlace(m, AskedAt(m, n))) = [stage |-> n + 1]
<1>2. ImageName(m) \in DOMAIN m.files
  BY DEF SectorLoads
<1>3. PICK f : f = m.files[ImageName(m)] /\ FileMade(m, f)
  BY <1>2 DEF FilesMade
<1>4. /\ FirstPiece(f) /\ IsStage(f.sectors, stage) /\ f.cluster < Word
      /\ OnMedium(m, FileSector(m, f, 1) + READ_LENGTH - 1)
      /\ UsesPackets(m) => m.drive.edd
      /\ ~UsesPackets(m) =>
           /\ InReach(m, RootStart(m)) /\ QuotientFits(m, RootStart(m))
           /\ InReach(m, FileSector(m, f, 1) + READ_LENGTH - 1)
           /\ QuotientFits(m, FileSector(m, f, 1) + READ_LENGTH - 1)
  BY <1>3 DEF SectorLoads
<1>5. PICK l \in Nat : l = Len(f.sectors) /\ DOMAIN f.sectors = 1 .. l /\ stage <= l
  BY <1>3, <1>4 DEF FileMade, IsStage
<1>6. stage \in Nat /\ 1 <= stage /\ stage <= READ_LENGTH /\ READ_LENGTH \in Nat
  BY SectorAssumption
<1>7. 1 \in DOMAIN f.sectors
  BY <1>5, <1>6
<1>8. DataLba(m) = DataStart(m)
  <2>1. CASE m.type = "FAT32"
    BY <2>1, DataLba32Is DEF SectorLoads
  <2> QED  BY <2>1, DataLbaOff32
<1>9. RootLba(m) = RootStart(m)
  BY <1>8, RootLbaIs DEF SectorLoads
<1>10. FirstAsked(m) = FileSector(m, f, 1)
  BY <1>3, <1>4, <1>7, <1>8, LoaderLbaIs DEF FirstAsked
<1>11. PICK x \in Nat : x = FileSector(m, f, 1) /\ x >= DataStart(m)
  BY <1>3, <1>7, FirstSector
<1>12. /\ FatEnd(m) \in Nat /\ DataStart(m) \in Nat /\ RootStart(m) \in Nat
       /\ FatEnd(m) <= DataStart(m)
  BY MediumNumbers
<1>13. ASSUME NEW n \in 0 .. READ_LENGTH - 1
       PROVE  SectorPlace(m, x + n) = x + n /\ AskedAt(m, n) = x + n
  <2>1. PICK y \in Nat : y = x + n /\ y <= x + READ_LENGTH - 1
    BY <1>6
  <2>2. PICK o \in Nat, k \in Nat, w \in Nat, v \in Nat :
          /\ o = m.drive.cylinders * m.drive.heads * m.drive.track
          /\ k = Cylinders * m.drive.heads * m.drive.track
          /\ w = Word * m.drive.track /\ v = Word * Word
    <3>1. PICK t \in Nat, h \in Nat, c \in Nat, u \in Nat, q \in Nat :
            /\ t = m.drive.track /\ h = m.drive.heads /\ c = Cylinders /\ u = Word
            /\ q = m.drive.cylinders
      BY CylindersType, WordType DEF NumbersMade
    <3>2. c * h * t \in Nat /\ q * h * t \in Nat /\ u * t \in Nat /\ u * u \in Nat
      BY ProductNat
    <3> QED  BY <3>1, <3>2
  <2>3. y < o /\ y < v
    BY <1>4, <1>6, <1>11, <2>1, <2>2 DEF OnMedium
  <2>4. ~UsesPackets(m) => y < k /\ (TwoStage(m) \/ y < w)
    BY <1>4, <1>6, <1>11, <2>1, <2>2 DEF InReach, QuotientFits
  <2>5. Readable(m, y)
    BY <1>4, <2>2, <2>3, <2>4 DEF Readable, OnMedium, InReach, QuotientFits
  <2>6. SectorPlace(m, y) = y
    BY <2>5, SectorPlaceIs
  <2>7. DoubleWord(y) = y
    BY <2>2, <2>3, DoubleWordIs
  <2>8. AskedAt(m, n) = y
    BY <1>10, <1>11, <2>1, <2>7 DEF AskedAt
  <2> QED  BY <2>1, <2>6, <2>8
<1>14. SectorPlace(m, RootStart(m)) = RootStart(m)
  <2>1. OnMedium(m, RootStart(m))
    BY DEF NumbersMade
  <2> QED  BY <2>1, <1>4, <1>12, SectorPlaceIs DEF Readable
<1>15. Content(m, RootStart(m)) = Directory(m)
  BY DEF Content
<1>16. RootStart(m) # -1
  BY <1>12
<1>17. ASSUME NEW n \in 0 .. READ_LENGTH - 1
       PROVE  SectorPlace(m, AskedAt(m, n)) # -1
  <2>1. x + n # -1
    OBVIOUS
  <2> QED  BY <1>13, <2>1
<1>18. ASSUME NEW n \in 0 .. stage - 1
       PROVE  Content(m, SectorPlace(m, AskedAt(m, n))) = [stage |-> n + 1]
  <2>1. PICK i \in 1 .. READ_LENGTH :
          i = n + 1 /\ i \in 1 .. stage /\ i \in DOMAIN f.sectors /\ n \in 0 .. READ_LENGTH - 1
    BY <1>5, <1>6
  <2>2. FileSector(m, f, i) = x + n
    <3>1. FileSector(m, f, i) = FileSector(m, f, 1) + (i - 1)
      BY <1>3, <1>4, <1>7, PieceIs
    <3> QED  BY <2>1, <3>1, <1>11
  <2>3. SectorPlace(m, AskedAt(m, n)) = FileSector(m, f, i)
    BY <1>13, <2>1, <2>2
  <2>4. Content(m, FileSector(m, f, i)) = f.sectors[i]
    BY <1>2, <1>3, <2>1, ContentOfFile
  <2>5. f.sectors[i] = [stage |-> i]
    BY <1>4, <2>1 DEF IsStage
  <2> QED  BY <2>1, <2>3, <2>4, <2>5
<1> QED  BY <1>2, <1>9, <1>14, <1>15, <1>16, <1>17, <1>18

(* The invariant of the boot sectors.  While the loader is loaded, and     *)
(* later, what is in memory is what stands at the places that were asked   *)
(* for, one after another.                                                 *)
Brought ==
  /\ atLoad \in Seq(Held(medium)) /\ toLoad \in Nat /\ Len(atLoad) + toLoad = READ_LENGTH
  /\ ImageName(medium) \in DOMAIN medium.files =>
       \A i \in 1 .. Len(atLoad) :
         atLoad[i] = Content(medium, SectorPlace(medium, AskedAt(medium, i - 1)))

NextAsked ==
  ImageName(medium) \in DOMAIN medium.files => lba = AskedAt(medium, Len(atLoad))

NoDirectory(m) ==
  \/ SectorPlace(m, RootLba(m)) = -1
  \/ Content(m, SectorPlace(m, RootLba(m))) # Directory(m)
  \/ ImageName(m) \notin DOMAIN m.files

SectorTypes == medium \in Media /\ chainFaults \in Nat
AtRoot == link = "root" => lba = RootLba(medium) /\ atLoad = <<>>
InLoad == link = "load" => Brought /\ NextAsked
AtRestart ==
  link = "restart" =>
    \/ chainFaults > 0
    \/ NoDirectory(medium)
    \/ Brought /\ NextAsked /\ toLoad > 0 /\ SectorPlace(medium, lba) = -1
Later == link \notin {"root", "load", "restart", "spin"} => Brought /\ toLoad = 0

SectorInv == SectorTypes /\ AtRoot /\ InLoad /\ AtRestart /\ Later

Made == \A m \in Media : NumbersMade(m) /\ FilesMade(m)

LEMMA SectorInvInit == SectorInit => SectorInv
BY SectorAssumption DEF SectorInit, SectorInv, SectorTypes, AtRoot, InLoad, AtRestart, Later

LEMMA SectorInvStays == SectorInv /\ UNCHANGED sectorVars => SectorInv'
<1> SUFFICES ASSUME SectorInv, UNCHANGED sectorVars PROVE SectorInv'
  OBVIOUS
<1>1. /\ link' = link /\ medium' = medium /\ lba' = lba /\ toLoad' = toLoad /\ atLoad' = atLoad
      /\ chainFaults' = chainFaults
  BY DEF sectorVars
<1>2. (Brought <=> Brought') /\ (NextAsked <=> NextAsked')
  BY <1>1 DEF Brought, NextAsked
<1> QED  BY <1>1, <1>2 DEF SectorInv, SectorTypes, AtRoot, InLoad, AtRestart, Later

(* A stage that has been loaded leaves what was loaded where it is.        *)
LEMMA SectorInvLater ==
  ASSUME SectorInv, link \notin {"root", "restart", "spin"}, link = "load" => toLoad = 0,
         link' \notin {"root", "load", "restart"},
         medium' = medium, toLoad' = toLoad, atLoad' = atLoad, chainFaults' \in Nat
  PROVE  SectorInv'
<1>1. Brought /\ toLoad = 0
  BY DEF SectorInv, InLoad, Later
<1>2. Brought' /\ toLoad' = 0
  BY <1>1 DEF Brought
<1> QED  BY <1>2 DEF SectorInv, SectorTypes, AtRoot, InLoad, AtRestart, Later

LEMMA FindEntryKeeps ==
  ASSUME Made, SectorInv, FindEntry
  PROVE  SectorInv'
<1>1. NumbersMade(medium) /\ FilesMade(medium) /\ medium \in Media /\ chainFaults \in Nat
  BY DEF SectorInv, SectorTypes, Made
<1>3. /\ link = "root" /\ link' = "load" /\ medium' = medium /\ atLoad' = atLoad
      /\ chainFaults' = chainFaults /\ toLoad' = READ_LENGTH /\ lba' = FirstAsked(medium)
  BY DEF FindEntry, ReadRoot, CanFetch, NoChainFault, FirstAsked
<1>4. atLoad = <<>>
  BY <1>3 DEF SectorInv, AtRoot
<1>5. Brought' /\ NextAsked'
  <2>1. atLoad' = <<>> /\ Len(<<>>) = 0 /\ <<>> \in Seq(Held(medium))
    BY <1>3, <1>4
  <2>2. toLoad' \in Nat /\ 0 + toLoad' = READ_LENGTH
    BY <1>3, SectorAssumption
  <2>3. ImageName(medium) \in DOMAIN medium.files => lba' = AskedAt(medium, 0)
    BY <1>1, <1>3, AskedType
  <2>4. \A i \in 1 .. 0 : FALSE
    OBVIOUS
  <2>5. Brought'
    BY <1>3, <2>1, <2>2, <2>4 DEF Brought
  <2>6. NextAsked'
    BY <1>3, <2>1, <2>3 DEF NextAsked
  <2> QED  BY <2>5, <2>6
<1>6. SectorTypes'
  BY <1>1, <1>3 DEF SectorTypes
<1> QED  BY <1>3, <1>5, <1>6 DEF SectorInv, AtRoot, InLoad, AtRestart, Later

LEMMA DirectoryLists ==
  ASSUME SectorInv, link = "root", ~Lists(ImageName(medium))
  PROVE  NoDirectory(medium)
<1>1. lba = RootLba(medium)
  BY DEF SectorInv, AtRoot
<1>2. SUFFICES ASSUME Fetched = Directory(medium), ImageName(medium) \in DOMAIN medium.files
               PROVE  FALSE
  BY <1>1 DEF NoDirectory, Fetched
<1>3. "names" \in DOMAIN Directory(medium) /\ ImageName(medium) \in Directory(medium).names
  BY <1>2 DEF Directory
<1> QED  BY <1>2, <1>3 DEF Lists

LEMMA RestartKeeps ==
  ASSUME SectorInv, NotListed \/ RootUnread \/ LoaderUnread
  PROVE  SectorInv'
<1>1. medium \in Media /\ chainFaults \in Nat
  BY DEF SectorInv, SectorTypes
<1>3. /\ link' = "restart" /\ medium' = medium /\ lba' = lba /\ toLoad' = toLoad
      /\ atLoad' = atLoad
      /\ chainFaults' = chainFaults \/ chainFaults' = chainFaults + 1
  BY DEF NotListed, RootUnread, LoaderUnread, ReadRoot, CanFetch, CannotFetch, DiskError,
         ChainFault, NoChainFault
<1>4. AtRestart'
  <2>1. CASE NotListed
    <3>1. NoDirectory(medium)
      BY <2>1, DirectoryLists DEF NotListed, ReadRoot
    <3> QED  BY <1>3, <3>1 DEF AtRestart
  <2>2. CASE RootUnread
    <3>1. chainFaults' = chainFaults + 1 \/ SectorPlace(medium, lba) = -1
      BY <2>2 DEF RootUnread, CannotFetch, ChainFault
    <3>2. lba = RootLba(medium)
      BY <2>2 DEF RootUnread, SectorInv, AtRoot
    <3> QED  BY <1>1, <1>3, <3>1, <3>2 DEF AtRestart, NoDirectory
  <2>3. CASE LoaderUnread
    <3>1. chainFaults' = chainFaults + 1 \/ SectorPlace(medium, lba) = -1
      BY <2>3 DEF LoaderUnread, CannotFetch, ChainFault
    <3>2. Brought /\ NextAsked /\ toLoad > 0
      BY <2>3 DEF LoaderUnread, SectorInv, InLoad
    <3>3. Brought' /\ NextAsked'
      BY <1>3, <3>2 DEF Brought, NextAsked
    <3> QED  BY <1>1, <1>3, <3>1, <3>2, <3>3 DEF AtRestart
  <2> QED  BY <2>1, <2>2, <2>3
<1>5. SectorTypes'
  BY <1>1, <1>3 DEF SectorTypes
<1> QED  BY <1>3, <1>4, <1>5 DEF SectorInv, AtRoot, InLoad, Later

LEMMA LoadSectorKeeps ==
  ASSUME Made, SectorInv, LoadSector
  PROVE  SectorInv'
<1>1. NumbersMade(medium) /\ FilesMade(medium) /\ medium \in Media /\ chainFaults \in Nat
  BY DEF SectorInv, SectorTypes, Made
<1>2. /\ link = "load" /\ link' = "load" /\ medium' = medium /\ chainFaults' = chainFaults
      /\ toLoad > 0 /\ toLoad' = toLoad - 1 /\ lba' = DoubleWord(lba + 1)
      /\ atLoad' = Append(atLoad, Fetched)
  BY DEF LoadSector, CanFetch, NoChainFault
<1>3. Brought /\ NextAsked
  BY <1>2 DEF SectorInv, InLoad
<1>4. PICK w, x : w = atLoad /\ x = Fetched
  OBVIOUS
<1>n. PICK n \in Nat : n = Len(w)
  BY <1>3, <1>4, LenProperties DEF Brought
<1>5. PICK H : H = Held(medium)
  OBVIOUS
<1>6. x \in H /\ w \in Seq(H)
  BY <1>3, <1>4, <1>5, ContentHeld DEF Brought, Fetched
<1>7. PICK u : u = Append(w, x)
  OBVIOUS
<1>8. /\ u \in Seq(H) /\ Len(u) = n + 1 /\ u[n + 1] = x
      /\ \A i \in 1 .. n : u[i] = w[i]
  BY <1>n, <1>6, <1>7, AppendProperties
<1>9. ASSUME ImageName(medium) \in DOMAIN medium.files
      PROVE  /\ lba' = AskedAt(medium, n + 1)
             /\ \A i \in 1 .. n + 1 : u[i] = Content(medium, SectorPlace(medium, AskedAt(medium, i - 1)))
  <2>1. lba = AskedAt(medium, n)
    BY <1>3, <1>4, <1>n, <1>9 DEF NextAsked
  <2>2. lba' = AskedAt(medium, n + 1)
    BY <1>1, <1>2, <1>9, <2>1, AskedNext
  <2>3. x = Content(medium, SectorPlace(medium, AskedAt(medium, n)))
    BY <1>4, <2>1 DEF Fetched
  <2>4. ASSUME NEW i \in 1 .. n + 1
        PROVE  u[i] = Content(medium, SectorPlace(medium, AskedAt(medium, i - 1)))
    <3>1. CASE i = n + 1
      <4>1. i - 1 = n
        BY <3>1
      <4> QED  BY <1>8, <2>3, <3>1, <4>1
    <3>2. CASE i # n + 1
      <4>1. i \in 1 .. n
        BY <3>2
      <4>2. w[i] = Content(medium, SectorPlace(medium, AskedAt(medium, i - 1)))
        BY <1>3, <1>4, <1>n, <1>9, <4>1 DEF Brought
      <4> QED  BY <1>8, <4>1, <4>2
    <3> QED  BY <3>1, <3>2
  <2> QED  BY <2>2, <2>4
<1>10. atLoad' = u
  BY <1>2, <1>4, <1>7
<1>11. toLoad' \in Nat /\ (n + 1) + toLoad' = READ_LENGTH
  BY <1>2, <1>3, <1>4, <1>n DEF Brought
<1>12. Brought' /\ NextAsked'
  BY <1>2, <1>5, <1>8, <1>9, <1>10, <1>11 DEF Brought, NextAsked
<1>13. SectorTypes'
  BY <1>1, <1>2 DEF SectorTypes
<1> QED  BY <1>2, <1>12, <1>13 DEF SectorInv, AtRoot, InLoad, AtRestart, Later

LEMMA SectorInvStep == ASSUME Made, SectorInv, SectorStep PROVE SectorInv'
BY FindEntryKeeps, RestartKeeps, LoadSectorKeeps DEF SectorStep

(* A volume with all that is needed is booted, unless a read fails.        *)
LEMMA BootsWhatLoads ==
  ASSUME Made, SectorInv, NEW stage \in 1 .. READ_LENGTH
  PROVE  SectorRight(stage)
<1> SUFFICES ASSUME link \in {"restart", "wild"}, SectorLoads(medium, stage), ~(chainFaults > 0)
             PROVE  link = "wild" /\ IsStage(atLoad, stage)
  BY DEF SectorRight
<1>1. NumbersMade(medium) /\ FilesMade(medium)
  BY DEF SectorInv, SectorTypes, Made
<1>2. /\ ImageName(medium) \in DOMAIN medium.files
      /\ ~NoDirectory(medium)
      /\ \A n \in 0 .. READ_LENGTH - 1 : SectorPlace(medium, AskedAt(medium, n)) # -1
      /\ \A n \in 0 .. stage - 1 :
           Content(medium, SectorPlace(medium, AskedAt(medium, n))) = [stage |-> n + 1]
  BY <1>1, LoadsFound DEF NoDirectory
<1>3. stage \in Nat /\ stage <= READ_LENGTH /\ READ_LENGTH \in Nat
  BY SectorAssumption
<1>4. link = "wild"
  <2> SUFFICES ASSUME link = "restart" PROVE FALSE
    OBVIOUS
  <2>1. Brought /\ NextAsked /\ toLoad > 0 /\ SectorPlace(medium, lba) = -1
    BY <1>2 DEF SectorInv, AtRestart
  <2>2. PICK n \in Nat : n = Len(atLoad) /\ n + toLoad = READ_LENGTH /\ toLoad \in Nat
    BY <2>1, LenProperties DEF Brought
  <2>3. lba = AskedAt(medium, n)
    BY <1>2, <2>1, <2>2 DEF NextAsked
  <2>4. n \in 0 .. READ_LENGTH - 1
    BY <1>3, <2>1, <2>2
  <2> QED  BY <1>2, <2>1, <2>3, <2>4
<1>5. Brought /\ toLoad = 0
  BY <1>4 DEF SectorInv, Later
<1>6. Len(atLoad) = READ_LENGTH
  BY <1>5, LenProperties, SectorAssumption DEF Brought
<1>7. ASSUME NEW i \in 1 .. stage PROVE atLoad[i] = [stage |-> i]
  <2>1. PICK k \in 0 .. stage - 1 : k = i - 1 /\ k + 1 = i /\ i \in 1 .. READ_LENGTH
    BY <1>3
  <2>2. atLoad[i] = Content(medium, SectorPlace(medium, AskedAt(medium, k)))
    BY <1>2, <1>5, <1>6, <2>1 DEF Brought
  <2> QED  BY <1>2, <2>1, <2>2
<1> QED  BY <1>3, <1>4, <1>6, <1>7 DEF IsStage

-----------------------------------------------------------------------------
(* biosloader                                                              *)

(* The first sector of BLDR is nowhere else.                               *)
LEMMA StageOneIsFirst ==
  ASSUME NEW m, BldrMade(m), NEW p, Content(m, p) = [stage |-> 1]
  PROVE  /\ "BLDR" \in DOMAIN m.files /\ 1 \in DOMAIN m.files["BLDR"].sectors
         /\ p = FileSector(m, m.files["BLDR"], 1)
<1> DEFINE Sectors == UNION {{n} \X DOMAIN m.files[n].sectors : n \in DOMAIN m.files}
           Here == {x \in Sectors : FileSector(m, m.files[x[1]], x[2]) = p}
<1>1. Directory(m) # [stage |-> 1] /\ Blank # [stage |-> 1]
  <2>1. DOMAIN Directory(m) = {"names"} /\ DOMAIN Blank = {"blank"} /\ DOMAIN [stage |-> 1] = {"stage"}
    BY DEF Directory, Blank
  <2> QED  BY <2>1
<1>2. p # RootStart(m) /\ Here # {}
  BY <1>1 DEF Content
<1>3. PICK x \in Here : x = (CHOOSE y \in Here : TRUE)
  BY <1>2
<1>4. PICK n \in DOMAIN m.files : x \in {n} \X DOMAIN m.files[n].sectors
  OBVIOUS
<1>5. x[1] = n /\ x[2] \in DOMAIN m.files[n].sectors
  BY <1>4
<1>6. m.files[n].sectors[x[2]] = [stage |-> 1]
  BY <1>2, <1>3, <1>5 DEF Content
<1>7. n = "BLDR" /\ x[2] = 1
  BY <1>5, <1>6 DEF BldrMade
<1>8. FileSector(m, m.files[x[1]], x[2]) = p
  BY <1>3
<1> QED  BY <1>5, <1>7, <1>8

LEMMA HeldStage ==
  ASSUME NEW m, BldrMade(m), [stage |-> 1] \in Held(m)
  PROVE  "BLDR" \in DOMAIN m.files /\ 1 \in DOMAIN m.files["BLDR"].sectors
<1>1. Directory(m) # [stage |-> 1] /\ Blank # [stage |-> 1]
  <2>1. DOMAIN Directory(m) = {"names"} /\ DOMAIN Blank = {"blank"} /\ DOMAIN [stage |-> 1] = {"stage"}
    BY DEF Directory, Blank
  <2> QED  BY <2>1
<1>2. PICK n \in DOMAIN m.files :
        [stage |-> 1] \in {m.files[n].sectors[i] : i \in DOMAIN m.files[n].sectors}
  BY <1>1 DEF Held
<1>3. PICK i \in DOMAIN m.files[n].sectors : m.files[n].sectors[i] = [stage |-> 1]
  BY <1>2
<1>4. n = "BLDR" /\ i = 1
  BY <1>3 DEF BldrMade
<1> QED  BY <1>4

HasLoaded == {"bldr", "main", "ready"}
AtStage == link \in HasLoaded => IsStage(atLoad, BldrSectors)
AtMain == link \in {"main", "ready"} => DataStartLBA = DataLba(medium)
AtReady == link = "ready" => places = Parms(pBPB)

BldrInv == SectorInv /\ AtStage /\ AtMain /\ AtReady

LEMMA BldrInvInit == BldrInit => BldrInv
<1> SUFFICES ASSUME BldrInit PROVE BldrInv
  OBVIOUS
<1>1. SectorInv /\ link = "root"
  BY SectorInvInit DEF BldrInit, SectorInit
<1> QED  BY <1>1 DEF BldrInv, AtStage, AtMain, AtReady, HasLoaded

LEMMA BldrInvStays == BldrInv /\ UNCHANGED startVars => BldrInv'
<1> SUFFICES ASSUME BldrInv, UNCHANGED startVars PROVE BldrInv'
  OBVIOUS
<1>1. /\ link' = link /\ medium' = medium /\ atLoad' = atLoad
      /\ DataStartLBA' = DataStartLBA /\ places' = places /\ UNCHANGED sectorVars
  BY DEF startVars, sectorVars
<1>2. SectorInv'
  BY <1>1, SectorInvStays DEF BldrInv
<1>3. AtStage' /\ AtMain'
  BY <1>1 DEF BldrInv, AtStage, AtMain
<1>4. AtReady'
  BY <1>1 DEF BldrInv, AtReady, pBPB
<1> QED  BY <1>2, <1>3, <1>4 DEF BldrInv

LEMMA SectorStepLinks == SectorStep => link' \in {"load", "restart"}
BY DEF SectorStep, FindEntry, NotListed, RootUnread, LoadSector, LoaderUnread, DiskError

LEMMA StartStepsKeep ==
  ASSUME MediaMade, BldrInv, Jump \/ StartUp \/ InitParms
  PROVE  BldrInv'
<1>1. /\ NumbersMade(medium) /\ chainFaults \in Nat
      /\ medium' = medium /\ toLoad' = toLoad /\ atLoad' = atLoad /\ chainFaults' = chainFaults
  BY DEF BldrInv, SectorInv, SectorTypes, MediaMade, Jump, StartUp, InitParms, NoChainFault
<1>2. SectorInv'
  <2>1. link \in {"load", "bldr", "main"} /\ link' \in {"wild", "bldr", "main", "ready"}
    BY DEF Jump, StartUp, InitParms
  <2>2. link = "load" => toLoad = 0
    BY DEF Jump, StartUp, InitParms
  <2> QED  BY <1>1, <2>1, <2>2, SectorInvLater DEF BldrInv
<1>5. AtStage'
  BY <1>1 DEF BldrInv, AtStage, Jump, StartUp, InitParms, HasLoaded
<1>6. AtMain'
  <2>1. CASE StartUp
    <3>1. PICK d \in Nat : d = DataLba(medium) /\ d < Word * Word
      BY <1>1, DataLbaType
    <3>2. High(d) * Word + Low(d) = d
      BY <3>1, HalvesAre
    <3> QED  BY <1>1, <2>1, <3>1, <3>2 DEF StartUp, Joined, InRegisters, AtMain
  <2>2. CASE Jump \/ InitParms
    BY <1>1, <2>2 DEF BldrInv, AtMain, Jump, InitParms, startData
  <2> QED  BY <2>1, <2>2
<1>7. AtReady'
  <2>1. CASE InitParms
    <3>1. pBPB' = pBPB /\ places' = Parms(pBPB)
      BY <2>1 DEF InitParms, pBPB
    <3> QED  BY <3>1 DEF AtReady
  <2>2. CASE Jump \/ StartUp
    BY <2>2 DEF AtReady, Jump, StartUp
  <2> QED  BY <2>1, <2>2
<1> QED  BY <1>2, <1>5, <1>6, <1>7 DEF BldrInv

LEMMA BldrInvNext == MediaMade /\ BldrInv /\ [BldrNext]_startVars => BldrInv'
<1> SUFFICES ASSUME MediaMade, BldrInv, [BldrNext]_startVars PROVE BldrInv'
  OBVIOUS
<1>1. CASE SectorStep /\ UNCHANGED startData
  <2>1. SectorInv'
    BY <1>1, SectorInvStep DEF BldrInv, MediaMade, Made
  <2> QED  BY <1>1, <2>1, SectorStepLinks DEF BldrInv, AtStage, AtMain, AtReady, HasLoaded
<1>2. CASE Jump \/ StartUp \/ InitParms
  BY <1>2, StartStepsKeep
<1>3. CASE UNCHANGED startVars
  BY <1>3, BldrInvStays
<1> QED  BY <1>1, <1>2, <1>3 DEF BldrNext

(* Where BLDR runs, the start of the data area was found.                  *)
LEMMA StartFound ==
  ASSUME MediaMade, BldrInv, link = "ready"
  PROVE  DataLba(medium) = DataStart(medium)
<1>1. NumbersMade(medium) /\ FilesMade(medium) /\ BldrMade(medium)
  BY DEF BldrInv, SectorInv, SectorTypes, MediaMade
<1>2. CASE medium.type = "FAT32"
  <2>1. Brought /\ IsStage(atLoad, BldrSectors)
    BY DEF BldrInv, SectorInv, Later, AtStage, HasLoaded
  <2>n. ImageName(medium) = "BLDR" /\ ~TwoStage(medium)
    BY <1>1 DEF BldrMade, ImageName, TwoStage
  <2>2. Len(atLoad) \in Nat /\ 1 \in 1 .. Len(atLoad) /\ atLoad[1] = [stage |-> 1]
    BY <2>1, BldrAssumption, SectorAssumption, LenProperties DEF IsStage, Brought
  <2>3. [stage |-> 1] \in Held(medium)
    BY <2>1, <2>2, ElementOfSeq DEF Brought
  <2>4. "BLDR" \in DOMAIN medium.files /\ 1 \in DOMAIN medium.files["BLDR"].sectors
    BY <1>1, <2>3, HeldStage
  <2>5. PICK f : f = medium.files["BLDR"] /\ FileMade(medium, f)
    BY <1>1, <2>4 DEF FilesMade
  <2>6. Content(medium, SectorPlace(medium, AskedAt(medium, 0))) = [stage |-> 1]
    <3>1. 1 - 1 = 0
      OBVIOUS
    <3> QED  BY <2>1, <2>2, <2>4, <2>n, <3>1 DEF Brought
  <2>7. SectorPlace(medium, AskedAt(medium, 0)) = FileSector(medium, f, 1)
    BY <1>1, <2>5, <2>6, StageOneIsFirst
  <2>8. FileSector(medium, f, 1) \in Nat
    BY <1>1, <2>4, <2>5, FirstSector
  <2>9. UsesPackets(medium)
    BY <1>2, <2>n DEF UsesPackets
  <2>10. AskedAt(medium, 0) = FileSector(medium, f, 1)
    BY <2>7, <2>8, <2>9 DEF SectorPlace, ExtendedPlace
  <2>11. LoaderLba(medium, f.cluster) = FileSector(medium, f, 1)
    BY <1>1, <2>4, <2>5, <2>10, <2>n, AskedType DEF FirstAsked
  <2>12. f.cluster < Word
    <3>1. PICK c \in Nat, w \in Nat : c = f.cluster /\ w = Word
      BY <2>5, WordType DEF FileMade
    <3>2. ~(c >= w)
      BY <1>1, <1>2, <2>4, <2>5, <2>11, <3>1 DEF BldrMade
    <3> QED  BY <3>1, <3>2
  <2> QED  BY <1>1, <2>4, <2>5, <2>11, <2>12, StartSeen
<1> QED  BY <1>1, <1>2, DataLbaOff32

LEMMA BldrInvStarts == ASSUME MediaMade, BldrInv PROVE BldrStarts
<1>1. SectorRight(BldrSectors)
  BY BootsWhatLoads, BldrAssumption DEF BldrInv, MediaMade, Made
<1>2. ASSUME link = "ready"
      PROVE  places = [root |-> RootStart(medium), fat |-> FatStart(medium)]
  <2>1. NumbersMade(medium)
    BY DEF BldrInv, SectorInv, SectorTypes, MediaMade
  <2>2. DataLba(medium) = DataStart(medium)
    BY <1>2, StartFound
  <2>3. medium.type = "FAT32" => SectPerFAT(medium) = medium.perFat
    BY <2>1, <2>2, LengthSeen
  <2>4. DataStartLBA = DataStart(medium) /\ places = Parms(pBPB)
    BY <1>2, <2>2 DEF BldrInv, AtMain, AtReady
  <2>5. PICK v : v = pBPB
    OBVIOUS
  <2>6. Parms(v) = [root |-> RootStart(medium), fat |-> FatStart(medium)]
    BY <2>1, <2>3, <2>4, <2>5, ParmsAre, BldrAssumption DEF pBPB
  <2> QED  BY <2>4, <2>5, <2>6
<1> QED  BY <1>1, <1>2 DEF BldrStarts

(* THEOREM: on every volume as formatters make them, and whatever reads    *)
(* fail, BLDR runs only where it has been found, its readers begin where   *)
(* the directory and the FAT in use are, and a volume with all that the    *)
(* boot sector needs is booted unless a read fails.                        *)
THEOREM BldrStartsHolds == ASSUME MediaMade PROVE BldrSpec => []BldrStarts
<1>1. BldrInit => BldrInv
  BY BldrInvInit
<1>2. BldrInv /\ [BldrNext]_startVars => BldrInv'
  BY BldrInvNext
<1>3. BldrInv => BldrStarts
  BY BldrInvStarts
<1> QED  BY <1>1, <1>2, <1>3, PTL DEF BldrSpec

-----------------------------------------------------------------------------
(* The loaders of two stages                                               *)

(* Where a sector came from that was read at l.                            *)
FileSectors(m) == UNION {{n} \X DOMAIN m.files[n].sectors : n \in DOMAIN m.files}
SourceOf(m, l) ==
  CHOOSE x \in FileSectors(m) : FileSector(m, m.files[x[1]], x[2]) = XldrPlace(m, l)
FileAt(m, l) == m.files[SourceOf(m, l)[1]]

SignedAt(m, l) ==
  l \in Nat /\ XldrPlace(m, l) # -1 /\ Signed(Content(m, XldrPlace(m, l)))

(* Where the parts of an image begin: e[j] cells lie before record j, and  *)
(* e[n + 1] before the last header.                                        *)
UnitCells(r) == [k \in DOMAIN r.units |-> [unit |-> r.units[k]]]
PartAt(cells, r, s) ==
  /\ cells[s + 1] = [at |-> r.at, length |-> Len(r.units)]
  /\ cells[s + 2] = [sum |-> SumOf(UnitCells(r))]
  /\ \A k \in 1 .. Len(r.units) : cells[s + 2 + k] = [unit |-> r.units[k]]
PartsAt(i, e) ==
  LET n == Len(i.records)
      cells == ImageCells(i)
  IN  /\ e \in [1 .. n + 1 -> Nat] /\ e[1] = 2 /\ Len(cells) = e[n + 1] + 2
      /\ cells[1] = [sign |-> TRUE] /\ cells[2] = [range |-> i.range]
      /\ \A j \in 1 .. n :
           LET r == i.records[j]
           IN  /\ e[j + 1] = e[j] + 2 + Len(r.units) /\ e[j + 1] <= e[n + 1]
               /\ PartAt(cells, r, e[j])
      /\ cells[e[n + 1] + 1] = [at |-> 0, length |-> i.start]
      /\ cells[e[n + 1] + 2] = [sum |-> 0]
PartStarts(i) == CHOOSE e : PartsAt(i, e)

Slice(cells, a, n) == [k \in 1 .. n |-> cells[a + k]]

(* The range holds the first n records.                                    *)
WithinUpTo(i, range, n) ==
  \A b \in 1 .. n :
    /\ i.records[b].at >= range.address
    /\ i.records[b].at + Len(i.records[b].units) <= range.address + range.length

(* In memory are the first n records and c units of the next.              *)
InUpTo(i, b, n, c) == IF b <= n THEN Len(i.records[b].units) ELSE IF b = n + 1 THEN c ELSE 0
HoldsUpTo(i, b, a, n, c) ==
  i.records[b].at <= a /\ a < i.records[b].at + InUpTo(i, b, n, c)
HeldIn(r, u, a) == r.at <= a /\ a < r.at + u
LoadedUpTo(i, mem, n, c) ==
  \A b \in 1 .. Len(i.records), a \in Nat :
    HoldsUpTo(i, b, a, n, c) /\ (\A d \in b + 1 .. Len(i.records) : ~HoldsUpTo(i, d, a, n, c)) =>
      a \in DOMAIN mem /\ mem[a] = [unit |-> i.records[b].units[a - i.records[b].at + 1]]

(* The invariant of the second stage, on a volume whose images are as the  *)
(* tools make them.                                                        *)
Image == FileAt(medium, lba).image
Cells == ImageCells(Image)
Start(j) == PartStarts(Image)[j]

(* The reader has passed over so many cells of the image.                  *)
Passed == (reader.readSector - lba) * CellsPerSector + reader.readOffset
ReaderAt ==
  /\ SignedAt(medium, lba)
  /\ reader.readSector \in Nat /\ reader.readSector >= lba
  /\ reader.readOffset \in 0 .. CellsPerSector - 1
  /\ IF NewSector THEN reader.readOffset = 0 ELSE reader.bufferOffset = reader.readOffset
  /\ toRead \in Nat
HeaderKept == header = Image.range /\ header.address >= CodeTop

Gathered(start, c) == Passed = start + c /\ taken = Slice(Cells, start, c)

HeaderOf(j, c) ==
  /\ c + toRead = 2 /\ Gathered(Start(j), c)
  /\ WithinUpTo(Image, header, j - 1) /\ LoadedUpTo(Image, memory, j - 1, 0)
BodyOf(j, c) ==
  LET r == Image.records[j]
  IN  /\ c + toRead = Len(r.units) /\ Gathered(Start(j) + 2, c)
      /\ record.sum = SumOf(UnitCells(r))
      /\ r.at >= header.address
      /\ (r.at - header.address + Len(r.units)) % AddressSpace <= header.length
      /\ r.at + c <= AddressSpace /\ into = (r.at + c) % AddressSpace
      /\ WithinUpTo(Image, header, j - 1) /\ LoadedUpTo(Image, memory, j - 1, c)

Scans(m, l) ==
  LET f == m.files[WCELDRNAME(m)]
  IN  \E g \in DOMAIN f.sectors :
        l = FileSector(m, f, g) /\ \A q \in 1 .. g - 1 : ~Signed(f.sectors[q])

InScanning == link = "scan" => lba \in Nat /\ (ChainLoads(medium) => Scans(medium, lba))
InHeader ==
  link = "header" => ReaderAt /\ \E c \in Nat : c + toRead = 2 /\ Gathered(0, c)
InRecord ==
  link = "record" =>
    /\ ReaderAt /\ HeaderKept
    /\ \E j \in 1 .. Len(Image.records) + 1, c \in Nat : HeaderOf(j, c)
InBody ==
  link = "body" =>
    /\ ReaderAt /\ HeaderKept
    /\ \E j \in 1 .. Len(Image.records), c \in Nat : BodyOf(j, c)
OnItsFile == ChainLoads(medium) => SourceOf(medium, lba)[1] = WCELDRNAME(medium)
OnFile == link \in {"header", "record", "body", "jumped"} => OnItsFile
AtJump ==
  link = "jumped" =>
    SignedAt(medium, lba) /\ launchAt = Image.start /\ Within(Image) /\ InMemory(Image)
AtWild ==
  link = "wild" =>
    ~IsStage(atLoad, XldrSectors) \/ (SignedAt(medium, lba) /\ OnItsFile /\ ~Sound(Image))
AtSpin == link = "spin" => chainFaults > 0 \/ ~ChainLoads(medium)
XldrInv ==
  /\ InScanning /\ InHeader /\ InRecord /\ InBody
  /\ AtJump /\ AtWild /\ AtSpin /\ OnFile

(* Where a read succeeds, so does one a few sectors on that is in reach.   *)
LEMMA XldrPlaceOn ==
  ASSUME NEW m, NumbersMade(m), NEW n \in Nat, NEW p \in Nat, XldrPlace(m, n) = p,
         NEW d \in Nat, OnMedium(m, p + d), m.drive.edd \/ InReach(m, p + d)
  PROVE  XldrPlace(m, n + d) = p + d
<1>1. CASE m.drive.edd
  <2>1. ExtendedPlace(m, n) = p
    BY <1>1 DEF XldrPlace
  <2>2. n = p
    BY <2>1 DEF ExtendedPlace
  <2> QED  BY <1>1, <2>2 DEF XldrPlace, ExtendedPlace, OnMedium
<1>2. CASE ~m.drive.edd
  <2>1. PICK t \in Nat, h \in Nat, y \in Nat, k \in Nat \ {0}, w \in Nat \ {0} :
          t = m.drive.track /\ h = m.drive.heads /\ y = m.drive.cylinders /\ k = Cylinders /\ w = Word
    BY CylindersType, WordType DEF NumbersMade
  <2>2. PICK g \in Nat : g = p + d /\ g < y * h * t /\ g < k * h * t
    BY <1>2, <2>1 DEF OnMedium, InReach
  <2>3. t \in Nat \ {0} /\ h \in Nat \ {0}
    BY <2>2
  <2>4. PICK c \in Nat, e \in 0 .. h - 1, s \in 0 .. t - 1 :
          n % t = s /\ (n \div t) % h = e /\ (n \div t) \div h = c /\ (c * h + e) * t + s = n
    BY <2>3, ChsOf
  <2>5. PICK a \in Nat, b \in 0 .. k - 1 : b = c % k /\ c = k * a + b
    <3>1. c \div k \in Nat /\ c % k \in 0 .. k - 1 /\ c = k * (c \div k) + (c % k)
      BY DivMod
    <3> QED  BY <3>1
  <2>6. p = (b * h + e) * t + s
    <3>1. XldrPlace(m, n) =
            IF OnDrive(m.drive, b, e, s) THEN ByChs(m.drive, b, e, s) ELSE -1
      BY <1>2, <2>1, <2>4, <2>5 DEF XldrPlace
    <3>2. XldrPlace(m, n) = ByChs(m.drive, b, e, s)
      BY <3>1
    <3> QED  BY <3>2, <2>1 DEF ByChs
  <2>7. PICK c2 \in Nat, e2 \in 0 .. h - 1, s2 \in 0 .. t - 1 :
          /\ g % t = s2 /\ (g \div t) % h = e2 /\ (g \div t) \div h = c2
          /\ (c2 * h + e2) * t + s2 = g
    BY <2>3, ChsOf
  <2>8. c2 < y /\ c2 < k
    BY <2>2, <2>7, CylinderBelow
  <2>9. PICK q \in Nat : q = n + d
    OBVIOUS
  <2>10. q = ((k * a + c2) * h + e2) * t + s2
    <3>1. ((k * a + b) * h + e) * t + s = k * a * h * t + ((b * h + e) * t + s)
      OBVIOUS
    <3>2. ((k * a + c2) * h + e2) * t + s2 = k * a * h * t + ((c2 * h + e2) * t + s2)
      OBVIOUS
    <3>3. PICK z \in Nat : z = k * a * h * t
      <4>1. k * a * h * t \in Nat
        BY ProductNat
      <4> QED  BY <4>1
    <3>4. n = z + p
      BY <2>4, <2>5, <2>6, <3>1, <3>3
    <3>5. ((k * a + c2) * h + e2) * t + s2 = z + g
      BY <2>7, <3>2, <3>3
    <3> QED  BY <2>2, <2>9, <3>4, <3>5
  <2>11. c2 \in 0 .. k - 1
    BY <2>8
  <2>12. q % t = s2 /\ (q \div t) % h = e2 /\ ((q \div t) \div h) % k = c2
    <3>1. PICK x \in Nat : x = k * a + c2
      BY ProductNat
    <3>2. PICK y2 \in Nat : y2 = h * x + e2
      BY ProductNat
    <3>3. q = t * y2 + s2
      <4>1. x * h = h * x
        OBVIOUS
      <4>2. (k * a + c2) * h + e2 = y2
        BY <3>1, <3>2, <4>1
      <4>3. y2 * t = t * y2
        OBVIOUS
      <4> QED  BY <2>10, <4>2, <4>3
    <3>4. q \div t = y2 /\ q % t = s2
      BY <2>3, <3>3, DivIs
    <3>5. y2 \div h = x /\ y2 % h = e2
      BY <2>3, <3>2, DivIs
    <3>6. x % k = c2
      BY <2>11, <3>1, DivIs
    <3> QED  BY <3>4, <3>5, <3>6
  <2>13. OnDrive(m.drive, c2, e2, s2)
    <3>1. e2 < h /\ s2 < t
      OBVIOUS
    <3> QED  BY <2>1, <2>8, <3>1 DEF OnDrive
  <2>14. ByChs(m.drive, c2, e2, s2) = g
    BY <2>1, <2>7 DEF ByChs
  <2>15. XldrPlace(m, q) = g
    BY <1>2, <2>1, <2>12, <2>13, <2>14 DEF XldrPlace
  <2> QED  BY <2>2, <2>9, <2>15
<1> QED  BY <1>1, <1>2

(* A sector on the drive and in reach is at its place.                     *)
LEMMA XldrPlaceIs ==
  ASSUME NEW m, NumbersMade(m), NEW n \in Nat, OnMedium(m, n), m.drive.edd \/ InReach(m, n)
  PROVE  XldrPlace(m, n) = n
<1>1. CASE m.drive.edd
  BY <1>1 DEF XldrPlace, ExtendedPlace, OnMedium
<1>2. CASE ~m.drive.edd
  <2>1. PICK t \in Nat, h \in Nat, y \in Nat, k \in Nat \ {0} :
          t = m.drive.track /\ h = m.drive.heads /\ y = m.drive.cylinders /\ k = Cylinders
    BY CylindersType DEF NumbersMade
  <2>2. n < y * h * t /\ n < k * h * t
    BY <1>2, <2>1 DEF OnMedium, InReach
  <2>3. t \in Nat \ {0} /\ h \in Nat \ {0}
    BY <2>2
  <2>4. PICK c \in Nat, e \in 0 .. h - 1, s \in 0 .. t - 1 :
          n % t = s /\ (n \div t) % h = e /\ (n \div t) \div h = c /\ (c * h + e) * t + s = n
    BY <2>3, ChsOf
  <2>5. c < y /\ c < k
    BY <2>2, <2>4, CylinderBelow
  <2>6. c % k = c
    BY <2>5, DivIs, c = k * 0 + c
  <2>7. e < h /\ s < t
    OBVIOUS
  <2>8. OnDrive(m.drive, c, e, s) /\ ByChs(m.drive, c, e, s) = n
    BY <2>1, <2>4, <2>5, <2>7 DEF OnDrive, ByChs
  <2> QED  BY <1>2, <2>1, <2>4, <2>6, <2>8 DEF XldrPlace
<1> QED  BY <1>1, <1>2

LEMMA FileSectorNat ==
  ASSUME NEW m, NumbersMade(m), NEW f, FileMade(m, f), NEW i \in DOMAIN f.sectors
  PROVE  /\ i \in Nat /\ i >= 1
         /\ FileSector(m, f, i) \in Nat /\ OnMedium(m, FileSector(m, f, i))
<1>1. i \in Nat /\ i >= 1 /\ 1 \in DOMAIN f.sectors
  BY DEF FileMade
<1>2. PICK x \in Nat : x = ClusterStart(m, f.cluster)
  <2>1. /\ f.cluster - 2 \in Nat /\ m.perCluster \in Nat
        /\ DataStart(m) \in Nat
    BY <1>1, FirstSector, MediumNumbers
  <2>2. (f.cluster - 2) * m.perCluster \in Nat
    BY <2>1, ProductNat
  <2> QED  BY <2>1, <2>2 DEF ClusterStart
<1>3. PICK g \in Nat : g = (IF i >= f.split THEN f.gap ELSE 0)
  BY DEF FileMade
<1>4. FileSector(m, f, i) = x + i - 1 + g
  BY <1>2, <1>3 DEF FileSector
<1>5. x + i - 1 + g \in Nat
  BY <1>1
<1> QED  BY <1>1, <1>4, <1>5 DEF FileMade

(* A sector with a signature is a file's.                                  *)
LEMMA SignedIsInFile ==
  ASSUME NEW m, NEW p, Signed(Content(m, p))
  PROVE  \E x \in FileSectors(m) :
           /\ FileSector(m, m.files[x[1]], x[2]) = p
           /\ Content(m, p) = m.files[x[1]].sectors[x[2]]
<1> DEFINE Here == {x \in FileSectors(m) : FileSector(m, m.files[x[1]], x[2]) = p}
<1>1. ~Signed(Directory(m)) /\ ~Signed(Blank)
  <2>1. DOMAIN Directory(m) = {"names"} /\ DOMAIN Blank = {"blank"} /\ DOMAIN Nought = {"nought"}
    BY DEF Directory, Blank, Nought
  <2>2. CellOf(Directory(m), 1) = Nought /\ CellOf(Blank, 1) = Nought
    BY <2>1 DEF CellOf
  <2>3. "sign" \notin DOMAIN Nought
    BY <2>1
  <2> QED  BY <2>2, <2>3 DEF Signed
<1>2. p # RootStart(m)
  BY <1>1 DEF Content
<1>3. Here # {}
  BY <1>1, <1>2 DEF Content, FileSectors
<1>4. PICK x \in Here : x = (CHOOSE y \in Here : TRUE)
  BY <1>3
<1>5. Content(m, p) = m.files[x[1]].sectors[x[2]]
  BY <1>2, <1>3, <1>4 DEF Content, FileSectors
<1> QED  BY <1>4, <1>5

LEMMA SourceFound ==
  ASSUME NEW m, NumbersMade(m), FilesMade(m), NEW l, SignedAt(m, l)
  PROVE  \E n \in DOMAIN m.files :
           \E s \in DOMAIN m.files[n].sectors :
             /\ SourceOf(m, l) = <<n, s>> /\ FileAt(m, l) = m.files[n]
             /\ FileMade(m, m.files[n]) /\ Signed(m.files[n].sectors[s])
             /\ XldrPlace(m, l) = FileSector(m, m.files[n], s)
<1>1. PICK p : p = XldrPlace(m, l) /\ Signed(Content(m, p))
  BY DEF SignedAt
<1>2. PICK x \in FileSectors(m) :
        FileSector(m, m.files[x[1]], x[2]) = p /\ Content(m, p) = m.files[x[1]].sectors[x[2]]
  BY <1>1, SignedIsInFile
<1>3. PICK y \in FileSectors(m) : y = SourceOf(m, l) /\ FileSector(m, m.files[y[1]], y[2]) = p
  BY <1>1, <1>2 DEF SourceOf
<1>4. ASSUME NEW z \in FileSectors(m)
      PROVE  z[1] \in DOMAIN m.files /\ z[2] \in DOMAIN m.files[z[1]].sectors /\ z = <<z[1], z[2]>>
  <2>1. PICK n \in DOMAIN m.files : z \in {n} \X DOMAIN m.files[n].sectors
    BY DEF FileSectors
  <2> QED  BY <2>1
<1>5. PICK n \in DOMAIN m.files, s \in DOMAIN m.files[y[1]].sectors : n = y[1] /\ s = y[2] /\ y = <<n, s>>
  BY <1>3, <1>4
<1>6. x[1] = n /\ x[2] = s
  BY <1>2, <1>3, <1>4, <1>5 DEF FilesMade
<1>7. Signed(m.files[n].sectors[s])
  BY <1>1, <1>2, <1>6
<1>8. FileMade(m, m.files[n])
  BY DEF FilesMade
<1>9. FileAt(m, l) = m.files[n]
  BY <1>3, <1>5 DEF FileAt
<1> QED  BY <1>1, <1>3, <1>5, <1>7, <1>8, <1>9

LEMMA FoundImage ==
  ASSUME NEW m, NumbersMade(m), FilesMade(m), ImagesMade(m), NEW l, SignedAt(m, l)
  PROVE  FileAt(m, l).image.whole /\ ImageMade(FileAt(m, l).image)
<1>1. PICK n \in DOMAIN m.files :
        \E s \in DOMAIN m.files[n].sectors :
          FileAt(m, l) = m.files[n] /\ Signed(m.files[n].sectors[s])
  BY SourceFound
<1> QED  BY <1>1 DEF ImagesMade

(* The cells of an image are read one after another from there on.         *)
CellThere(m, l, d, k) ==
  LET cells == ImageCells(FileAt(m, l).image)
  IN  Len(cells) \in Nat /\ d * CellsPerSector + k <= Len(cells)
CellRead(m, l, d, k) ==
  /\ XldrPlace(m, l + d) # -1
  /\ CellOf(Content(m, XldrPlace(m, l + d)), k) =
       ImageCells(FileAt(m, l).image)[d * CellsPerSector + k]

LEMMA CellsFollow ==
  ASSUME NEW m, NumbersMade(m), FilesMade(m), ImagesMade(m), NEW l, SignedAt(m, l),
         NEW d \in Nat, NEW k \in 1 .. CellsPerSector, CellThere(m, l, d, k)
  PROVE  CellRead(m, l, d, k)
<1>c. PICK cells : /\ cells = ImageCells(FileAt(m, l).image) /\ Len(cells) \in Nat
                   /\ d * CellsPerSector + k <= Len(cells)
  BY DEF CellThere
<1>1. PICK n \in DOMAIN m.files : \E s \in DOMAIN m.files[n].sectors :
        /\ FileAt(m, l) = m.files[n]
        /\ FileMade(m, m.files[n]) /\ Signed(m.files[n].sectors[s])
        /\ XldrPlace(m, l) = FileSector(m, m.files[n], s)
  BY SourceFound
<1>s. PICK s \in DOMAIN m.files[n].sectors :
        /\ FileAt(m, l) = m.files[n]
        /\ FileMade(m, m.files[n]) /\ Signed(m.files[n].sectors[s])
        /\ XldrPlace(m, l) = FileSector(m, m.files[n], s)
  BY <1>1
<1>2. PICK f : f = m.files[n]
  OBVIOUS
<1>3. ImageAt(m, f, s)
  BY <1>1, <1>s, <1>2 DEF ImagesMade
<1>4. PICK b \in Nat \ {0} : b = CellsPerSector
  BY XldrAssumption
<1>5. d \in 0 .. Len(cells)
  <2>1. PICK x \in Nat : x = d * b /\ d <= x
    BY ProductNat
  <2>2. x + k <= Len(cells)
    BY <1>4, <1>c, <2>1
  <2> QED  BY <1>4, <1>c, <2>1, <2>2
<1>6. /\ s + d \in DOMAIN f.sectors
      /\ CellOf(f.sectors[s + d], k) = cells[d * CellsPerSector + k]
      /\ FileSector(m, f, s + d) = FileSector(m, f, s) + d
      /\ m.drive.edd \/ InReach(m, FileSector(m, f, s + d))
  BY <1>1, <1>s, <1>2, <1>3, <1>5, <1>c DEF ImageAt
<1>7. PICK p \in Nat : p = FileSector(m, f, s) /\ XldrPlace(m, l) = p
  BY <1>1, <1>s, <1>2, FileSectorNat
<1>8. OnMedium(m, p + d) /\ (m.drive.edd \/ InReach(m, p + d))
  BY <1>1, <1>s, <1>2, <1>6, <1>7, FileSectorNat
<1>9. l \in Nat
  BY DEF SignedAt
<1>10. XldrPlace(m, l + d) = p + d
  BY <1>7, <1>8, <1>9, XldrPlaceOn
<1>11. Content(m, p + d) = f.sectors[s + d]
  BY <1>1, <1>s, <1>2, <1>6, <1>7, ContentOfFile
<1>12. p + d # -1
  OBVIOUS
<1> QED  BY <1>6, <1>10, <1>11, <1>12, <1>c DEF CellRead

-----------------------------------------------------------------------------
(* Induction over the numbers, from the least element of a set of them.    *)
LEMMA LeastElement ==
  ASSUME NEW T \in SUBSET Nat, T # {}
  PROVE  \E n \in T : \A x \in T : n <= x
<1> DEFINE R == {p \in Nat \X Nat : p[1] < p[2]}
<1>1. IsWellFoundedOn(R, Nat)
  BY NatLessThanWellFounded DEF OpToRel
<1>2. \E x \in T : \A y \in T : ~(<<y, x>> \in R)
  <2> HIDE DEF R
  <2> QED
    BY <1>1, WFMin
<1>3. \A x, y \in Nat : y < x => <<y, x>> \in R
  OBVIOUS
<1>4. PICK x \in T : \A y \in T : ~(<<y, x>> \in R)
  BY <1>2
<1>5. \A y \in T : ~(y < x)
  BY <1>3, <1>4
<1> QED
  BY <1>5

LEMMA Induction ==
  ASSUME NEW S \in SUBSET Nat, 0 \in S, \A n \in S : n + 1 \in S
  PROVE  S = Nat
<1> SUFFICES ASSUME S # Nat PROVE FALSE
  OBVIOUS
<1>1. PICK n \in Nat \ S : \A x \in Nat \ S : n <= x
  BY LeastElement
<1>2. n # 0 /\ n - 1 \in Nat /\ n - 1 \in S
  BY <1>1
<1> QED
  BY <1>1, <1>2

(* The sequences of a sequence, one after another.                         *)
FlatUpTo(q, n, u) == u = [k \in 0 .. n |-> IF k = 0 THEN <<>> ELSE u[k - 1] \o q[k]]

LEMMA FlatExists ==
  ASSUME NEW q, NEW N \in Nat
  PROVE  \E u : FlatUpTo(q, N, u)
<1> DEFINE S == {n \in Nat : \E u : FlatUpTo(q, n, u)}
<1>1. 0 \in S
  <2>1. PICK u : u = [k \in 0 .. 0 |-> <<>>]
    OBVIOUS
  <2>2. FlatUpTo(q, 0, u)
    BY <2>1 DEF FlatUpTo
  <2> QED  BY <2>2
<1>2. ASSUME NEW n \in S PROVE n + 1 \in S
  <2>1. n \in Nat /\ n + 1 \in Nat /\ n + 1 # 0 /\ (n + 1) - 1 = n
    OBVIOUS
  <2>2. PICK u : FlatUpTo(q, n, u)
    OBVIOUS
  <2>3. PICK v : v = [k \in 0 .. n + 1 |-> IF k = n + 1 THEN u[n] \o q[n + 1] ELSE u[k]]
    OBVIOUS
  <2>4. ASSUME NEW k \in 0 .. n + 1
        PROVE  v[k] = IF k = 0 THEN <<>> ELSE v[k - 1] \o q[k]
    <3>1. CASE k = n + 1
      <4>1. n \in 0 .. n + 1 /\ n # n + 1
        BY <2>1
      <4>2. v[k] = u[n] \o q[n + 1]
        BY <2>3, <3>1
      <4>3. v[n] = u[n]
        BY <2>3, <4>1
      <4> QED  BY <2>1, <3>1, <4>2, <4>3
    <3>2. CASE k # n + 1
      <4>1. k \in 0 .. n
        BY <2>1, <3>2
      <4>2. v[k] = u[k]
        BY <2>3, <3>2
      <4>3. u[k] = IF k = 0 THEN <<>> ELSE u[k - 1] \o q[k]
        BY <2>2, <4>1 DEF FlatUpTo
      <4>4. k # 0 => v[k - 1] = u[k - 1]
        <5>1. k # 0 => k - 1 \in 0 .. n + 1 /\ k - 1 # n + 1
          BY <2>1, <4>1
        <5> QED  BY <2>3, <5>1
      <4> QED  BY <4>2, <4>3, <4>4
    <3> QED  BY <3>1, <3>2
  <2>5. v = [k \in 0 .. n + 1 |-> IF k = 0 THEN <<>> ELSE v[k - 1] \o q[k]]
    BY <2>3, <2>4
  <2> QED  BY <2>1, <2>5 DEF FlatUpTo
<1> HIDE DEF S
<1>3. S \subseteq Nat
  BY DEF S
<1>4. S = Nat
  BY <1>1, <1>2, <1>3, Induction
<1> QED  BY <1>4 DEF S

LEMMA FlatIs ==
  ASSUME NEW q, NEW N \in Nat, Len(q) = N
  PROVE  \E u : FlatUpTo(q, N, u) /\ Flat(q) = u[N]
<1>1. PICK u : u = (CHOOSE v : FlatUpTo(q, N, v)) /\ FlatUpTo(q, N, u)
  BY FlatExists
<1>2. Flat(q) = u[N]
  BY <1>1 DEF Flat, FlatUpTo
<1> QED  BY <1>1, <1>2

(* The first n sequences lie where the lengths say.                        *)
LaidOut(q, u, n) ==
  /\ Len(u[n]) \in Nat
  /\ \A j \in 1 .. n :
       /\ Len(u[j - 1]) \in Nat /\ Len(u[j]) = Len(u[j - 1]) + Len(q[j])
       /\ Len(u[j]) <= Len(u[n])
       /\ \A k \in 1 .. Len(q[j]) : u[n][Len(u[j - 1]) + k] = q[j][k]

LEMMA FlatLaysOut ==
  ASSUME NEW C, NEW q, NEW N \in Nat, \A j \in 1 .. N : q[j] \in Seq(C),
         NEW u, FlatUpTo(q, N, u)
  PROVE  u[N] \in Seq(C) /\ Len(u[0]) = 0 /\ LaidOut(q, u, N)
<1>1. u[0] = <<>>
  <2>1. 0 \in 0 .. N
    OBVIOUS
  <2> QED  BY <2>1 DEF FlatUpTo
<1>2. ASSUME NEW k \in 1 .. N PROVE u[k] = u[k - 1] \o q[k]
  <2>1. k \in 0 .. N /\ k # 0
    OBVIOUS
  <2> QED  BY <2>1 DEF FlatUpTo
<1>3. <<>> \in Seq(C) /\ Len(<<>>) = 0
  BY EmptySeq
<1> DEFINE S == {n \in Nat : n <= N => u[n] \in Seq(C) /\ LaidOut(q, u, n)}
<1>4. 0 \in S
  <2>1. \A j \in 1 .. 0 : FALSE
    OBVIOUS
  <2>2. LaidOut(q, u, 0)
    BY <1>1, <1>3, <2>1 DEF LaidOut
  <2> QED  BY <1>1, <1>3, <2>2
<1>5. ASSUME NEW n \in S PROVE n + 1 \in S
  <2>1. n \in Nat /\ n + 1 \in Nat
    OBVIOUS
  <2> SUFFICES ASSUME n + 1 <= N PROVE u[n + 1] \in Seq(C) /\ LaidOut(q, u, n + 1)
    BY <2>1
  <2>2. u[n] \in Seq(C) /\ LaidOut(q, u, n)
    BY <2>1
  <2>3. n + 1 \in 1 .. N /\ (n + 1) - 1 = n
    BY <2>1
  <2>4. PICK s, t, r : s = u[n] /\ t = q[n + 1] /\ r = u[n + 1]
    OBVIOUS
  <2>5. r = s \o t /\ s \in Seq(C) /\ t \in Seq(C)
    BY <1>2, <2>2, <2>3, <2>4
  <2>6. PICK x \in Nat, y \in Nat : x = Len(s) /\ y = Len(t)
    BY <2>5, LenProperties
  <2>7. /\ r \in Seq(C) /\ Len(r) = x + y
        /\ \A k \in 1 .. x + y : r[k] = IF k <= x THEN s[k] ELSE t[k - x]
    BY <2>5, <2>6, ConcatProperties
  <2>8. ASSUME NEW j \in 1 .. n + 1
        PROVE  /\ Len(u[j - 1]) \in Nat /\ Len(u[j]) = Len(u[j - 1]) + Len(q[j])
               /\ Len(u[j]) <= x + y
               /\ \A k \in 1 .. Len(q[j]) : r[Len(u[j - 1]) + k] = q[j][k]
    <3>1. CASE j = n + 1
      <4>1. u[j - 1] = s /\ u[j] = r /\ q[j] = t
        BY <2>3, <2>4, <3>1
      <4>2. ASSUME NEW k \in 1 .. y PROVE r[x + k] = t[k]
        <5>1. PICK z \in Nat : z = x + k
          OBVIOUS
        <5>2. z \in 1 .. x + y /\ ~(z <= x) /\ z - x = k
          BY <5>1
        <5> QED  BY <2>7, <5>1, <5>2
      <4> QED  BY <2>6, <2>7, <4>1, <4>2
    <3>2. CASE j # n + 1
      <4>1. j \in 1 .. n
        BY <2>1, <3>2
      <4>2. PICK a, b, c : a = u[j - 1] /\ b = u[j] /\ c = q[j]
        OBVIOUS
      <4>3. /\ Len(a) \in Nat /\ Len(b) = Len(a) + Len(c) /\ Len(b) <= x
            /\ \A k \in 1 .. Len(c) : s[Len(a) + k] = c[k]
        BY <2>2, <2>4, <2>6, <4>1, <4>2 DEF LaidOut
      <4>4. PICK l \in Nat, p \in Nat : l = Len(a) /\ p = Len(c)
        <5>1. c \in Seq(C)
          <6>1. j \in 1 .. N
            BY <2>1, <4>1
          <6> QED  BY <4>2, <6>1
        <5> QED  BY <4>3, <5>1, LenProperties
      <4>5. l + p <= x
        BY <4>3, <4>4
      <4>6. ASSUME NEW k \in 1 .. p PROVE r[l + k] = c[k]
        <5>1. PICK z \in Nat : z = l + k
          OBVIOUS
        <5>2. z \in 1 .. x + y /\ z <= x
          BY <4>5, <5>1
        <5>3. r[z] = s[z]
          BY <2>7, <5>2
        <5>4. s[z] = c[k]
          BY <4>3, <4>4, <5>1
        <5> QED  BY <5>1, <5>3, <5>4
      <4>7. Len(b) <= x + y
        BY <4>3, <4>4, <4>5
      <4> QED  BY <4>2, <4>3, <4>4, <4>6, <4>7
    <3> QED  BY <3>1, <3>2
  <2>9. /\ Len(u[n + 1]) \in Nat
        /\ \A j \in 1 .. n + 1 :
             /\ Len(u[j - 1]) \in Nat /\ Len(u[j]) = Len(u[j - 1]) + Len(q[j])
             /\ Len(u[j]) <= Len(u[n + 1])
             /\ \A k \in 1 .. Len(q[j]) : u[n + 1][Len(u[j - 1]) + k] = q[j][k]
    <3>1. u[n + 1] = r /\ Len(r) = x + y /\ x + y \in Nat
      BY <2>4, <2>7
    <3> QED  BY <2>8, <3>1
  <2> QED  BY <2>4, <2>7, <2>9 DEF LaidOut
<1> HIDE DEF S
<1>6. S \subseteq Nat
  BY DEF S
<1>7. S = Nat
  BY <1>4, <1>5, <1>6, Induction
<1> QED  BY <1>1, <1>3, <1>7 DEF S

(* The cells of an image.                                                  *)
CellsOfRecord(r) ==
  {[at |-> r.at, length |-> Len(r.units)], [sum |-> SumOf(UnitCells(r))]}
    \cup {[unit |-> r.units[k]] : k \in DOMAIN r.units}
CellsOfImage(i) ==
  {[sign |-> TRUE], [range |-> i.range], [at |-> 0, length |-> i.start], [sum |-> 0]}
    \cup UNION {CellsOfRecord(i.records[k]) : k \in DOMAIN i.records}

RecordLaid(i, r) ==
  /\ RecordCells(r) \in Seq(CellsOfImage(i)) /\ Len(RecordCells(r)) = Len(r.units) + 2
  /\ RecordCells(r)[1] = [at |-> r.at, length |-> Len(r.units)]
  /\ RecordCells(r)[2] = [sum |-> SumOf(UnitCells(r))]
  /\ \A k \in 1 .. Len(r.units) : RecordCells(r)[k + 2] = [unit |-> r.units[k]]

LEMMA RecordLaysOut ==
  ASSUME NEW i, NEW r \in {i.records[j] : j \in DOMAIN i.records},
         Len(r.units) \in Nat, DOMAIN r.units = 1 .. Len(r.units)
  PROVE  RecordLaid(i, r)
<1>n. PICK n \in Nat : n = Len(r.units) /\ DOMAIN r.units = 1 .. n
  OBVIOUS
<1>1. PICK C : C = CellsOfImage(i) /\ CellsOfRecord(r) \subseteq C
  BY DEF CellsOfImage
<1>2. PICK g, h : g = [at |-> r.at, length |-> n] /\ h = [sum |-> SumOf(UnitCells(r))]
  OBVIOUS
<1>3. PICK u : u = UnitCells(r) /\ u = [k \in 1 .. n |-> [unit |-> r.units[k]]]
  BY <1>n DEF UnitCells
<1>4. g \in C /\ h \in C /\ \A k \in 1 .. n : [unit |-> r.units[k]] \in C
  BY <1>n, <1>1, <1>2 DEF CellsOfRecord
<1>5. u \in Seq(C) /\ Len(u) = n /\ \A k \in 1 .. n : u[k] = [unit |-> r.units[k]]
  BY <1>3, <1>4
<1>6. PICK w : w = <<g, h>>
  OBVIOUS
<1>7. w \in Seq(C) /\ Len(w) = 2 /\ w[1] = g /\ w[2] = h
  BY <1>4, <1>6
<1>8. PICK x : x = RecordCells(r) /\ x = w \o u
  BY <1>n, <1>2, <1>3, <1>6 DEF RecordCells, UnitCells
<1>9. /\ x \in Seq(C) /\ Len(x) = 2 + n
      /\ \A k \in 1 .. 2 + n : x[k] = IF k <= 2 THEN w[k] ELSE u[k - 2]
  <2>1. w \in Seq(C) /\ u \in Seq(C) /\ Len(w) = 2 /\ Len(u) = n /\ x = w \o u
    BY <1>5, <1>7, <1>8
  <2>2. PICK b \in Nat : b = 2
    OBVIOUS
  <2>3. /\ x \in Seq(C) /\ Len(x) = b + n
        /\ \A k \in 1 .. b + n : x[k] = IF k <= b THEN w[k] ELSE u[k - b]
    <3>1. w \in Seq(C) /\ u \in Seq(C) /\ Len(w) = b /\ Len(u) = n /\ x = w \o u
      BY <2>1, <2>2
    <3>2. b + n \in Nat
      OBVIOUS
    <3> QED  BY ONLY <3>1, <3>2, b \in Nat, n \in Nat, ConcatProperties
  <2> QED  BY <2>2, <2>3
<1>10. 2 + n = n + 2 /\ 1 \in 1 .. 2 + n /\ 2 \in 1 .. 2 + n
  OBVIOUS
<1>11. ASSUME NEW k \in 1 .. n PROVE x[k + 2] = [unit |-> r.units[k]]
  <2>1. k + 2 \in 1 .. 2 + n /\ ~(k + 2 <= 2) /\ (k + 2) - 2 = k
    OBVIOUS
  <2> QED  BY <1>5, <1>9, <2>1
<1>12. x[1] = g /\ x[2] = h
  <2>1. 1 \in 1 .. 2 + n /\ 1 <= 2 /\ 2 \in 1 .. 2 + n /\ 2 <= 2
    OBVIOUS
  <2>2. x[1] = w[1] /\ x[2] = w[2]
    BY <1>9, <2>1
  <2> QED  BY <1>7, <2>2
<1>13. RecordCells(r) = x /\ CellsOfImage(i) = C /\ Len(x) = n + 2
  BY <1>1, <1>8, <1>9
<1> QED  BY <1>n, <1>2, <1>9, <1>11, <1>12, <1>13 DEF RecordLaid

LEMMA PartsExist ==
  ASSUME NEW i, ImageMade(i)
  PROVE  \E e : PartsAt(i, e)
<1>1. PICK n \in Nat : n = Len(i.records) /\ DOMAIN i.records = 1 .. n
  BY DEF ImageMade
<1>2. PICK C : C = CellsOfImage(i)
  OBVIOUS
<1>3. PICK q : q = [k \in 1 .. n |-> RecordCells(i.records[k])]
  OBVIOUS
<1>4. Len(q) = n
  BY <1>3
<1>5. ASSUME NEW j \in 1 .. n
      PROVE  /\ q[j] \in Seq(C) /\ Len(i.records[j].units) \in Nat
             /\ Len(q[j]) = Len(i.records[j].units) + 2
             /\ q[j][1] = [at |-> i.records[j].at, length |-> Len(i.records[j].units)]
             /\ q[j][2] = [sum |-> SumOf(UnitCells(i.records[j]))]
             /\ \A k \in 1 .. Len(i.records[j].units) :
                  q[j][k + 2] = [unit |-> i.records[j].units[k]]
  <2>1. PICK r : r = i.records[j]
    OBVIOUS
  <2>2. q[j] = RecordCells(r)
    BY <1>3, <2>1
  <2>3. PICK p \in Nat : p = Len(r.units) /\ DOMAIN r.units = 1 .. p
    BY <1>1, <2>1 DEF ImageMade
  <2>4. j \in DOMAIN i.records
    BY <1>1
  <2>5. /\ RecordCells(r) \in Seq(CellsOfImage(i)) /\ Len(RecordCells(r)) = p + 2
        /\ RecordCells(r)[1] = [at |-> r.at, length |-> p]
        /\ RecordCells(r)[2] = [sum |-> SumOf(UnitCells(r))]
        /\ \A k \in 1 .. p : RecordCells(r)[k + 2] = [unit |-> r.units[k]]
    <3>1. r \in {i.records[k] : k \in DOMAIN i.records}
      BY <2>1, <2>4
    <3>2. RecordLaid(i, r)
      BY <2>3, <3>1, RecordLaysOut
    <3> QED  BY <2>3, <3>2 DEF RecordLaid
  <2> QED  BY <1>2, <2>1, <2>2, <2>3, <2>5
<1>6. PICK u : FlatUpTo(q, n, u) /\ Flat(q) = u[n]
  BY <1>4, FlatIs
<1>7. u[n] \in Seq(C) /\ Len(u[0]) = 0 /\ LaidOut(q, u, n)
  BY <1>5, <1>6, FlatLaysOut
<1>8. PICK f : f = u[n] /\ f \in Seq(C)
  BY <1>7
<1>9. PICK l \in Nat : l = Len(f)
  BY <1>8, LenProperties
<1>10. PICK a, b, c, d : /\ a = [sign |-> TRUE] /\ b = [range |-> i.range]
                         /\ c = [at |-> 0, length |-> i.start] /\ d = [sum |-> 0]
                         /\ {a, b, c, d} \subseteq C
  BY <1>2 DEF CellsOfImage
<1>11. PICK x, y : x = <<a, b>> /\ y = <<c, d>>
  OBVIOUS
<1>12. /\ x \in Seq(C) /\ Len(x) = 2 /\ x[1] = a /\ x[2] = b
       /\ y \in Seq(C) /\ Len(y) = 2 /\ y[1] = c /\ y[2] = d
  BY <1>10, <1>11
<1>13. PICK z : z = x \o f
  OBVIOUS
<1>14. /\ z \in Seq(C) /\ Len(z) = 2 + l
       /\ \A k \in 1 .. 2 + l : z[k] = IF k <= 2 THEN x[k] ELSE f[k - 2]
  <2>1. x \in Seq(C) /\ f \in Seq(C) /\ Len(x) = 2 /\ Len(f) = l /\ z = x \o f
    BY <1>8, <1>9, <1>12, <1>13
  <2>2. PICK g \in Nat : g = 2
    OBVIOUS
  <2>3. /\ z \in Seq(C) /\ Len(z) = g + l
        /\ \A k \in 1 .. g + l : z[k] = IF k <= g THEN x[k] ELSE f[k - g]
    <3>1. x \in Seq(C) /\ f \in Seq(C) /\ Len(x) = g /\ Len(f) = l /\ z = x \o f
      BY <2>1, <2>2
    <3> QED  BY <3>1, ConcatProperties
  <2> QED  BY <2>2, <2>3
<1>15. PICK v : v = ImageCells(i) /\ v = z \o y
  BY <1>1, <1>3, <1>6, <1>8, <1>10, <1>11, <1>13 DEF ImageCells
<1>16. /\ Len(v) = (2 + l) + 2
       /\ \A k \in 1 .. (2 + l) + 2 : v[k] = IF k <= 2 + l THEN z[k] ELSE y[k - (2 + l)]
  <2>1. PICK g \in Nat, h \in Nat : g = 2 + l /\ h = 2
    OBVIOUS
  <2>2. z \in Seq(C) /\ y \in Seq(C) /\ Len(z) = g /\ Len(y) = h /\ v = z \o y
    BY <1>12, <1>14, <1>15, <2>1
  <2>3. /\ Len(v) = g + h
        /\ \A k \in 1 .. g + h : v[k] = IF k <= g THEN z[k] ELSE y[k - g]
    BY <2>2, ConcatProperties
  <2> QED  BY <2>1, <2>3
<1>17. v[1] = a /\ v[2] = b
  <2>1. 1 \in 1 .. 2 + l /\ 2 \in 1 .. 2 + l /\ 1 \in 1 .. (2 + l) + 2 /\ 2 \in 1 .. (2 + l) + 2
        /\ 1 <= 2 + l /\ 2 <= 2 + l
    OBVIOUS
  <2>2. v[1] = z[1] /\ v[2] = z[2] /\ z[1] = x[1] /\ z[2] = x[2]
    BY <1>14, <1>16, <2>1
  <2> QED  BY <1>12, <2>2
<1>18. v[2 + l + 1] = c /\ v[2 + l + 2] = d
  <2>1. PICK k1 \in Nat, k2 \in Nat : k1 = 2 + l + 1 /\ k2 = 2 + l + 2
    OBVIOUS
  <2>2. /\ k1 \in 1 .. (2 + l) + 2 /\ ~(k1 <= 2 + l) /\ k1 - (2 + l) = 1
        /\ k2 \in 1 .. (2 + l) + 2 /\ ~(k2 <= 2 + l) /\ k2 - (2 + l) = 2
    BY <2>1
  <2>3. v[k1] = y[1] /\ v[k2] = y[2]
    BY <1>16, <2>2
  <2> QED  BY <1>12, <2>1, <2>3
<1>19. ASSUME NEW k \in 1 .. l PROVE v[2 + k] = f[k]
  <2>1. PICK g \in Nat : g = 2 + k
    OBVIOUS
  <2>2. g \in 1 .. 2 + l /\ g \in 1 .. (2 + l) + 2 /\ g <= 2 + l /\ ~(g <= 2) /\ g - 2 = k
    BY <2>1
  <2>3. v[g] = z[g] /\ z[g] = f[k]
    BY <1>14, <1>16, <2>2
  <2> QED  BY <2>1, <2>3
<1>20. \A k \in 0 .. n : Len(u[k]) \in Nat
  <2>1. Len(u[n]) \in Nat
    BY <1>8, <1>9
  <2> SUFFICES ASSUME NEW k \in 0 .. n, k # n PROVE Len(u[k]) \in Nat
    BY <2>1
  <2>2. k + 1 \in 1 .. n /\ (k + 1) - 1 = k
    OBVIOUS
  <2> QED  BY <1>7, <2>2 DEF LaidOut
<1>21. PICK e : e = [j \in 1 .. n + 1 |-> 2 + Len(u[j - 1])]
  OBVIOUS
<1>22. e \in [1 .. n + 1 -> Nat]
  <2>1. ASSUME NEW j \in 1 .. n + 1 PROVE 2 + Len(u[j - 1]) \in Nat
    <3>1. PICK k \in 0 .. n : k = j - 1
      OBVIOUS
    <3>2. Len(u[k]) \in Nat
      BY <1>20
    <3> QED  BY <3>1, <3>2
  <2> QED  BY <1>21, <2>1
<1>23. e[1] = 2 /\ e[n + 1] = 2 + l
  <2>1. 1 \in 1 .. n + 1 /\ n + 1 \in 1 .. n + 1 /\ 1 - 1 = 0 /\ (n + 1) - 1 = n
    OBVIOUS
  <2>2. e[1] = 2 + Len(u[0]) /\ e[n + 1] = 2 + Len(u[n])
    BY <1>21, <2>1
  <2> QED  BY <1>7, <1>8, <1>9, <2>2
<1>24. ASSUME NEW j \in 1 .. n
       PROVE  LET r == i.records[j]
              IN  /\ e[j + 1] = e[j] + 2 + Len(r.units) /\ e[j + 1] <= e[n + 1]
                  /\ PartAt(v, r, e[j])
  <2>1. PICK r : r = i.records[j]
    OBVIOUS
  <2>s. PICK s : s = q[j]
    OBVIOUS
  <2>2. PICK p \in Nat : p = Len(r.units) /\ s = q[j] /\ Len(s) = p + 2
    BY <1>5, <2>1, <2>s
  <2>3. PICK g \in Nat, h \in Nat : g = Len(u[j - 1]) /\ h = Len(u[j])
    <3>1. PICK k \in 0 .. n : k = j - 1
      OBVIOUS
    <3>2. j \in 0 .. n
      OBVIOUS
    <3> QED  BY <1>20, <3>1, <3>2
  <2>4. /\ h = g + (p + 2) /\ h <= l
        /\ \A k \in 1 .. p + 2 : f[g + k] = s[k]
    BY <1>7, <1>8, <1>9, <2>2, <2>3 DEF LaidOut
  <2>5. e[j] = 2 + g /\ e[j + 1] = 2 + h
    <3>1. j \in 1 .. n + 1 /\ j + 1 \in 1 .. n + 1 /\ (j + 1) - 1 = j
      OBVIOUS
    <3> QED  BY <1>21, <2>3, <3>1
  <2>6. ASSUME NEW k \in 1 .. p + 2 PROVE v[2 + g + k] = s[k]
    <3>1. PICK y2 \in Nat : y2 = g + k
      OBVIOUS
    <3>2. y2 \in 1 .. l /\ 2 + g + k = 2 + y2
      BY <2>4, <3>1
    <3>3. v[2 + y2] = f[y2]
      BY <1>19, <3>2
    <3> QED  BY <2>4, <3>1, <3>2, <3>3
  <2>7. v[e[j] + 1] = s[1] /\ v[e[j] + 2] = s[2]
    <3>1. 1 \in 1 .. p + 2 /\ 2 \in 1 .. p + 2
      OBVIOUS
    <3> QED  BY <2>5, <2>6, <3>1
  <2>8. ASSUME NEW k \in 1 .. p PROVE v[e[j] + 2 + k] = s[k + 2]
    <3>1. PICK k3 \in Nat : k3 = k + 2 /\ k3 \in 1 .. p + 2
      OBVIOUS
    <3>2. v[2 + g + k3] = s[k3]
      BY <2>6, <3>1
    <3>3. e[j] + 2 + k = 2 + g + k3
      BY <2>5, <3>1
    <3> QED  BY <3>1, <3>2, <3>3
  <2>9. /\ s[1] = [at |-> r.at, length |-> p] /\ s[2] = [sum |-> SumOf(UnitCells(r))]
        /\ \A k \in 1 .. p : s[k + 2] = [unit |-> r.units[k]]
    BY <1>5, <2>1, <2>2
  <2>10. e[j + 1] = e[j] + 2 + p /\ e[j + 1] <= e[n + 1]
    BY <1>23, <2>4, <2>5
  <2>11. PartAt(v, r, e[j])
    BY <2>2, <2>7, <2>8, <2>9 DEF PartAt
  <2> QED  BY <2>1, <2>2, <2>10, <2>11
<1>25. Len(v) = e[n + 1] + 2
  BY <1>16, <1>23
<1>26. v[e[n + 1] + 1] = c /\ v[e[n + 1] + 2] = d
  BY <1>18, <1>23
<1>27. PartsAt(i, e)
  BY <1>1, <1>10, <1>15, <1>17, <1>22, <1>23, <1>24, <1>25, <1>26 DEF PartsAt
<1> QED  BY <1>27

LEMMA PartsAre == ASSUME NEW i, ImageMade(i) PROVE PartsAt(i, PartStarts(i))
BY PartsExist DEF PartStarts

(* A slice grows by the cells that follow it.                              *)
LEMMA SliceIs ==
  ASSUME NEW cells, NEW a \in Nat, NEW n \in Nat
  PROVE  /\ Slice(cells, a, n) \in Seq({cells[k] : k \in Nat}) /\ Len(Slice(cells, a, n)) = n
         /\ \A k \in 1 .. n : Slice(cells, a, n)[k] = cells[a + k]
<1>1. PICK C : C = {cells[k] : k \in Nat}
  OBVIOUS
<1>2. \A k \in 1 .. n : cells[a + k] \in C
  <2> SUFFICES ASSUME NEW k \in 1 .. n PROVE cells[a + k] \in C
    OBVIOUS
  <2>1. PICK j \in Nat : j = a + k
    OBVIOUS
  <2> QED  BY <1>1, <2>1
<1>3. PICK s : s = Slice(cells, a, n) /\ s = [k \in 1 .. n |-> cells[a + k]]
  BY DEF Slice
<1>4. s \in [1 .. n -> C]
  BY <1>2, <1>3, Zenon
<1>5. s \in Seq(C) /\ Len(s) = n
  BY ONLY <1>4, n \in Nat
<1>6. \A k \in 1 .. n : s[k] = cells[a + k]
  BY <1>3, Zenon
<1> QED  BY <1>1, <1>3, <1>5, <1>6, Zenon

LEMMA SliceNone ==
  ASSUME NEW cells, NEW a \in Nat
  PROVE  Slice(cells, a, 0) = <<>>
<1>1. PICK n \in Nat : n = 0
  OBVIOUS
<1>2. PICK C, s : s = Slice(cells, a, n) /\ s \in Seq(C) /\ Len(s) = n
  BY SliceIs
<1>3. s = <<>>
  BY <1>1, <1>2, EmptySeq
<1> QED  BY <1>1, <1>2, <1>3

LEMMA SliceGrows ==
  ASSUME NEW cells, NEW a \in Nat, NEW c \in Nat, NEW p \in Nat
  PROVE  Slice(cells, a, c) \o Slice(cells, a + c, p) = Slice(cells, a, c + p)
<1>1. PICK C, s, t, u :
        /\ C = {cells[k] : k \in Nat} /\ s = Slice(cells, a, c)
        /\ t = Slice(cells, a + c, p) /\ u = Slice(cells, a, c + p)
  OBVIOUS
<1>2. /\ s \in Seq(C) /\ Len(s) = c /\ \A k \in 1 .. c : s[k] = cells[a + k]
  BY <1>1, SliceIs
<1>3. /\ t \in Seq(C) /\ Len(t) = p /\ \A k \in 1 .. p : t[k] = cells[a + c + k]
  <2>1. a + c \in Nat
    OBVIOUS
  <2> QED  BY <1>1, <2>1, SliceIs
<1>4. /\ u \in Seq(C) /\ Len(u) = c + p /\ \A k \in 1 .. c + p : u[k] = cells[a + k]
  <2>1. c + p \in Nat
    OBVIOUS
  <2> QED  BY <1>1, <2>1, SliceIs
<1>5. PICK r : r = s \o t
  OBVIOUS
<1>6. /\ r \in Seq(C) /\ Len(r) = c + p
      /\ \A k \in 1 .. c + p : r[k] = IF k <= c THEN s[k] ELSE t[k - c]
  <2>1. s \in Seq(C) /\ t \in Seq(C) /\ Len(s) = c /\ Len(t) = p /\ r = s \o t
    BY <1>2, <1>3, <1>5
  <2> QED  BY <2>1, ConcatProperties
<1>7. ASSUME NEW k \in 1 .. c + p PROVE r[k] = u[k]
  <2>1. CASE k <= c
    BY <1>2, <1>4, <1>6, <2>1
  <2>2. CASE ~(k <= c)
    <3>1. PICK j \in 1 .. p : j = k - c /\ a + c + j = a + k
      BY <2>2
    <3> QED  BY <1>3, <1>4, <1>6, <2>2, <3>1
  <2> QED  BY <2>1, <2>2
<1>8. r = u
  BY <1>4, <1>6, <1>7, SeqEqual
<1> QED  BY <1>1, <1>5, <1>8

IsSlice(u, cells, a, n) == Len(u) = n /\ \A k \in 1 .. n : u[k] = cells[a + k]

LEMMA SliceHas ==
  ASSUME NEW cells, NEW a \in Nat, NEW n \in Nat
  PROVE  IsSlice(Slice(cells, a, n), cells, a, n)
<1>1. /\ Len(Slice(cells, a, n)) = n
      /\ \A k \in 1 .. n : Slice(cells, a, n)[k] = cells[a + k]
  BY SliceIs
<1> QED  BY <1>1 DEF IsSlice

SliceJoins(cells, a, c, p) ==
  Slice(cells, a, c) \o Slice(cells, a + c, p) = Slice(cells, a, c + p)

LEMMA SliceJoined ==
  ASSUME NEW cells, NEW a \in Nat, NEW c \in Nat, NEW p \in Nat
  PROVE  SliceJoins(cells, a, c, p)
BY SliceGrows DEF SliceJoins

-----------------------------------------------------------------------------
(* The steps of the second stage                                           *)

LEMMA ImageFound ==
  ASSUME NEW m, NumbersMade(m), FilesMade(m), ImagesMade(m), NEW l, SignedAt(m, l),
         NEW i, i = FileAt(m, l).image
  PROVE  i.whole /\ ImageMade(i) /\ PartsAt(i, PartStarts(i))
BY FoundImage, PartsAre

ImagesFound == NumbersMade(medium) /\ FilesMade(medium) /\ ImagesMade(medium)

(* A round of FileSystemRead brings the cells that follow.                 *)
ReaderNumbers(l, d, b, o, x) ==
  /\ l = lba /\ reader.readSector = l + d /\ b = CellsPerSector /\ o < b
  /\ o = reader.readOffset /\ Offset = o /\ Passed = x + o /\ SignedAt(medium, l)

LEMMA ReaderIs ==
  ASSUME ReaderAt
  PROVE  \E l \in Nat, d \in Nat, b \in Nat \ {0}, o \in Nat, x \in Nat :
           x = d * b /\ ReaderNumbers(l, d, b, o, x)
<1>1. PICK l \in Nat, r \in Nat, b \in Nat \ {0} :
        l = lba /\ r = reader.readSector /\ r >= l /\ b = CellsPerSector
  BY XldrAssumption DEF ReaderAt, SignedAt
<1>2. PICK o \in Nat : o = reader.readOffset /\ o < b
  <2>1. reader.readOffset \in 0 .. b - 1
    BY <1>1 DEF ReaderAt
  <2> QED  BY <2>1
<1>3. Offset = o
  BY <1>2 DEF ReaderAt, Offset
<1>4. PICK d \in Nat : d = r - l /\ r = l + d
  BY <1>1
<1>5. PICK x \in Nat : x = d * b
  BY ProductNat
<1>6. Passed = x + o
  BY <1>1, <1>2, <1>4, <1>5 DEF Passed
<1>7. SignedAt(medium, l)
  BY <1>1 DEF ReaderAt
<1>8. ReaderNumbers(l, d, b, o, x)
  BY <1>1, <1>2, <1>3, <1>4, <1>6, <1>7 DEF ReaderNumbers
<1> QED  BY <1>5, <1>8

LEMMA CellsComing ==
  ASSUME ImagesFound, ReaderAt, NEW cells, cells = Cells, Len(cells) \in Nat,
         NEW a \in Nat, a = Passed,
         NEW k \in Nat \ {0}, reader.readOffset + k <= CellsPerSector, a + k <= Len(cells)
  PROVE  /\ XldrPlace(medium, reader.readSector) # -1
         /\ CellOf(Sector(reader.readSector), Offset + k) = cells[a + k]
<1>1. PICK l \in Nat, d \in Nat, b \in Nat \ {0}, o \in Nat, x \in Nat :
        x = d * b /\ ReaderNumbers(l, d, b, o, x)
  BY ReaderIs
<1>n. /\ l = lba /\ reader.readSector = l + d /\ b = CellsPerSector /\ o < b
      /\ o = reader.readOffset /\ Offset = o /\ Passed = x + o /\ SignedAt(medium, l)
  BY <1>1 DEF ReaderNumbers
<1>h. o + k <= b /\ a = x + o
  BY <1>n
<1>2. PICK y \in 1 .. b : y = o + k
  <2>1. o + k \in 1 .. b
    BY ONLY <1>h
  <2> QED  BY <2>1
<1>3. x + y = a + k
  BY ONLY <1>h, <1>2
<1>4. cells = ImageCells(FileAt(medium, l).image)
  BY <1>n DEF Cells, Image
<1>5. d * CellsPerSector + y <= Len(cells) /\ d * CellsPerSector + y = a + k
      /\ y \in 1 .. CellsPerSector
  <2>1. d * CellsPerSector = x /\ b = CellsPerSector
    BY <1>1, <1>n
  <2>2. d * CellsPerSector + y = a + k
    BY <1>3, <2>1
  <2>3. a + k <= Len(cells)
    OBVIOUS
  <2> QED  BY <2>1, <2>2, <2>3
<1>6. /\ XldrPlace(medium, l + d) # -1
      /\ CellOf(Content(medium, XldrPlace(medium, l + d)), y) = cells[d * CellsPerSector + y]
  <2>1. CellThere(medium, l, d, y)
    BY <1>4, <1>5 DEF CellThere
  <2>2. CellRead(medium, l, d, y)
    BY <1>n, <1>5, <2>1, CellsFollow DEF ImagesFound
  <2> QED  BY <1>4, <2>2 DEF CellRead
<1>7. Offset + k = y
  BY <1>n, <1>2
<1> QED  BY <1>n, <1>5, <1>6, <1>7 DEF Sector

Overruns(p) == \E x \in Addresses32(p) : x < CodeTop

LEMMA PieceRead ==
  ASSUME ImagesFound, ReaderAt, NEW cells, cells = Cells, Len(cells) \in Nat,
         NEW a \in Nat, a = Passed, a + toRead <= Len(cells), FileSystemRead
  PROVE  \E p \in Nat \ {0} :
           /\ p <= toRead /\ toRead' = toRead - p /\ ReaderAt' /\ Passed' = a + p
           /\ taken' = taken \o Slice(cells, a, p)
           /\ into' = (into + p) % AddressSpace
           /\ memory' = IF link = "body" THEN Placed(Slice(cells, a, p)) ELSE memory
           /\ link' = IF link = "body" /\ Overruns(p) THEN "wild" ELSE link
<1>0. PICK l \in Nat, d \in Nat, b \in Nat \ {0}, o \in Nat, x \in Nat :
        x = d * b /\ ReaderNumbers(l, d, b, o, x)
  BY ReaderIs
<1>1. /\ l = lba /\ reader.readSector = l + d /\ b = CellsPerSector /\ o < b
      /\ o = reader.readOffset /\ Offset = o /\ Passed = x + o /\ SignedAt(medium, l)
  BY <1>0 DEF ReaderNumbers
<1>2. PICK w \in Nat \ {0} : w = toRead
  BY DEF ReaderAt, FileSystemRead
<1>3. PICK p \in Nat \ {0} : p = Piece /\ p <= w /\ o + p <= b
  <2>1. Piece = IF b - o > w THEN w ELSE b - o
    BY <1>1, <1>2 DEF Piece
  <2>2. PICK p \in Nat \ {0} : p = (IF b - o > w THEN w ELSE b - o) /\ p <= w /\ o + p <= b
    <3>1. o < b
      BY <1>1
    <3>2. b - o \in Nat \ {0} /\ o + (b - o) <= b
      BY ONLY <3>1
    <3>3. CASE b - o > w
      <4>1. o + w <= b /\ w <= w
        BY ONLY <3>1, <3>3
      <4> QED  BY <3>3, <4>1
    <3>4. CASE ~(b - o > w)
      <4>1. b - o <= w
        BY ONLY <3>1, <3>4
      <4> QED  BY <3>2, <3>4, <4>1
    <3> QED  BY <3>3, <3>4
  <2> QED  BY <2>1, <2>2
<1>4. ASSUME NEW k \in 1 .. p
      PROVE  CellOf(Sector(reader.readSector), Offset + k) = cells[a + k]
  <2>1. k \in Nat \ {0} /\ o + k <= b /\ a + k <= Len(cells)
    BY <1>2, <1>3
  <2>2. reader.readOffset + k <= CellsPerSector
    BY <1>1, <2>1
  <2> QED  BY <2>1, <2>2, CellsComing
<1>5. PICK s : /\ s = Slice(cells, a, p)
               /\ s = [k \in 1 .. Piece |-> CellOf(Sector(reader.readSector), Offset + k)]
  BY <1>3, <1>4 DEF Slice
<1>6. /\ taken' = taken \o s /\ into' = (into + p) % AddressSpace /\ toRead' = toRead - p
      /\ memory' = IF link = "body" THEN Placed(s) ELSE memory
      /\ link' = IF link = "body" /\ Overruns(p) THEN "wild" ELSE link
      /\ reader' = Advanced /\ medium' = medium /\ lba' = lba
  BY <1>3, <1>5, Zenon DEF FileSystemRead, Overruns
<1>7. toRead' \in Nat
  BY <1>2, <1>3, <1>6
<1>8. PICK r \in Nat : r = l + d
  OBVIOUS
<1>9. /\ reader' = [readSector |-> IF o + p >= b THEN r + 1 ELSE r,
                    readOffset |-> IF o + p >= b THEN 0 ELSE o + p,
                    bufferSector |-> r, bufferOffset |-> o + p]
  BY <1>1, <1>3, <1>6, <1>8 DEF Advanced
<1>10. SignedAt(medium', lba')
  BY <1>1, <1>6
<1>13. /\ p \in Nat \ {0} /\ p <= toRead /\ toRead' = toRead - p
       /\ taken' = taken \o Slice(cells, a, p) /\ into' = (into + p) % AddressSpace
       /\ memory' = IF link = "body" THEN Placed(Slice(cells, a, p)) ELSE memory
       /\ link' = IF link = "body" /\ Overruns(p) THEN "wild" ELSE link
  BY <1>2, <1>3, <1>5, <1>6
<1>11. CASE o + p = b
  <2>1. reader'.readSector = r + 1 /\ reader'.readOffset = 0 /\ reader'.bufferSector = r
    BY <1>9, <1>11
  <2>2. NewSector'
    BY <2>1 DEF NewSector
  <2>3. ReaderAt'
    BY <1>1, <1>6, <1>7, <1>8, <1>10, <2>1, <2>2 DEF ReaderAt
  <2>4. (r + 1) - l = d + 1 /\ (d + 1) * b = x + b
    <3>1. (r + 1) - l = d + 1
      BY ONLY <1>8
    <3>2. (d + 1) * b = d * b + b
      BY ONLY b \in Nat, d \in Nat
    <3> QED  BY <1>0, <3>1, <3>2
  <2>5. Passed' = x + b
    <3>1. Passed' = (reader'.readSector - l) * b + reader'.readOffset
      BY <1>1, <1>6 DEF Passed
    <3>2. PICK y \in Nat : y = (d + 1) * b /\ y = x + b
      BY <2>4
    <3>3. Passed' = y + 0
      BY <2>1, <2>4, <3>1, <3>2
    <3>4. y + 0 = x + b
      BY <3>2
    <3> QED  BY <3>3, <3>4
  <2>6. Passed' = a + p
    <3>1. a = x + o
      BY <1>1
    <3>2. a + p = x + b
      BY ONLY <1>11, <3>1
    <3> QED  BY <2>5, <3>2
  <2> QED  BY <1>13, <2>3, <2>6
<1>12. CASE o + p # b
  <2>1. /\ reader'.readSector = r /\ reader'.readOffset = o + p /\ reader'.bufferSector = r
        /\ reader'.bufferOffset = o + p /\ o + p \in 0 .. b - 1
    BY <1>3, <1>9, <1>12
  <2>2. ~NewSector'
    BY <2>1 DEF NewSector
  <2>3. ReaderAt'
    BY <1>1, <1>6, <1>7, <1>8, <1>10, <2>1, <2>2 DEF ReaderAt
  <2>4. r - l = d
    BY <1>8
  <2>5. Passed' = x + (o + p)
    <3>1. Passed' = (reader'.readSector - l) * b + reader'.readOffset
      BY <1>1, <1>6 DEF Passed
    <3>2. Passed' = d * b + (o + p)
      BY <2>1, <2>4, <3>1
    <3> QED  BY <1>0, <3>2
  <2>6. Passed' = a + p
    <3>1. a = x + o
      BY <1>1
    <3>2. a + p = x + (o + p)
      BY ONLY <3>1
    <3> QED  BY <2>5, <3>2
  <2> QED  BY <1>13, <2>3, <2>6
<1> QED  BY <1>11, <1>12

(* A read that fails where the image has cells is a fault.                 *)
LEMMA ReadFailsByFault ==
  ASSUME ImagesFound, chainFaults \in Nat, ReaderAt, NEW cells, cells = Cells,
         Len(cells) \in Nat, NEW a \in Nat, a = Passed, a + toRead <= Len(cells),
         FileSystemReadFails
  PROVE  link' = "spin" /\ chainFaults' > 0
<1>1. link' = "spin" /\ toRead > 0 /\ toRead \in Nat /\ ReadFailsAt(reader.readSector)
  BY DEF FileSystemReadFails, Spin, ReaderAt
<1>2. reader.readOffset + 1 <= CellsPerSector
  <2>1. PICK b \in Nat \ {0} : b = CellsPerSector /\ reader.readOffset \in 0 .. b - 1
    BY XldrAssumption DEF ReaderAt
  <2> QED  BY <2>1
<1>3. a + 1 <= Len(cells)
  BY <1>1
<1>4. XldrPlace(medium, reader.readSector) # -1
  BY <1>2, <1>3, CellsComing
<1>5. chainFaults' = chainFaults + 1
  BY <1>1, <1>4 DEF ReadFailsAt, ChainFault
<1> QED  BY <1>1, <1>5

(* What stays while an image is read.                                      *)
SameVolume == medium' = medium /\ lba' = lba /\ atLoad' = atLoad

LEMMA ImageStays ==
  ASSUME SameVolume
  PROVE  /\ Image' = Image /\ Cells' = Cells /\ (\A j : Start(j)' = Start(j))
         /\ (OnItsFile => OnItsFile') /\ (SignedAt(medium, lba) => SignedAt(medium, lba)')
BY DEF SameVolume, Image, Cells, Start, OnItsFile

ImageIs(i, e, n, z) ==
  /\ i = Image /\ e = PartStarts(i) /\ n = Len(i.records) /\ z = Len(Cells)
  /\ i.whole /\ ImageMade(i) /\ PartsAt(i, e) /\ DOMAIN i.records = 1 .. n
  /\ e[1] = 2 /\ z = e[n + 1] + 2 /\ z >= 4
  /\ \A j \in 1 .. n + 1 : e[j] \in Nat /\ e[j] + 2 <= z

LEMMA ImageHas ==
  ASSUME ImagesFound, SignedAt(medium, lba)
  PROVE  \E i, e : \E n \in Nat, z \in Nat : ImageIs(i, e, n, z)
<1>1. PICK i, e : i = Image /\ e = PartStarts(i)
  OBVIOUS
<1>2. i.whole /\ ImageMade(i) /\ PartsAt(i, e)
  BY <1>1, ImageFound DEF Image, ImagesFound
<1>3. PICK n \in Nat : n = Len(i.records) /\ DOMAIN i.records = 1 .. n
  BY <1>2 DEF ImageMade
<1>4. /\ e \in [1 .. n + 1 -> Nat] /\ e[1] = 2 /\ Len(ImageCells(i)) = e[n + 1] + 2
      /\ \A j \in 1 .. n :
           /\ e[j + 1] = e[j] + 2 + Len(i.records[j].units) /\ e[j + 1] <= e[n + 1]
  BY <1>2, <1>3 DEF PartsAt
<1>5. \A j \in 1 .. n + 1 : e[j] \in Nat
  BY <1>4
<1>6. PICK x \in Nat : x = e[n + 1]
  BY <1>5
<1>7. ASSUME NEW j \in 1 .. n + 1 PROVE e[j] + 2 <= x + 2
  <2>1. CASE j = n + 1
    BY <1>6, <2>1
  <2>2. CASE j # n + 1
    <3>1. j \in 1 .. n /\ j \in DOMAIN i.records
      BY <1>3, <2>2
    <3>2. PICK p \in Nat : p = Len(i.records[j].units)
      <4>1. Len(i.records[j].units) \in 0 .. AddressSpace - 1
        BY <1>2, <3>1 DEF ImageMade
      <4> QED  BY <4>1
    <3>3. PICK g \in Nat : g = e[j]
      BY <1>5
    <3>4. g + 2 + p <= x
      BY <1>4, <1>6, <3>1, <3>2, <3>3
    <3> QED  BY <3>3, <3>4
  <2> QED  BY <2>1, <2>2
<1>8. x + 2 >= 4
  <2>1. 1 \in 1 .. n + 1
    OBVIOUS
  <2>2. e[1] + 2 <= x + 2
    BY <1>7, <2>1
  <2> QED  BY <1>4, <2>2
<1>9. PICK z \in Nat : z = x + 2
  OBVIOUS
<1>10. z = Len(Cells)
  BY <1>1, <1>4, <1>6, <1>9 DEF Cells
<1>11. ImageIs(i, e, n, z)
  BY <1>1, <1>2, <1>3, <1>4, <1>5, <1>6, <1>7, <1>8, <1>9, <1>10 DEF ImageIs
<1> QED  BY <1>11

RecordAt(i, e, z, j) ==
  /\ i.records[j].at \in 1 .. AddressSpace - 1
  /\ Len(i.records[j].units) \in Nat /\ DOMAIN i.records[j].units = 1 .. Len(i.records[j].units)
  /\ e[j + 1] = e[j] + 2 + Len(i.records[j].units)
  /\ e[j] + 2 + Len(i.records[j].units) <= z
  /\ Cells[e[j] + 1] = [at |-> i.records[j].at, length |-> Len(i.records[j].units)]
  /\ Cells[e[j] + 2] = [sum |-> SumOf(UnitCells(i.records[j]))]
  /\ \A k \in 1 .. Len(i.records[j].units) :
       Cells[e[j] + 2 + k] = [unit |-> i.records[j].units[k]]

LEMMA RecordHas ==
  ASSUME NEW i, NEW e, NEW n \in Nat, NEW z \in Nat, ImageIs(i, e, n, z), NEW j \in 1 .. n
  PROVE  RecordAt(i, e, z, j)
<1>1. /\ ImageMade(i) /\ PartsAt(i, e) /\ n = Len(i.records) /\ i = Image /\ j \in DOMAIN i.records
      /\ z = e[n + 1] + 2
  BY DEF ImageIs
<1>2. PICK r : r = i.records[j]
  OBVIOUS
<1>3. PICK p \in Nat : p = Len(r.units) /\ DOMAIN r.units = 1 .. p /\ r.at \in 1 .. AddressSpace - 1
  <2>1. /\ r.at \in 1 .. AddressSpace - 1 /\ Len(r.units) \in 0 .. AddressSpace - 1
        /\ DOMAIN r.units = 1 .. Len(r.units)
    BY <1>1, <1>2 DEF ImageMade
  <2> QED  BY <2>1
<1>4. PICK cells : cells = Cells /\ cells = ImageCells(i)
  BY <1>1 DEF Cells
<1>5. /\ e[j + 1] = e[j] + 2 + p /\ e[j + 1] <= e[n + 1]
      /\ cells[e[j] + 1] = [at |-> r.at, length |-> p]
      /\ cells[e[j] + 2] = [sum |-> SumOf(UnitCells(r))]
      /\ \A k \in 1 .. p : cells[e[j] + 2 + k] = [unit |-> r.units[k]]
  <2>1. \A k \in 1 .. n :
          /\ e[k + 1] = e[k] + 2 + Len(i.records[k].units) /\ e[k + 1] <= e[n + 1]
          /\ PartAt(cells, i.records[k], e[k])
    BY <1>1, <1>4 DEF PartsAt
  <2>2. e[j + 1] = e[j] + 2 + p /\ e[j + 1] <= e[n + 1] /\ PartAt(cells, r, e[j])
    BY <1>2, <1>3, <2>1
  <2> QED  BY <1>3, <2>2 DEF PartAt
<1>6. e[j] \in Nat /\ e[n + 1] \in Nat
  <2>1. \A k \in 1 .. n + 1 : e[k] \in Nat
    BY Zenon DEF ImageIs
  <2>2. j \in 1 .. n + 1 /\ n + 1 \in 1 .. n + 1
    BY ONLY j \in 1 .. n, n \in Nat
  <2> QED  BY <2>1, <2>2, Zenon
<1>7. e[j] + 2 + p <= z
  <2>1. PICK g \in Nat, h \in Nat, l \in Nat : g = e[j] /\ h = e[n + 1] /\ l = e[j + 1]
    BY <1>5, <1>6
  <2>2. l = g + 2 + p /\ l <= h /\ z = h + 2
    BY <1>1, <1>5, <2>1
  <2> QED  BY <2>1, <2>2
<1> QED  BY <1>2, <1>3, <1>4, <1>5, <1>7 DEF RecordAt

LEMMA GatherMore ==
  ASSUME ImagesFound, ReaderAt, NEW s \in Nat, NEW c \in Nat, Gathered(s, c),
         Len(Cells) \in Nat, s + c + toRead <= Len(Cells), FileSystemRead
  PROVE  \E p \in Nat \ {0}, q \in Nat :
           /\ q = c + p /\ p <= toRead /\ toRead' = toRead - p /\ ReaderAt' /\ Gathered(s, q)'
           /\ into' = (into + p) % AddressSpace
           /\ memory' = IF link = "body" THEN Placed(Slice(Cells, s + c, p)) ELSE memory
           /\ link' = IF link = "body" /\ Overruns(p) THEN "wild" ELSE link
<1>1. PICK a \in Nat : a = s + c /\ a = Passed /\ a + toRead <= Len(Cells)
  BY DEF Gathered
<1>2. PICK p \in Nat \ {0} :
        /\ p <= toRead /\ toRead' = toRead - p /\ ReaderAt' /\ Passed' = a + p
        /\ taken' = taken \o Slice(Cells, a, p)
        /\ into' = (into + p) % AddressSpace
        /\ memory' = IF link = "body" THEN Placed(Slice(Cells, a, p)) ELSE memory
        /\ link' = IF link = "body" /\ Overruns(p) THEN "wild" ELSE link
  <2>1. PICK cells :
          cells = Cells /\ Len(cells) \in Nat /\ a + toRead <= Len(cells)
    BY <1>1
  <2>2. \E p \in Nat \ {0} :
          /\ p <= toRead /\ toRead' = toRead - p /\ ReaderAt' /\ Passed' = a + p
          /\ taken' = taken \o Slice(cells, a, p)
          /\ into' = (into + p) % AddressSpace
          /\ memory' = IF link = "body" THEN Placed(Slice(cells, a, p)) ELSE memory
          /\ link' = IF link = "body" /\ Overruns(p) THEN "wild" ELSE link
    BY <1>1, <2>1, PieceRead
  <2> QED  BY <2>1, <2>2
<1>3. PICK q \in Nat : q = c + p
  OBVIOUS
<1>4. PICK cells : cells = Cells /\ cells = Cells'
  BY ImageStays DEF FileSystemRead, SameVolume
<1>5. taken' = Slice(cells, s, q)
  <2>1. Slice(cells, s, c) \o Slice(cells, s + c, p) = Slice(cells, s, c + p)
    <3>1. p \in Nat
      OBVIOUS
    <3>2. SliceJoins(cells, s, c, p)
      BY <3>1, SliceJoined
    <3> QED  BY <3>2 DEF SliceJoins
  <2>2. taken = Slice(cells, s, c)
    BY <1>4 DEF Gathered
  <2> QED  BY <1>1, <1>2, <1>3, <1>4, <2>1, <2>2
<1>6. Passed' = s + q
  BY <1>1, <1>2, <1>3
<1>7. Gathered(s, q)'
  BY <1>4, <1>5, <1>6 DEF Gathered
<1> QED  BY <1>1, <1>2, <1>3, <1>7

(* The headers that are read.                                              *)
LEMMA HeaderReads ==
  ASSUME ImagesFound, XldrInv, link = "header", FileSystemRead
  PROVE  XldrInv'
<1>1. SameVolume /\ link' = "header"
  BY DEF FileSystemRead, SameVolume
<1>2. PICK c \in Nat : ReaderAt /\ OnItsFile /\ c + toRead = 2 /\ Gathered(0, c)
  BY DEF XldrInv, InHeader, OnFile
<1>3. PICK i, e : \E n \in Nat, z \in Nat : ImageIs(i, e, n, z)
  BY <1>2, ImageHas DEF ReaderAt
<1>4. Len(Cells) \in Nat /\ 0 + c + toRead <= Len(Cells)
  BY <1>2, <1>3 DEF ImageIs, ReaderAt
<1>5. PICK p \in Nat \ {0}, q \in Nat :
        q = c + p /\ toRead' = toRead - p /\ ReaderAt' /\ Gathered(0, q)'
  BY <1>2, <1>4, GatherMore
<1>6. q + toRead' = 2
  BY <1>2, <1>5 DEF ReaderAt
<1>7. InHeader'
  BY <1>5, <1>6 DEF InHeader
<1>8. OnItsFile'
  BY <1>1, <1>2, ImageStays
<1> QED  BY <1>1, <1>7, <1>8
      DEF XldrInv, InScanning, InRecord, InBody, AtJump, AtWild, AtSpin, OnFile

LEMMA RecordReads ==
  ASSUME ImagesFound, XldrInv, link = "record", FileSystemRead
  PROVE  XldrInv'
<1>1. SameVolume /\ link' = "record" /\ header' = header
  BY DEF FileSystemRead, SameVolume
<1>2. PICK i, e : \E n \in Nat, z \in Nat : ImageIs(i, e, n, z)
  BY ImageHas DEF ReaderAt, XldrInv, InRecord
<1>3. PICK n \in Nat, z \in Nat : ImageIs(i, e, n, z)
  BY <1>2
<1>4. PICK j \in 1 .. n + 1, c \in Nat :
        ReaderAt /\ OnItsFile /\ HeaderKept /\ HeaderOf(j, c)
  BY <1>3 DEF XldrInv, InRecord, OnFile, ImageIs
<1>5. PICK s \in Nat : s = e[j] /\ s = Start(j) /\ s + 2 <= z
  BY <1>3 DEF ImageIs, Start
<1>6. Gathered(s, c) /\ c + toRead = 2 /\ z = Len(Cells) /\ s + c + toRead <= Len(Cells) /\ ReaderAt
  BY <1>3, <1>4, <1>5 DEF HeaderOf, ImageIs, ReaderAt
<1>7. PICK p \in Nat \ {0}, q \in Nat :
        /\ q = c + p /\ toRead' = toRead - p /\ ReaderAt' /\ Gathered(s, q)'
        /\ memory' = IF link = "body" THEN Placed(Slice(Cells, s + c, p)) ELSE memory
  BY <1>6, GatherMore
<1>8. q + toRead' = 2 /\ memory' = memory
  BY <1>6, <1>7 DEF ReaderAt
<1>9. Image' = Image /\ Start(j)' = s /\ OnItsFile'
  BY <1>1, <1>4, <1>5, ImageStays
<1>10. HeaderOf(j, q)'
  BY <1>1, <1>4, <1>7, <1>8, <1>9 DEF HeaderOf
<1>11. HeaderKept'
  BY <1>1, <1>4, <1>9 DEF HeaderKept
<1>12. j \in 1 .. Len(Image'.records) + 1
  BY <1>3, <1>9 DEF ImageIs
<1>13. InRecord'
  BY <1>7, <1>10, <1>11, <1>12 DEF InRecord
<1> QED  BY <1>1, <1>9, <1>13
      DEF XldrInv, InScanning, InHeader, InBody, AtJump, AtWild, AtSpin, OnFile

(* What the checks of the headers come to.                                 *)
LEMMA SmallMod == ASSUME NEW a \in Nat, NEW n \in Nat, a < n PROVE a % n = a
<1>1. n \in Nat \ {0} /\ a \in 0 .. n - 1 /\ a = n * 0 + a
  OBVIOUS
<1> QED  BY <1>1, DivIs

LEMMA SpaceType ==
  /\ AddressSpace \in Nat \ {0} /\ CodeTop \in Nat \ {0} /\ SumFloor \in Nat /\ SumFloor <= CodeTop
BY XldrAssumption

LEMMA LoadedIsSound ==
  ASSUME OnItsFile, ChainLoads(medium)
  PROVE  Sound(Image)
BY DEF OnItsFile, ChainLoads, Image, FileAt

LEMMA ReaderStays ==
  ASSUME ReaderAt, SameVolume, reader' = reader, toRead' \in Nat
  PROVE  ReaderAt' /\ Passed' = Passed
<1>1. NewSector' <=> NewSector
  BY DEF NewSector
<1>2. medium' = medium /\ lba' = lba
  BY DEF SameVolume
<1>3. Passed' = Passed
  BY <1>2 DEF Passed
<1>4. ReaderAt'
  BY <1>1, <1>2 DEF ReaderAt
<1> QED  BY <1>3, <1>4

LEMMA NothingLoaded ==
  ASSUME NEW i, NEW mem, \A b \in 1 .. Len(i.records) : i.records[b].at \in Nat,
         NEW range
  PROVE  LoadedUpTo(i, mem, 0, 0) /\ WithinUpTo(i, range, 0)
<1>1. ASSUME NEW b \in 1 .. Len(i.records), NEW a \in Nat PROVE ~HoldsUpTo(i, b, a, 0, 0)
  <2>1. ~(b <= 0) /\ InUpTo(i, b, 0, 0) = 0
    BY DEF InUpTo
  <2> QED  BY <2>1 DEF HoldsUpTo
<1>2. LoadedUpTo(i, mem, 0, 0)
  BY <1>1 DEF LoadedUpTo
<1>3. WithinUpTo(i, range, 0)
  BY DEF WithinUpTo
<1> QED  BY <1>2, <1>3

LEMMA RangeType ==
  ASSUME NEW i, ImageMade(i)
  PROVE  /\ i.range.address \in Nat /\ i.range.length \in Nat
         /\ \A b \in 1 .. Len(i.records) : i.records[b].at \in Nat
BY DEF ImageMade

LEMMA ImageHeaderKeeps ==
  ASSUME ImagesFound, XldrInv, ImageHeaderRead \/ ImageHeaderInvalid
  PROVE  XldrInv'
<1>1. link = "header" /\ toRead = 0 /\ SameVolume
  BY DEF ImageHeaderRead, ImageHeaderInvalid, Got, Spin, SameVolume
<1>2. PICK c \in Nat : ReaderAt /\ OnItsFile /\ c + toRead = 2 /\ Gathered(0, c)
  BY <1>1 DEF XldrInv, InHeader, OnFile
<1>3. c = 2
  BY <1>1, <1>2
<1>4. Passed = 2 /\ taken = Slice(Cells, 0, 2)
  BY <1>2, <1>3 DEF Gathered
<1>5. PICK i, e : \E n \in Nat, z \in Nat : ImageIs(i, e, n, z)
  BY <1>2, ImageHas DEF ReaderAt
<1>6. PICK n \in Nat, z \in Nat : ImageIs(i, e, n, z)
  BY <1>5
<1>7. Cells[1] = [sign |-> TRUE] /\ Cells[2] = [range |-> i.range]
  BY <1>6 DEF ImageIs, PartsAt, Cells
<1>8. taken[1] = Cells[1] /\ taken[2] = Cells[2]
  BY <1>4 DEF Slice
<1>9. "sign" \in DOMAIN taken[1] /\ "range" \in DOMAIN taken[2] /\ taken[2].range = i.range
  BY <1>7, <1>8
<1>10. PICK b \in Nat, l \in Nat, w \in Nat \ {0}, t \in Nat, u \in Nat :
         /\ b = i.range.address /\ l = i.range.length /\ w = AddressSpace /\ t = CodeTop
         /\ u = SumFloor /\ u <= t
  BY <1>6, RangeType, SpaceType DEF ImageIs
<1>11. OnItsFile' /\ Image' = Image /\ Image = i /\ Cells' = Cells /\ (\A j : Start(j)' = Start(j))
  BY <1>1, <1>2, <1>6, ImageStays DEF ImageIs
<1>12. CASE ImageHeaderRead
  <2>1. /\ link' = "record" /\ toRead' = 2 /\ taken' = <<>> /\ reader' = reader
        /\ memory' = memory /\ header' = i.range
    BY <1>9, <1>12 DEF ImageHeaderRead, AsksFor
  <2>2. b >= t
    BY <1>9, <1>10, <1>12 DEF ImageHeaderRead, HeaderValid
  <2>3. ReaderAt' /\ Passed' = 2
    BY <1>1, <1>2, <1>4, <2>1, ReaderStays
  <2>4. HeaderKept'
    BY <1>10, <1>11, <2>1, <2>2 DEF HeaderKept
  <2>5. Start(1)' = 2
    BY <1>6, <1>11 DEF ImageIs, Start
  <2>6. Slice(Cells, 2, 0) = <<>>
    BY SliceNone
  <2>7. Gathered(Start(1), 0)'
    BY <1>11, <2>1, <2>3, <2>5, <2>6 DEF Gathered
  <2>8. LoadedUpTo(i, memory', 0, 0) /\ WithinUpTo(i, header', 0)
    BY <1>6, RangeType, NothingLoaded DEF ImageIs
  <2>9. HeaderOf(1, 0)'
    <3>1. 1 - 1 = 0 /\ 0 + 2 = 2
      OBVIOUS
    <3> QED  BY <1>11, <2>1, <2>7, <2>8, <3>1 DEF HeaderOf
  <2>10. 1 \in 1 .. Len(Image'.records) + 1
    BY <1>6, <1>11 DEF ImageIs
  <2>11. InRecord'
    BY <2>3, <2>4, <2>9, <2>10 DEF InRecord
  <2> QED  BY <1>11, <2>1, <2>11
        DEF XldrInv, InScanning, InHeader, InBody, AtJump, AtWild, AtSpin, OnFile
<1>13. CASE ImageHeaderInvalid
  <2>1. link' = "spin" /\ ~HeaderValid
    BY <1>13 DEF ImageHeaderInvalid, Spin
  <2>2. ASSUME ChainLoads(medium) PROVE FALSE
    <3>1. Sound(i)
      BY <1>2, <1>11, <2>2, LoadedIsSound
    <3>2. b >= t /\ b + l < w
      BY <1>10, <3>1 DEF Sound
    <3>3. (b + l) % w = b + l
      BY <3>2, SmallMod
    <3>4. (b + l) % w >= u
      BY <1>10, <3>2, <3>3
    <3> QED  BY <1>9, <1>10, <2>1, <3>2, <3>4 DEF HeaderValid
  <2>3. ~ChainLoads(medium')
    BY <1>1, <2>2 DEF SameVolume
  <2> QED  BY <2>1, <2>3
        DEF XldrInv, InScanning, InHeader, InRecord, InBody, AtJump, AtWild, AtSpin, OnFile
<1> QED  BY <1>12, <1>13

LEMMA HeaderInIs ==
  ASSUME NEW cells, NEW a, NEW l, NEW s, cells[1] = [at |-> a, length |-> l],
         cells[2] = [sum |-> s]
  PROVE  HeaderIn(cells) = [address |-> a, length |-> l, sum |-> s]
<1>1. "at" \in DOMAIN cells[1] /\ "sum" \in DOMAIN cells[2]
  OBVIOUS
<1>2. "at" \notin DOMAIN Nought
  BY DEF Nought
<1>3. cells # <<Nought, Nought>>
  BY <1>1, <1>2
<1> QED  BY <1>1, <1>3 DEF HeaderIn

(* The header that has been read.                                          *)
AtHand(i, e, n, z, j) ==
  /\ ImageIs(i, e, n, z) /\ ReaderAt /\ OnItsFile /\ HeaderKept /\ HeaderOf(j, 2)
  /\ Passed = e[j] + 2
  /\ HeaderIn(taken) =
       IF j <= n THEN [address |-> i.records[j].at, length |-> Len(i.records[j].units),
                       sum |-> SumOf(UnitCells(i.records[j]))]
       ELSE [address |-> 0, length |-> i.start, sum |-> 0]

LEMMA HeaderAtHand ==
  ASSUME ImagesFound, XldrInv, link = "record", toRead = 0
  PROVE  \E i, e : \E n \in Nat, z \in Nat : \E j \in 1 .. n + 1 : AtHand(i, e, n, z, j)
<1>1. PICK i, e : \E n \in Nat, z \in Nat : ImageIs(i, e, n, z)
  BY ImageHas DEF ReaderAt, XldrInv, InRecord
<1>2. PICK n \in Nat, z \in Nat : ImageIs(i, e, n, z)
  BY <1>1
<1>3. PICK j \in 1 .. n + 1, c \in Nat :
        ReaderAt /\ OnItsFile /\ HeaderKept /\ HeaderOf(j, c)
  BY <1>2 DEF XldrInv, InRecord, OnFile, ImageIs
<1>4. c = 2
  BY <1>3 DEF HeaderOf
<1>5. PICK s \in Nat : s = e[j] /\ s = Start(j)
  BY <1>2 DEF ImageIs, Start
<1>6. Passed = s + 2 /\ taken = Slice(Cells, s, 2)
  BY <1>3, <1>4, <1>5 DEF HeaderOf, Gathered
<1>7. taken[1] = Cells[s + 1] /\ taken[2] = Cells[s + 2]
  BY <1>6 DEF Slice
<1>8. CASE j <= n
  <2>1. j \in 1 .. n
    BY <1>8
  <2>2. /\ Cells[s + 1] = [at |-> i.records[j].at, length |-> Len(i.records[j].units)]
        /\ Cells[s + 2] = [sum |-> SumOf(UnitCells(i.records[j]))]
    <3>1. /\ Cells[e[j] + 1] = [at |-> i.records[j].at, length |-> Len(i.records[j].units)]
          /\ Cells[e[j] + 2] = [sum |-> SumOf(UnitCells(i.records[j]))]
      <4>1. RecordAt(i, e, z, j)
        BY <1>2, <2>1, RecordHas
      <4> QED  BY <4>1 DEF RecordAt
    <3>2. e[j] = s
      BY <1>5
    <3>3. PICK cells : cells = Cells
      OBVIOUS
    <3>4. /\ cells[s + 1] = [at |-> i.records[j].at, length |-> Len(i.records[j].units)]
          /\ cells[s + 2] = [sum |-> SumOf(UnitCells(i.records[j]))]
      BY <3>1, <3>2, <3>3, Zenon
    <3> QED  BY <3>3, <3>4
  <2>3. HeaderIn(taken) = [address |-> i.records[j].at, length |-> Len(i.records[j].units),
                           sum |-> SumOf(UnitCells(i.records[j]))]
    BY <1>7, <2>2, HeaderInIs
  <2>4. AtHand(i, e, n, z, j)
    BY <1>2, <1>3, <1>4, <1>5, <1>6, <1>8, <2>3 DEF AtHand
  <2> QED  BY <2>4
<1>9. CASE ~(j <= n)
  <2>1. j = n + 1
    BY <1>9
  <2>2. Cells[s + 1] = [at |-> 0, length |-> i.start] /\ Cells[s + 2] = [sum |-> 0]
    BY <1>2, <1>5, <2>1 DEF ImageIs, PartsAt, Cells
  <2>3. HeaderIn(taken) = [address |-> 0, length |-> i.start, sum |-> 0]
    BY <1>7, <2>2, HeaderInIs
  <2>4. AtHand(i, e, n, z, j)
    BY <1>2, <1>3, <1>4, <1>5, <1>6, <1>9, <2>3 DEF AtHand
  <2> QED  BY <2>4
<1> QED  BY <1>8, <1>9

LEMMA RecordHeaderKeeps ==
  ASSUME ImagesFound, XldrInv, RecordHeaderRead \/ RecordHeaderCorrupted
  PROVE  XldrInv'
<1>1. /\ link = "record" /\ toRead = 0 /\ SameVolume /\ ~LastHeaderIn(HeaderIn(taken))
  BY DEF RecordHeaderRead, RecordHeaderCorrupted, Got, Spin, SameVolume
<1>2. PICK i, e : \E n \in Nat, z \in Nat : \E j \in 1 .. n + 1 : AtHand(i, e, n, z, j)
  BY <1>1, HeaderAtHand
<1>3. PICK n \in Nat, z \in Nat : \E j \in 1 .. n + 1 : AtHand(i, e, n, z, j)
  BY <1>2
<1>4. PICK j \in 1 .. n + 1 : AtHand(i, e, n, z, j)
  BY <1>3
<1>5. j \in 1 .. n
  BY <1>1, <1>4 DEF AtHand, LastHeaderIn
<1>r. PICK r, g : r = i.records[j] /\ g = SumOf(UnitCells(r))
  OBVIOUS
<1>6. PICK p \in Nat, a \in Nat :
        /\ r = i.records[j] /\ p = Len(r.units) /\ a = r.at /\ a \in 1 .. AddressSpace - 1
        /\ g = SumOf(UnitCells(r))
  <2>1. ImageIs(i, e, n, z)
    BY <1>4 DEF AtHand
  <2>2. RecordAt(i, e, z, j)
    BY <1>5, <2>1, RecordHas
  <2>3. i.records[j].at \in 1 .. AddressSpace - 1 /\ Len(i.records[j].units) \in Nat
    BY <2>2 DEF RecordAt
  <2>4. i.records[j].at \in Nat
    BY <2>3, SpaceType
  <2> QED  BY <1>r, <2>3, <2>4
<1>7. HeaderIn(taken) = [address |-> a, length |-> p, sum |-> g]
  BY <1>4, <1>5, <1>6 DEF AtHand
<1>8. PICK b \in Nat, l \in Nat, w \in Nat \ {0} :
        /\ b = i.range.address /\ l = i.range.length /\ w = AddressSpace /\ header = i.range
        /\ i = Image /\ a < w
  <2>1. header = i.range /\ i = Image /\ ImageMade(i)
    BY <1>4 DEF AtHand, ImageIs, HeaderKept
  <2>2. i.range.address \in Nat /\ i.range.length \in Nat
    BY <2>1, RangeType
  <2>3. AddressSpace \in Nat \ {0} /\ a < AddressSpace
    BY <1>6, SpaceType
  <2> QED  BY <2>1, <2>2, <2>3
<1>9. InRange(HeaderIn(taken)) <=> a >= b /\ (a - b + p) % w <= l
  BY <1>7, <1>8 DEF InRange
<1>10. OnItsFile' /\ Image' = Image /\ Cells' = Cells /\ (\A k : Start(k)' = Start(k))
  BY <1>1, <1>4, ImageStays DEF AtHand
<1>11. CASE RecordHeaderRead
  <2>1. /\ link' = "body" /\ toRead' = p /\ taken' = <<>> /\ reader' = reader
        /\ memory' = memory /\ header' = header /\ into' = a
        /\ record' = [address |-> a, length |-> p, sum |-> g]
        /\ InRange(HeaderIn(taken))
    BY <1>7, <1>11 DEF RecordHeaderRead, AsksFor
  <2>2. ReaderAt' /\ Passed' = e[j] + 2
    BY <1>1, <1>4, <2>1, ReaderStays DEF AtHand
  <2>3. HeaderKept'
    BY <1>4, <1>10, <2>1 DEF HeaderKept, AtHand
  <2>4. PICK s \in Nat : s = e[j] + 2 /\ s = Start(j) + 2
    BY <1>4, <1>5 DEF AtHand, ImageIs, Start
  <2>5. Slice(Cells, s, 0) = <<>>
    BY <2>4, SliceNone
  <2>6. Gathered(s, 0)'
    BY <1>10, <2>1, <2>2, <2>4, <2>5 DEF Gathered
  <2>7. a % w = a
    BY <1>8, SmallMod
  <2>8. WithinUpTo(i, header, j - 1) /\ LoadedUpTo(i, memory, j - 1, 0)
    BY <1>4, <1>8 DEF AtHand, HeaderOf
  <2>9. BodyOf(j, 0)'
    <3>1. a + 0 = a /\ 0 + p = p /\ a <= w
      BY <1>8
    <3>2. a >= header'.address /\ (a - header'.address + p) % AddressSpace <= header'.length
      BY <1>8, <1>9, <2>1
    <3>3. Image' = i /\ Start(j)' + 2 = s /\ i.records[j] = r
      BY <1>6, <1>8, <1>10, <2>4
    <3>4. Gathered(Start(j) + 2, 0)'
      BY <2>6, <3>3 DEF Gathered
    <3>5. WithinUpTo(Image', header', j - 1) /\ LoadedUpTo(Image', memory', j - 1, 0)
      BY <2>1, <2>8, <3>3
    <3>6. record'.sum = SumOf(UnitCells(r)) /\ into' = (r.at + 0) % AddressSpace
          /\ r.at + 0 <= AddressSpace /\ 0 + toRead' = Len(r.units)
      BY <1>6, <1>8, <2>1, <2>7, <3>1
    <3> QED  BY <1>6, <3>2, <3>3, <3>4, <3>5, <3>6 DEF BodyOf
  <2>10. j \in 1 .. Len(Image'.records)
    BY <1>4, <1>5, <1>8, <1>10 DEF AtHand, ImageIs
  <2>11. InBody'
    BY <2>2, <2>3, <2>9, <2>10 DEF InBody
  <2> QED  BY <1>10, <2>1, <2>11
        DEF XldrInv, InScanning, InHeader, InRecord, AtJump, AtWild, AtSpin, OnFile
<1>12. CASE RecordHeaderCorrupted
  <2>1. link' = "spin" /\ ~InRange(HeaderIn(taken))
    BY <1>12 DEF RecordHeaderCorrupted, Spin
  <2>2. ASSUME ChainLoads(medium) PROVE FALSE
    <3>1. Sound(i)
      BY <1>4, <1>8, <2>2, LoadedIsSound DEF AtHand
    <3>2. a >= b /\ a + p <= b + l /\ b + l < w
      BY <1>4, <1>5, <1>6, <1>8, <3>1 DEF Sound, Within, AtHand, ImageIs
    <3>3. PICK x \in Nat : x = a - b + p /\ x <= l /\ x < w
      BY <3>2
    <3>4. x % w = x
      BY <3>3, SmallMod
    <3> QED  BY <1>9, <2>1, <3>2, <3>3, <3>4
  <2>3. ~ChainLoads(medium')
    BY <1>1, <2>2 DEF SameVolume
  <2> QED  BY <2>1, <2>3
        DEF XldrInv, InScanning, InHeader, InRecord, InBody, AtJump, AtWild, AtSpin, OnFile
<1> QED  BY <1>11, <1>12

LEMMA LastHeaderKeeps ==
  ASSUME ImagesFound, XldrInv, LastHeaderRead
  PROVE  XldrInv'
<1>1. /\ link = "record" /\ toRead = 0 /\ SameVolume /\ LastHeaderIn(HeaderIn(taken))
      /\ link' = "jumped" /\ memory' = memory /\ launchAt' = HeaderIn(taken).length
  BY DEF LastHeaderRead, Got, SameVolume
<1>2. PICK i, e : \E n \in Nat, z \in Nat : \E j \in 1 .. n + 1 : AtHand(i, e, n, z, j)
  BY <1>1, HeaderAtHand
<1>3. PICK n \in Nat, z \in Nat : \E j \in 1 .. n + 1 : AtHand(i, e, n, z, j)
  BY <1>2
<1>4. PICK j \in 1 .. n + 1 : AtHand(i, e, n, z, j)
  BY <1>3
<1>5. j = n + 1
  <2> SUFFICES ASSUME j \in 1 .. n PROVE FALSE
    OBVIOUS
  <2>1. i.records[j].at \in 1 .. AddressSpace - 1
    <3>1. ImageIs(i, e, n, z)
      BY <1>4 DEF AtHand
    <3>2. RecordAt(i, e, z, j)
      BY <3>1, RecordHas
    <3> QED  BY <3>2 DEF RecordAt
  <2>2. HeaderIn(taken).address = i.records[j].at
    BY <1>4 DEF AtHand
  <2> QED  BY <1>1, <2>1, <2>2, SpaceType DEF LastHeaderIn
<1>6. launchAt' = i.start
  BY <1>1, <1>4, <1>5 DEF AtHand
<1>7. /\ OnItsFile' /\ Image' = i /\ i = Image /\ SignedAt(medium, lba)' /\ n = Len(i.records)
      /\ DOMAIN i.records = 1 .. n /\ ImageMade(i) /\ header = i.range
  BY <1>1, <1>4, ImageStays DEF AtHand, ImageIs, ReaderAt, HeaderKept
<1>8. WithinUpTo(i, header, n) /\ LoadedUpTo(i, memory, n, 0)
  <2>1. j - 1 = n
    BY <1>5
  <2> QED  BY <1>4, <1>7, <2>1 DEF AtHand, HeaderOf
<1>9. Within(i)
  BY <1>7, <1>8 DEF Within, WithinUpTo
<1>10. InMemory(i)'
  <2> SUFFICES ASSUME NEW k \in 1 .. n,
                      NEW a \in i.records[k].at .. i.records[k].at + Len(i.records[k].units) - 1,
                      \A d \in k + 1 .. Len(i.records) : ~Holds(i.records[d], a)
               PROVE  /\ a \in DOMAIN memory
                      /\ memory[a] = [unit |-> i.records[k].units[a - i.records[k].at + 1]]
    BY <1>1, <1>7 DEF InMemory
  <2>1. \A b \in 1 .. n : HoldsUpTo(i, b, a, n, 0) <=> Holds(i.records[b], a)
    <3> SUFFICES ASSUME NEW b \in 1 .. n
                 PROVE  HoldsUpTo(i, b, a, n, 0) <=> Holds(i.records[b], a)
      OBVIOUS
    <3>0. InUpTo(i, b, n, 0) = Len(i.records[b].units)
      BY DEF InUpTo
    <3>1. PICK u : u = InUpTo(i, b, n, 0) /\ u = Len(i.records[b].units)
      BY <3>0, Zenon
    <3>2. HoldsUpTo(i, b, a, n, 0) <=> HeldIn(i.records[b], u, a)
      BY <3>1, Zenon DEF HoldsUpTo, HeldIn
    <3>3. Holds(i.records[b], a) <=> HeldIn(i.records[b], u, a)
      BY <3>1, Zenon DEF Holds, HeldIn
    <3> QED  BY <3>2, <3>3, Zenon
  <2>2. /\ i.records[k].at \in Nat /\ Len(i.records[k].units) \in Nat
    <3>1. \A b \in 1 .. n : i.records[b].at \in 1 .. AddressSpace - 1
                            /\ Len(i.records[b].units) \in 0 .. AddressSpace - 1
      BY <1>7, Zenon DEF ImageMade
    <3>2. i.records[k].at \in 1 .. AddressSpace - 1
          /\ Len(i.records[k].units) \in 0 .. AddressSpace - 1
      BY <3>1, Zenon
    <3> QED  BY ONLY <3>2, SpaceType
  <2>3. a \in Nat /\ Holds(i.records[k], a)
    <3>1. PICK g \in Nat, h \in Nat : g = i.records[k].at /\ h = Len(i.records[k].units)
      BY <2>2
    <3>2. a \in g .. g + h - 1
      BY <3>1
    <3>3. a \in Nat /\ g <= a /\ a < g + h
      BY ONLY <3>2
    <3> QED  BY <3>1, <3>3 DEF Holds
  <2>4. HoldsUpTo(i, k, a, n, 0) /\ \A d \in k + 1 .. Len(i.records) : ~HoldsUpTo(i, d, a, n, 0)
    BY <1>7, <2>1, <2>3
  <2> QED  BY <1>7, <1>8, <2>3, <2>4 DEF LoadedUpTo
<1>11. Within(Image)' /\ InMemory(Image)'
  <2>1. Within(Image)'
    BY <1>7, <1>9 DEF Within
  <2>2. InMemory(Image)'
    <3>1. PICK d : d = Image' /\ d = i
      BY <1>7
    <3>2. \A k \in DOMAIN d.records :
            \A a \in d.records[k].at .. d.records[k].at + Len(d.records[k].units) - 1 :
              (\A b \in k + 1 .. Len(d.records) : ~Holds(d.records[b], a)) =>
                /\ a \in DOMAIN memory'
                /\ memory'[a] = [unit |-> d.records[k].units[a - d.records[k].at + 1]]
      BY <1>10, <3>1 DEF InMemory
    <3> QED  BY <3>1, <3>2 DEF InMemory, Holds
  <2> QED  BY <2>1, <2>2
<1>12. AtJump'
  BY <1>6, <1>7, <1>11 DEF AtJump
<1> QED  BY <1>1, <1>7, <1>12
      DEF XldrInv, InScanning, InHeader, InRecord, InBody, AtWild, AtSpin, OnFile

(* A body is copied.                                                       *)
LEMMA AddressesIn ==
  ASSUME NEW w \in Nat \ {0}, w = AddressSpace, NEW x \in Nat, NEW p \in Nat \ {0}, x + p <= w,
         into = x % w
  PROVE  into = x /\ Addresses32(p) = x .. x + p - 1
<1>1. into = x
  <2>1. x < w
    OBVIOUS
  <2> QED  BY <2>1, SmallMod
<1>2. ASSUME NEW k \in 0 .. p - 1 PROVE (into + k) % AddressSpace = x + k
  <2>1. PICK y \in Nat : y = x + k /\ y < w
    OBVIOUS
  <2>2. y % w = y
    BY <2>1, SmallMod
  <2> QED  BY <1>1, <2>1, <2>2
<1>3. Addresses32(p) = {(into + k) % AddressSpace : k \in 0 .. p - 1}
  BY DEF Addresses32
<1>4. ASSUME NEW y \in Addresses32(p) PROVE y \in x .. x + p - 1
  <2>1. PICK k \in 0 .. p - 1 : y = (into + k) % AddressSpace
    BY <1>3
  <2>2. y = x + k
    BY <1>2, <2>1
  <2> QED  BY <2>2
<1>5. ASSUME NEW y \in x .. x + p - 1 PROVE y \in Addresses32(p)
  <2>1. PICK k \in 0 .. p - 1 : y = x + k
    <3>1. y - x \in 0 .. p - 1 /\ y = x + (y - x)
      OBVIOUS
    <3> QED  BY <3>1
  <2>2. y = (into + k) % AddressSpace
    BY <1>2, <2>1
  <2> QED  BY <1>3, <2>2
<1> QED  BY <1>1, <1>4, <1>5

LEMMA OverrunsAtTheEnd ==
  ASSUME NEW w \in Nat \ {0}, w = AddressSpace, NEW x \in Nat, x <= w, NEW p \in Nat \ {0},
         into = x % w, ~(x + p <= w)
  PROVE  Overruns(p)
<1>1. w % w = 0 /\ 0 % w = 0
  <2>1. w = w * 1 + 0 /\ 0 \in 0 .. w - 1 /\ 0 < w
    OBVIOUS
  <2> QED  BY <2>1, DivIs, SmallMod
<1>2. PICK k \in 0 .. p - 1 : (into + k) % w = 0
  <2>1. CASE x = w
    <3>1. into = 0 /\ 0 \in 0 .. p - 1 /\ 0 + 0 = 0
      BY <1>1, <2>1
    <3> QED  BY <1>1, <3>1
  <2>2. CASE x # w
    <3>1. x < w
      BY <2>2
    <3>2. into = x
      BY <3>1, SmallMod
    <3>3. PICK k \in 0 .. p - 1 : x + k = w
      <4>1. w - x \in 0 .. p - 1 /\ x + (w - x) = w
        BY <3>1
      <4> QED  BY <4>1
    <3> QED  BY <1>1, <3>2, <3>3
  <2> QED  BY <2>1, <2>2
<1>3. 0 \in Addresses32(p)
  BY <1>2 DEF Addresses32
<1>4. 0 < CodeTop
  BY SpaceType
<1> QED  BY <1>3, <1>4 DEF Overruns

LEMMA PlacedIs ==
  ASSUME NEW x \in Nat, NEW s, Len(s) \in Nat \ {0}, x + Len(s) <= AddressSpace,
         into = x % AddressSpace
  PROVE  /\ \A y \in x .. x + Len(s) - 1 :
              y \in DOMAIN Placed(s) /\ Placed(s)[y] = s[(y - x) + 1]
         /\ \A y \in DOMAIN memory : y \notin x .. x + Len(s) - 1 =>
              y \in DOMAIN Placed(s) /\ Placed(s)[y] = memory[y]
<1>w. PICK w \in Nat \ {0}, p \in Nat \ {0} : w = AddressSpace /\ p = Len(s) /\ x + p <= w
  BY SpaceType
<1>1. into = x /\ Addresses32(p) = x .. x + p - 1
  <2>1. into = x % w
    BY <1>w
  <2> QED  BY <1>w, <2>1, AddressesIn
<1>2. Placed(s) = [y \in (x .. x + p - 1) \cup DOMAIN memory |->
                     IF y \in x .. x + p - 1 THEN s[((y - x) % w) + 1] ELSE memory[y]]
  BY <1>1, <1>w DEF Placed
<1>3. ASSUME NEW y \in x .. x + p - 1 PROVE (y - x) % w = y - x
  <2>1. PICK k \in Nat : k = y - x /\ k < w
    <3>1. x + p <= w
      BY <1>w
    <3>2. y - x \in Nat /\ y - x < w
      BY ONLY <3>1
    <3> QED  BY <3>2
  <2> QED  BY <2>1, SmallMod
<1> QED  BY <1>2, <1>3, <1>w

(* What is added to memory for p more units of record n + 1.               *)
UnitsAdded(i, old, new, n, c, p) ==
  LET x == i.records[n + 1].at + c
  IN  /\ \A y \in x .. x + p - 1 :
           y \in DOMAIN new /\ new[y] = [unit |-> i.records[n + 1].units[(y - x) + c + 1]]
      /\ \A y \in DOMAIN old : y \notin x .. x + p - 1 => y \in DOMAIN new /\ new[y] = old[y]
RecordsTyped(i) ==
  /\ Len(i.records) \in Nat
  /\ \A k \in 1 .. Len(i.records) : i.records[k].at \in Nat /\ Len(i.records[k].units) \in Nat

LEMMA LoadedMore ==
  ASSUME NEW i, RecordsTyped(i), NEW n \in Nat, n + 1 <= Len(i.records),
         NEW old, NEW new, NEW c \in Nat, NEW p \in Nat,
         LoadedUpTo(i, old, n, c), UnitsAdded(i, old, new, n, c, p)
  PROVE  LoadedUpTo(i, new, n, c + p)
<1>N. PICK N \in Nat : N = Len(i.records) /\ n + 1 <= N
  BY DEF RecordsTyped
<1>q. PICK q \in Nat : q = c + p
  OBVIOUS
<1> SUFFICES ASSUME NEW b \in 1 .. N, NEW a \in Nat, HoldsUpTo(i, b, a, n, q),
                    \A d \in b + 1 .. N : ~HoldsUpTo(i, d, a, n, q)
             PROVE  a \in DOMAIN new /\ new[a] = [unit |-> i.records[b].units[a - i.records[b].at + 1]]
  BY <1>N, <1>q DEF LoadedUpTo
<1>1. PICK g \in Nat, x \in Nat : g = i.records[n + 1].at /\ x = g + c
  <2>1. n + 1 \in 1 .. N
    BY ONLY <1>N
  <2>2. i.records[n + 1].at \in Nat
    BY <1>N, <2>1 DEF RecordsTyped
  <2> QED  BY <2>2
<1>u. /\ \A y \in x .. x + p - 1 :
           y \in DOMAIN new /\ new[y] = [unit |-> i.records[n + 1].units[(y - x) + c + 1]]
      /\ \A y \in DOMAIN old : y \notin x .. x + p - 1 => y \in DOMAIN new /\ new[y] = old[y]
  BY <1>1 DEF UnitsAdded
<1>2. InUpTo(i, n + 1, n, c) = c /\ InUpTo(i, n + 1, n, q) = q
  <2>1. ~(n + 1 <= n)
    BY ONLY n \in Nat
  <2> QED  BY <2>1 DEF InUpTo
<1>3. \A d \in 1 .. N : d # n + 1 => InUpTo(i, d, n, c) = InUpTo(i, d, n, q)
  BY DEF InUpTo
<1>4. \A d \in 1 .. N : HoldsUpTo(i, d, a, n, c) => HoldsUpTo(i, d, a, n, q)
  <2> SUFFICES ASSUME NEW d \in 1 .. N, HoldsUpTo(i, d, a, n, c) PROVE HoldsUpTo(i, d, a, n, q)
    OBVIOUS
  <2>1. CASE d = n + 1
    <3>1. g <= a /\ a < g + c
      BY <1>1, <1>2, <2>1 DEF HoldsUpTo
    <3>2. a < g + q
      BY ONLY <3>1, <1>q
    <3> QED  BY <1>1, <1>2, <2>1, <3>1, <3>2 DEF HoldsUpTo
  <2>2. CASE d # n + 1
    BY <1>3, <2>2 DEF HoldsUpTo
  <2> QED  BY <2>1, <2>2
<1>5. \A d \in b + 1 .. N : ~HoldsUpTo(i, d, a, n, c)
  <2>1. \A d \in b + 1 .. N : d \in 1 .. N
    OBVIOUS
  <2> QED  BY <1>4, <2>1
<1>6. CASE a \in x .. x + p - 1
  <2>1. HoldsUpTo(i, n + 1, a, n, q)
    <3>1. x = g + c
      BY <1>1
    <3>2. g <= a /\ a < g + q
      BY ONLY <3>1, <1>6, <1>q
    <3> QED  BY <1>1, <1>2, <3>2 DEF HoldsUpTo
  <2>2. b = n + 1
    <3>1. CASE b < n + 1
      <4>1. n + 1 \in b + 1 .. N
        BY ONLY <3>1, <1>N
      <4> QED  BY <2>1, <4>1
    <3>2. CASE b > n + 1
      <4>1. ~(b <= n) /\ b # n + 1
        BY ONLY <3>2
      <4>2. InUpTo(i, b, n, q) = 0
        BY <4>1 DEF InUpTo
      <4>3. PICK h \in Nat : h = i.records[b].at
        BY <1>N DEF RecordsTyped
      <4>4. h <= a /\ a < h + 0
        BY <4>2, <4>3 DEF HoldsUpTo
      <4> QED  BY ONLY <4>4
    <3>3. b < n + 1 \/ b = n + 1 \/ b > n + 1
      BY ONLY b \in 1 .. N, N \in Nat, n \in Nat
    <3> QED  BY <3>1, <3>2, <3>3
  <2>3. (a - x) + c + 1 = a - g + 1
    <3>1. x = g + c
      BY <1>1
    <3> QED  BY ONLY <3>1
  <2> QED  BY <1>1, <1>6, <1>u, <2>2, <2>3
<1>7. CASE a \notin x .. x + p - 1
  <2>1. HoldsUpTo(i, b, a, n, c)
    <3>1. CASE b = n + 1
      <4>1. g <= a /\ a < g + q
        BY <1>1, <1>2, <3>1 DEF HoldsUpTo
      <4>2. a < g + c
        <5>1. x = g + c
          BY <1>1
        <5> QED  BY ONLY <5>1, <1>7, <1>q, <4>1
      <4> QED  BY <1>1, <1>2, <3>1, <4>1, <4>2 DEF HoldsUpTo
    <3>2. CASE b # n + 1
      BY <1>3, <3>2 DEF HoldsUpTo
    <3> QED  BY <3>1, <3>2
  <2>2. a \in DOMAIN old /\ old[a] = [unit |-> i.records[b].units[a - i.records[b].at + 1]]
    BY <1>5, <1>N, <2>1 DEF LoadedUpTo
  <2> QED  BY <1>7, <1>u, <2>2
<1> QED  BY <1>6, <1>7

InBodyOf(i, e, n, z, j, c) ==
  ImageIs(i, e, n, z) /\ ReaderAt /\ OnItsFile /\ HeaderKept /\ BodyOf(j, c)

LEMMA BodyAtHand ==
  ASSUME ImagesFound, XldrInv, link = "body"
  PROVE  \E i, e : \E n \in Nat, z \in Nat : \E j \in 1 .. n, c \in Nat :
           InBodyOf(i, e, n, z, j, c)
<1>1. PICK i, e : \E n \in Nat, z \in Nat : ImageIs(i, e, n, z)
  BY ImageHas DEF ReaderAt, XldrInv, InBody
<1>2. PICK n \in Nat, z \in Nat : ImageIs(i, e, n, z)
  BY <1>1
<1>3. PICK j \in 1 .. n, c \in Nat :
        ReaderAt /\ OnItsFile /\ HeaderKept /\ BodyOf(j, c)
  BY <1>2 DEF XldrInv, InBody, OnFile, ImageIs
<1>4. InBodyOf(i, e, n, z, j, c)
  BY <1>2, <1>3 DEF InBodyOf
<1> QED  BY <1>4

(* Of the record at hand: its place a, its length p, the first cell s of   *)
(* its body, and the range from b, of length l.                            *)
BodyNumbers(i, e, n, z, j, c, a, p, s, b, l, w) ==
  /\ a = i.records[j].at /\ p = Len(i.records[j].units) /\ s = e[j] + 2 /\ s = Start(j) + 2
  /\ b = header.address /\ l = header.length /\ header = i.range /\ w = AddressSpace
  /\ i = Image /\ z = Len(Cells) /\ s + p <= z /\ a < w /\ b >= CodeTop
  /\ c + toRead = p /\ Gathered(s, c) /\ record.sum = SumOf(UnitCells(i.records[j]))
  /\ a >= b /\ (a - b + p) % w <= l /\ a + c <= w /\ into = (a + c) % w
  /\ WithinUpTo(i, header, j - 1) /\ LoadedUpTo(i, memory, j - 1, c)
  /\ \A k \in 1 .. p : Cells[s + k] = [unit |-> i.records[j].units[k]]

LEMMA BodyHas ==
  ASSUME NEW i, NEW e, NEW n \in Nat, NEW z \in Nat, NEW j \in 1 .. n, NEW c \in Nat,
         InBodyOf(i, e, n, z, j, c)
  PROVE  \E a \in Nat, p \in Nat, s \in Nat, b \in Nat, l \in Nat, w \in Nat \ {0} :
           BodyNumbers(i, e, n, z, j, c, a, p, s, b, l, w)
<1>1. /\ ImageIs(i, e, n, z) /\ HeaderKept /\ BodyOf(j, c) /\ i = Image /\ z = Len(Cells)
      /\ e = PartStarts(i)
  BY DEF InBodyOf, ImageIs
<1>2. PICK w \in Nat \ {0} : w = AddressSpace
  BY SpaceType
<1>3. PICK a \in Nat, p \in Nat :
        a = i.records[j].at /\ p = Len(i.records[j].units) /\ a < w
  <2>1. i.records[j].at \in 1 .. AddressSpace - 1 /\ Len(i.records[j].units) \in Nat
    <3>1. RecordAt(i, e, z, j)
      BY <1>1, RecordHas
    <3> QED  BY <3>1 DEF RecordAt
  <2>2. i.records[j].at \in Nat /\ i.records[j].at < w
    BY <1>2, <2>1
  <2> QED  BY <2>1, <2>2
<1>4. PICK s \in Nat : s = e[j] + 2 /\ s = Start(j) + 2
  <2>1. e[j] \in Nat /\ e[j] = Start(j)
    BY <1>1 DEF ImageIs, Start
  <2>2. PICK g \in Nat : g = e[j] /\ g = Start(j)
    BY <2>1
  <2>3. g + 2 \in Nat
    BY ONLY g \in Nat
  <2> QED  BY <2>2, <2>3
<1>5. s + p <= z /\ \A k \in 1 .. p : Cells[s + k] = [unit |-> i.records[j].units[k]]
  <2>1. RecordAt(i, e, z, j)
    BY <1>1, RecordHas
  <2>2. PICK cells : cells = Cells
    OBVIOUS
  <2>3. PICK g \in Nat : g = e[j] /\ s = g + 2
    BY <1>1, <1>4 DEF ImageIs
  <2>4. g + 2 + p <= z /\ \A k \in 1 .. p : cells[g + 2 + k] = [unit |-> i.records[j].units[k]]
    BY <1>3, <2>1, <2>2, <2>3 DEF RecordAt
  <2>5. s + p <= z /\ \A k \in 1 .. p : cells[s + k] = [unit |-> i.records[j].units[k]]
    BY <2>3, <2>4
  <2> QED  BY <2>2, <2>5
<1>6. PICK b \in Nat, l \in Nat :
        b = header.address /\ l = header.length /\ header = i.range /\ b >= CodeTop
  BY <1>1, RangeType DEF ImageIs, HeaderKept
<1>7. /\ c + toRead = p /\ Gathered(s, c) /\ record.sum = SumOf(UnitCells(i.records[j]))
      /\ a >= b /\ (a - b + p) % w <= l /\ a + c <= w /\ into = (a + c) % w
      /\ WithinUpTo(i, header, j - 1) /\ LoadedUpTo(i, memory, j - 1, c)
  <2>1. i = Image
    BY <1>1
  <2> QED  BY <2>1, <1>1, <1>2, <1>3, <1>4, <1>6 DEF BodyOf
<1>8. BodyNumbers(i, e, n, z, j, c, a, p, s, b, l, w)
  BY <1>1, <1>2, <1>3, <1>4, <1>5, <1>6, <1>7 DEF BodyNumbers
<1> QED  BY <1>8

LEMMA BodyReads ==
  ASSUME ImagesFound, XldrInv, link = "body", FileSystemRead
  PROVE  XldrInv'
<1>1. SameVolume /\ header' = header /\ record' = record
  BY DEF FileSystemRead, SameVolume
<1>2. PICK i, e : \E n \in Nat, z \in Nat : \E j \in 1 .. n, c \in Nat : InBodyOf(i, e, n, z, j, c)
  BY BodyAtHand
<1>3. PICK n \in Nat, z \in Nat : \E j \in 1 .. n, c \in Nat : InBodyOf(i, e, n, z, j, c)
  BY <1>2
<1>4. PICK j \in 1 .. n, c \in Nat : InBodyOf(i, e, n, z, j, c)
  BY <1>3
<1>5. PICK a \in Nat, p \in Nat, s \in Nat, b \in Nat, l \in Nat, w \in Nat \ {0} :
        BodyNumbers(i, e, n, z, j, c, a, p, s, b, l, w)
  BY <1>4, BodyHas
<1>6. ReaderAt /\ OnItsFile /\ SignedAt(medium, lba) /\ ImageIs(i, e, n, z) /\ HeaderKept
  BY <1>4 DEF InBodyOf, ReaderAt
<1>7. /\ z = Len(Cells) /\ s + p <= z /\ Gathered(s, c) /\ c + toRead = p /\ toRead \in Nat
  BY <1>5, <1>6 DEF BodyNumbers, ReaderAt
<1>8. s + c + toRead <= Len(Cells) /\ Len(Cells) \in Nat
  BY <1>7
<1>9. PICK g \in Nat \ {0}, q \in Nat :
        /\ q = c + g /\ g <= toRead /\ toRead' = toRead - g /\ ReaderAt' /\ Gathered(s, q)'
        /\ into' = (into + g) % AddressSpace
        /\ memory' = IF link = "body" THEN Placed(Slice(Cells, s + c, g)) ELSE memory
        /\ link' = IF link = "body" /\ Overruns(g) THEN "wild" ELSE link
  BY <1>6, <1>7, <1>8, GatherMore
<1>15. memory' = Placed(Slice(Cells, s + c, g))
  BY <1>9
<1>16. link' = IF Overruns(g) THEN "wild" ELSE "body"
  BY <1>9
<1>10. q <= p /\ q + toRead' = p
  <2>1. PICK t \in Nat, v \in Int : t = toRead /\ v = toRead' /\ v = t - g /\ g <= t /\ c + t = p
    BY <1>7, <1>9
  <2>2. q = c + g
    BY <1>9
  <2>3. q <= p /\ q + v = p
    BY ONLY <2>1, <2>2
  <2> QED  BY <2>1, <2>3
<1>11. PICK x \in Nat : x = a + c /\ x <= w /\ into = x % w /\ w = AddressSpace
  <2>1. a + c <= w /\ into = (a + c) % w /\ w = AddressSpace
    BY <1>5 DEF BodyNumbers
  <2>2. PICK x \in Nat : x = a + c
    OBVIOUS
  <2> QED  BY <2>1, <2>2
<1>12. /\ OnItsFile' /\ Image' = i /\ i = Image /\ SignedAt(medium, lba)' /\ Start(j)' + 2 = s
       /\ n = Len(i.records)
  BY <1>1, <1>5, <1>6, ImageStays DEF ImageIs, BodyNumbers
<1>13. CASE ~Overruns(g)
  <2>1. x + g <= w
    BY <1>11, <1>13, OverrunsAtTheEnd
  <2>2. PICK u : u = Slice(Cells, s + c, g)
    OBVIOUS
  <2>3. PICK f \in Nat : f = s + c
    OBVIOUS
  <2>c. PICK cells : cells = Cells
    OBVIOUS
  <2>4. Len(u) = g /\ \A k \in 1 .. g : u[k] = Cells[f + k]
    <3>1. u = Slice(cells, f, g)
      BY <2>2, <2>3, <2>c
    <3>2. g \in Nat
      OBVIOUS
    <3>3. IsSlice(Slice(cells, f, g), cells, f, g)
      BY <3>2, SliceHas
    <3> QED  BY <2>c, <3>1, <3>3 DEF IsSlice
  <2>5. PICK mem : mem = memory' /\ mem = Placed(u)
    BY <1>15, <2>2
  <2>6. /\ \A y \in x .. x + g - 1 : y \in DOMAIN mem /\ mem[y] = u[(y - x) + 1]
        /\ \A y \in DOMAIN memory : y \notin x .. x + g - 1 => y \in DOMAIN mem /\ mem[y] = memory[y]
    <3>1. Len(u) \in Nat \ {0} /\ x + Len(u) <= AddressSpace /\ into = x % AddressSpace
      BY <1>11, <2>1, <2>4
    <3>2. /\ \A y \in x .. x + Len(u) - 1 :
               y \in DOMAIN Placed(u) /\ Placed(u)[y] = u[(y - x) + 1]
          /\ \A y \in DOMAIN memory : y \notin x .. x + Len(u) - 1 =>
               y \in DOMAIN Placed(u) /\ Placed(u)[y] = memory[y]
      BY <3>1, PlacedIs
    <3>3. Len(u) = g
      BY <2>4
    <3> QED  BY <2>5, <3>2, <3>3
  <2>7. ASSUME NEW y \in x .. x + g - 1
        PROVE  mem[y] = [unit |-> i.records[j].units[(y - x) + c + 1]]
    <3>1. PICK k \in 1 .. g, h \in 1 .. p : k = (y - x) + 1 /\ h = c + k
      <4>1. (y - x) + 1 \in 1 .. g
        OBVIOUS
      <4>2. c + ((y - x) + 1) \in 1 .. p
        BY <1>9, <1>10
      <4> QED  BY <4>1, <4>2
    <3>2. mem[y] = Cells[f + k]
      BY <2>4, <2>6, <3>1
    <3>3. f + k = s + h /\ h = (y - x) + c + 1
      BY <2>3, <3>1
    <3>4. Cells[s + h] = [unit |-> i.records[j].units[h]]
      BY <1>5 DEF BodyNumbers
    <3> QED  BY <3>2, <3>3, <3>4
  <2>8. PICK d \in Nat : d = j - 1 /\ d + 1 = j /\ d + 1 <= n
    OBVIOUS
  <2>9. RecordsTyped(i)
    <3>1. ASSUME NEW k \in 1 .. n
          PROVE  i.records[k].at \in Nat /\ Len(i.records[k].units) \in Nat
      <4>1. i.records[k].at \in 1 .. AddressSpace - 1 /\ Len(i.records[k].units) \in Nat
        <5>1. RecordAt(i, e, z, k)
          BY <1>6, RecordHas
        <5> QED  BY <5>1 DEF RecordAt
      <4> QED  BY <4>1, SpaceType
    <3> QED  BY <1>12, <3>1 DEF RecordsTyped
  <2>10. LoadedUpTo(i, memory, d, c)
    BY <1>5, <2>8 DEF BodyNumbers
  <2>11. x = i.records[d + 1].at + c
    BY <1>5, <1>11, <2>8 DEF BodyNumbers
  <2>o. PICK old : old = memory
    OBVIOUS
  <2>12. LoadedUpTo(i, mem, d, q)
    <3>1. \A y \in x .. x + g - 1 :
            y \in DOMAIN mem /\ mem[y] = [unit |-> i.records[d + 1].units[(y - x) + c + 1]]
      BY <2>6, <2>7, <2>8
    <3>2. \A y \in DOMAIN old : y \notin x .. x + g - 1 => y \in DOMAIN mem /\ mem[y] = old[y]
      BY <2>6, <2>o
    <3>3. LoadedUpTo(i, old, d, c)
      BY <2>10, <2>o
    <3>4. UnitsAdded(i, old, mem, d, c, g)
      BY <2>11, <3>1, <3>2 DEF UnitsAdded
    <3>5. d + 1 <= Len(i.records)
      BY <1>12, <2>8
    <3>6. LoadedUpTo(i, mem, d, c + g)
      BY <2>9, <3>3, <3>4, <3>5, LoadedMore
    <3> QED  BY <1>9, <3>6
  <2>13. into' = (x + g) % w
    <3>1. into = x
      BY <1>11, <2>1, AddressesIn
    <3> QED  BY <1>9, <1>11, <3>1
  <2>14. BodyOf(j, q)'
    <3>1. a + q = x + g
      BY <1>9, <1>11
    <3>2. a + q <= AddressSpace /\ into' = (a + q) % AddressSpace
      BY <1>11, <2>1, <2>13, <3>1
    <3>3. /\ a = i.records[j].at /\ p = Len(i.records[j].units)
          /\ record.sum = SumOf(UnitCells(i.records[j])) /\ a >= header.address
          /\ (a - header.address + p) % AddressSpace <= header.length
          /\ WithinUpTo(i, header, j - 1)
      BY <1>5 DEF BodyNumbers
    <3>4. LoadedUpTo(i, memory', j - 1, q)
      BY <2>5, <2>8, <2>12
    <3>5. Gathered(Start(j) + 2, q)'
      BY <1>9, <1>12 DEF Gathered
    <3> QED  BY <1>1, <1>10, <1>12, <3>2, <3>3, <3>4, <3>5 DEF BodyOf
  <2>15. HeaderKept'
    BY <1>1, <1>6, <1>12 DEF HeaderKept
  <2>16. InBody'
    BY <1>9, <1>12, <2>14, <2>15 DEF InBody
  <2>17. link' = "body"
    BY <1>16, <1>13
  <2> QED  BY <1>12, <2>16, <2>17
        DEF XldrInv, InScanning, InHeader, InRecord, AtJump, AtWild, AtSpin, OnFile
<1>14. CASE Overruns(g)
  <2>1. link' = "wild"
    BY <1>16, <1>14
  <2>2. ASSUME Sound(i) PROVE FALSE
    <3>1. a + p <= b + l /\ b + l < w /\ a >= b /\ b >= CodeTop
      BY <1>5, <1>12, <2>2, <1>6 DEF Sound, Within, BodyNumbers, ImageIs
    <3>2. x + g <= w
      BY <1>9, <1>10, <1>11, <3>1
    <3>3. Addresses32(g) = x .. x + g - 1
      BY <1>11, <3>2, AddressesIn
    <3>4. PICK y \in x .. x + g - 1 : y < CodeTop
      BY <1>14, <3>3 DEF Overruns
    <3> QED  BY <1>11, <3>1, <3>4, SpaceType
  <2>3. SignedAt(medium, lba)' /\ OnItsFile' /\ ~Sound(Image)'
    <3>1. ~Sound(Image')
      BY <1>12, <2>2
    <3>2. Sound(Image') <=> Sound(Image)'
      BY DEF Sound, Within
    <3> QED  BY <1>12, <3>1, <3>2
  <2>4. AtWild'
    BY <2>3 DEF AtWild
  <2> QED  BY <2>1, <2>4
        DEF XldrInv, InScanning, InHeader, InRecord, InBody, AtJump, AtSpin, OnFile
<1> QED  BY <1>13, <1>14

LEMMA BodyEndKeeps ==
  ASSUME ImagesFound, XldrInv, RecordBodyRead \/ BodySumWrong
  PROVE  XldrInv'
<1>1. link = "body" /\ toRead = 0 /\ SameVolume
  BY DEF RecordBodyRead, BodySumWrong, Got, Spin, SameVolume
<1>2. PICK i, e : \E n \in Nat, z \in Nat : \E j \in 1 .. n, c \in Nat : InBodyOf(i, e, n, z, j, c)
  BY <1>1, BodyAtHand
<1>3. PICK n \in Nat, z \in Nat : \E j \in 1 .. n, c \in Nat : InBodyOf(i, e, n, z, j, c)
  BY <1>2
<1>4. PICK j \in 1 .. n, c \in Nat : InBodyOf(i, e, n, z, j, c)
  BY <1>3
<1>5. PICK a \in Nat, p \in Nat, s \in Nat, b \in Nat, l \in Nat, w \in Nat \ {0} :
        BodyNumbers(i, e, n, z, j, c, a, p, s, b, l, w)
  BY <1>4, BodyHas
<1>6. ReaderAt /\ OnItsFile /\ ImageIs(i, e, n, z) /\ HeaderKept
  BY <1>4 DEF InBodyOf
<1>7. c = p
  BY <1>1, <1>5 DEF BodyNumbers
<1>8. /\ OnItsFile' /\ Image' = i /\ i = Image /\ Cells' = Cells /\ (\A k : Start(k)' = Start(k))
      /\ n = Len(i.records)
  BY <1>1, <1>6, ImageStays DEF ImageIs
<1>9. Passed = s + p /\ taken = Slice(Cells, s, p)
  BY <1>5, <1>7 DEF BodyNumbers, Gathered
<1>10. SumRight
  <2>1. DOMAIN i.records[j].units = 1 .. p
    <3>1. DOMAIN i.records[j].units = 1 .. Len(i.records[j].units)
      <4>1. RecordAt(i, e, z, j)
        BY <1>6, RecordHas
      <4> QED  BY <4>1 DEF RecordAt
    <3>2. p = Len(i.records[j].units)
      BY <1>5 DEF BodyNumbers
    <3> QED  BY <3>1, <3>2
  <2>2. \A k \in 1 .. p : Cells[s + k] = [unit |-> i.records[j].units[k]]
    BY <1>5 DEF BodyNumbers
  <2>3. taken = UnitCells(i.records[j])
    BY <1>9, <2>1, <2>2 DEF Slice, UnitCells
  <2> QED  BY <1>5, <2>3 DEF SumRight, BodyNumbers
<1>11. RecordBodyRead
  BY <1>10 DEF BodySumWrong
<1>12. /\ link' = "record" /\ toRead' = 2 /\ taken' = <<>> /\ reader' = reader
       /\ memory' = memory /\ header' = header
  BY <1>11 DEF RecordBodyRead, AsksFor, image32
<1>13. ReaderAt' /\ Passed' = s + p
  BY <1>1, <1>6, <1>9, <1>12, ReaderStays
<1>14. PICK t \in Nat : t = s + p /\ t = e[j + 1] /\ t = Start(j + 1)
  <2>1. e[j + 1] = s + p
    <3>1. e[j + 1] = e[j] + 2 + Len(i.records[j].units)
      <4>1. RecordAt(i, e, z, j)
        BY <1>6, RecordHas
      <4> QED  BY <4>1 DEF RecordAt
    <3>2. p = Len(i.records[j].units) /\ s = e[j] + 2
      BY <1>5 DEF BodyNumbers
    <3> QED  BY <3>1, <3>2
  <2>2. e[j + 1] = Start(j + 1)
    BY <1>6 DEF ImageIs, Start
  <2>3. s + p \in Nat
    OBVIOUS
  <2> QED  BY <2>1, <2>2, <2>3
<1>15. Slice(Cells, t, 0) = <<>>
  BY SliceNone
<1>16. Gathered(t, 0)'
  <2>1. Passed' = t + 0
    BY <1>13, <1>14
  <2> QED  BY <1>8, <1>12, <1>15, <2>1 DEF Gathered
<1>17. WithinUpTo(i, header, j)
  <2>1. a + p <= b + l
    <3>1. PICK v \in Nat : v = a - b + p
      <4>1. a >= b
        BY <1>5 DEF BodyNumbers
      <4> QED  BY <4>1
    <3>2. b >= 1 /\ a >= b /\ v % w <= l /\ a + p <= w
      <4>1. b >= CodeTop /\ a >= b /\ (a - b + p) % w <= l /\ a + c <= w
        BY <1>5, Zenon DEF BodyNumbers
      <4>2. CodeTop \in Nat \ {0}
        BY SpaceType
      <4>3. b >= 1
        BY ONLY <4>1, <4>2, b \in Nat
      <4>4. v % w <= l /\ a + p <= w
        BY <1>7, <3>1, <4>1, Zenon
      <4> QED  BY <4>1, <4>3, <4>4, Zenon
    <3>3. v < w
      BY <3>1, <3>2
    <3>4. v % w = v
      BY <3>3, SmallMod
    <3> QED  BY <3>1, <3>2, <3>4
  <2>2. ASSUME NEW k \in 1 .. j
        PROVE  /\ i.records[k].at >= header.address
               /\ i.records[k].at + Len(i.records[k].units) <= header.address + header.length
    <3>1. CASE k = j
      BY <1>5, <2>1, <3>1 DEF BodyNumbers
    <3>2. CASE k # j
      <4>1. k \in 1 .. j - 1
        BY <3>2
      <4> QED  BY <1>5, <4>1 DEF BodyNumbers, WithinUpTo
    <3> QED  BY <3>1, <3>2
  <2> QED  BY <2>2 DEF WithinUpTo
<1>18. LoadedUpTo(i, memory, j, 0)
  <2>1. PICK d \in Nat : d = j - 1
    OBVIOUS
  <2>2. p = Len(i.records[j].units) /\ LoadedUpTo(i, memory, d, p)
    BY <1>5, <1>7, <2>1 DEF BodyNumbers
  <2>3. ASSUME NEW k \in 1 .. n PROVE InUpTo(i, k, d, p) = InUpTo(i, k, j, 0)
    <3>1. CASE k <= d
      BY <2>1, <3>1 DEF InUpTo
    <3>2. CASE k = d + 1
      BY <2>1, <2>2, <3>2 DEF InUpTo
    <3>3. CASE k > d + 1
      BY <2>1, <3>3 DEF InUpTo
    <3> QED  BY <2>1, <3>1, <3>2, <3>3
  <2>4. ASSUME NEW k \in 1 .. n, NEW y \in Nat
        PROVE  HoldsUpTo(i, k, y, d, p) <=> HoldsUpTo(i, k, y, j, 0)
    BY <2>3 DEF HoldsUpTo
  <2> SUFFICES ASSUME NEW k \in 1 .. n, NEW y \in Nat, HoldsUpTo(i, k, y, j, 0),
                      \A v \in k + 1 .. n : ~HoldsUpTo(i, v, y, j, 0)
               PROVE  y \in DOMAIN memory
                      /\ memory[y] = [unit |-> i.records[k].units[y - i.records[k].at + 1]]
    BY <1>8 DEF LoadedUpTo
  <2>5. \A v \in k + 1 .. n : v \in 1 .. n
    OBVIOUS
  <2>6. HoldsUpTo(i, k, y, d, p) /\ \A v \in k + 1 .. n : ~HoldsUpTo(i, v, y, d, p)
    BY <2>4, <2>5
  <2> QED  BY <1>8, <2>2, <2>6 DEF LoadedUpTo
<1>19. PICK m \in 1 .. n + 1 : m = j + 1 /\ m - 1 = j /\ m \in 1 .. Len(Image'.records) + 1
  BY <1>8
<1>20. HeaderOf(m, 0)'
  <2>1. Start(m)' = t
    BY <1>8, <1>14, <1>19
  <2>2. Gathered(Start(m), 0)'
    BY <1>16, <2>1 DEF Gathered
  <2>3. WithinUpTo(Image', header', m - 1) /\ LoadedUpTo(Image', memory', m - 1, 0)
    BY <1>8, <1>12, <1>17, <1>18, <1>19
  <2> QED  BY <1>12, <2>2, <2>3 DEF HeaderOf
<1>21. HeaderKept'
  BY <1>6, <1>8, <1>12 DEF HeaderKept
<1>22. InRecord'
  BY <1>13, <1>19, <1>20, <1>21 DEF InRecord
<1> QED  BY <1>8, <1>12, <1>22
      DEF XldrInv, InScanning, InHeader, InBody, AtJump, AtWild, AtSpin, OnFile

-----------------------------------------------------------------------------
(* The second stage on a volume that it boots.                             *)

(* Its file, of N sectors from sector p on.                                *)
LoaderFile(m, f, N, p) ==
  /\ WCELDRNAME(m) \in DOMAIN m.files /\ f = m.files[WCELDRNAME(m)] /\ FileMade(m, f)
  /\ DOMAIN f.sectors = 1 .. N /\ p = FileSector(m, f, 1)
  /\ p + (N - 1) < XldrSectorCount(m) /\ XldrSectorCount(m) \in Nat
  /\ (\E k \in 1 .. N : Signed(f.sectors[k]))
  /\ \A k \in 1 .. N :
       /\ FileSector(m, f, k) = p + (k - 1) /\ XldrPlace(m, p + (k - 1)) = p + (k - 1)
       /\ Content(m, p + (k - 1)) = f.sectors[k]

LEMMA LoadsHave ==
  ASSUME NEW m, NumbersMade(m), FilesMade(m), ImagesMade(m), ChainLoads(m)
  PROVE  \E f : \E N \in Nat \ {0}, p \in Nat : LoaderFile(m, f, N, p)
<1>1. PICK f : f = m.files[WCELDRNAME(m)]
  OBVIOUS
<1>2. /\ WCELDRNAME(m) \in DOMAIN m.files /\ InOnePiece(f) /\ f.image.whole
      /\ LastImageSector(m, f) < XldrSectorCount(m)
      /\ m.drive.edd \/ InReach(m, LastImageSector(m, f))
  BY <1>1 DEF ChainLoads
<1>3. FileMade(m, f)
  BY <1>1, <1>2 DEF FilesMade
<1>4. PICK N \in Nat : N = Len(f.sectors) /\ DOMAIN f.sectors = 1 .. N
  BY <1>3 DEF FileMade
<1>5. PICK k \in 1 .. N : Signed(f.sectors[k])
  BY <1>1, <1>2, <1>4 DEF ImagesMade
<1>6. N \in Nat \ {0} /\ 1 \in 1 .. N /\ N \in 1 .. N
  OBVIOUS
<1>7. PICK p \in Nat : p = FileSector(m, f, 1)
  BY <1>3, <1>4, <1>6, FileSectorNat
<1>8. ASSUME NEW s \in 1 .. N PROVE FileSector(m, f, s) = p + (s - 1)
  <2>1. PICK x \in Nat : x = ClusterStart(m, f.cluster)
    <3>1. 1 \in DOMAIN f.sectors
      BY <1>4, <1>6
    <3>2. f.cluster - 2 \in Nat /\ m.perCluster \in Nat /\ DataStart(m) \in Nat
      BY <1>3, <3>1, FirstSector, MediumNumbers
    <3>3. (f.cluster - 2) * m.perCluster \in Nat
      BY <3>2, ProductNat
    <3> QED  BY <3>2, <3>3 DEF ClusterStart
  <2>2. ASSUME NEW t \in 1 .. N PROVE (IF t >= f.split THEN f.gap ELSE 0) = 0
    <3>1. CASE f.gap = 0
      BY <3>1
    <3>2. CASE f.gap # 0
      <4>1. f.split \in Nat /\ f.split > N
        BY <1>2, <1>3, <1>4, <3>2 DEF InOnePiece, FileMade
      <4>2. ~(t >= f.split)
        BY <4>1
      <4> QED  BY <4>2
    <3> QED  BY <3>1, <3>2
  <2>3. FileSector(m, f, s) = x + s - 1 + 0 /\ FileSector(m, f, 1) = x + 1 - 1 + 0
    BY <1>6, <2>1, <2>2 DEF FileSector
  <2> QED  BY <1>7, <2>3
<1>9. PICK c \in Nat : c = XldrSectorCount(m)
  BY DEF XldrSectorCount, ImagesMade
<1>10. p + (N - 1) < c /\ (m.drive.edd \/ InReach(m, p + (N - 1)))
  BY <1>2, <1>4, <1>6, <1>8, <1>9 DEF LastImageSector
<1>11. ASSUME NEW s \in 1 .. N
       PROVE  XldrPlace(m, p + (s - 1)) = p + (s - 1) /\ Content(m, p + (s - 1)) = f.sectors[s]
  <2>1. PICK n \in Nat : n = p + (s - 1) /\ n = FileSector(m, f, s)
    <3>1. p + (s - 1) \in Nat
      OBVIOUS
    <3> QED  BY <1>8, <3>1
  <2>2. s \in DOMAIN f.sectors
    BY <1>4
  <2>3. OnMedium(m, n)
    BY <1>3, <2>1, <2>2 DEF FileMade
  <2>4. m.drive.edd \/ InReach(m, n)
    <3>1. CASE m.drive.edd
      BY <3>1
    <3>2. CASE ~m.drive.edd
      <4>1. PICK v \in Nat : v = Cylinders * m.drive.heads * m.drive.track
        <5>1. Cylinders \in Nat /\ m.drive.heads \in Nat /\ m.drive.track \in Nat
          BY CylindersType DEF NumbersMade
        <5> QED  BY <5>1, ProductNat
      <4>2. p + (N - 1) < v
        BY <1>10, <3>2, <4>1 DEF InReach
      <4>3. n < v
        BY <2>1, <4>2
      <4> QED  BY <4>1, <4>3 DEF InReach
    <3> QED  BY <3>1, <3>2
  <2>5. XldrPlace(m, n) = n
    BY <2>3, <2>4, XldrPlaceIs
  <2>6. Content(m, n) = f.sectors[s]
    BY <1>1, <1>2, <2>1, <2>2, ContentOfFile
  <2> QED  BY <2>1, <2>5, <2>6
<1>12. LoaderFile(m, f, N, p)
  BY <1>1, <1>2, <1>3, <1>4, <1>5, <1>7, <1>8, <1>9, <1>10, <1>11 DEF LoaderFile
<1> QED  BY <1>6, <1>12

(* Where the scan has got to.                                              *)
ScanAt(m, f, N, p, l, g) ==
  /\ LoaderFile(m, f, N, p) /\ l = p + (g - 1)
  /\ \A q \in 1 .. g - 1 : ~Signed(f.sectors[q])

LEMMA ScansHave ==
  ASSUME NEW m, NumbersMade(m), FilesMade(m), ImagesMade(m), ChainLoads(m),
         NEW l, Scans(m, l)
  PROVE  \E f : \E N \in Nat \ {0}, p \in Nat : \E g \in 1 .. N : ScanAt(m, f, N, p, l, g)
<1>1. PICK f : \E N \in Nat \ {0}, p \in Nat : LoaderFile(m, f, N, p)
  BY LoadsHave
<1>2. PICK N \in Nat \ {0}, p \in Nat : LoaderFile(m, f, N, p)
  BY <1>1
<1>3. /\ f = m.files[WCELDRNAME(m)] /\ DOMAIN f.sectors = 1 .. N
      /\ \A k \in 1 .. N : FileSector(m, f, k) = p + (k - 1)
  BY <1>2 DEF LoaderFile
<1>4. PICK g \in 1 .. N :
        l = FileSector(m, f, g) /\ \A q \in 1 .. g - 1 : ~Signed(f.sectors[q])
  BY <1>3 DEF Scans
<1>5. ScanAt(m, f, N, p, l, g)
  BY <1>2, <1>3, <1>4 DEF ScanAt
<1> QED  BY <1>5

HereAt(m, f, g, l) ==
  /\ l \in Nat /\ l < XldrSectorCount(m) /\ XldrSectorCount(m) \in Nat
  /\ XldrPlace(m, l) = l /\ Content(m, l) = f.sectors[g] /\ FileSector(m, f, g) = l

LEMMA HereIs ==
  ASSUME NEW m, NEW f, NEW N \in Nat \ {0}, NEW p \in Nat, NEW g \in 1 .. N, NEW l,
         ScanAt(m, f, N, p, l, g)
  PROVE  HereAt(m, f, g, l)
<1>1. /\ l = p + (g - 1) /\ p + (N - 1) < XldrSectorCount(m) /\ XldrSectorCount(m) \in Nat
      /\ FileSector(m, f, g) = p + (g - 1) /\ XldrPlace(m, p + (g - 1)) = p + (g - 1)
      /\ Content(m, p + (g - 1)) = f.sectors[g]
  BY DEF ScanAt, LoaderFile
<1>2. l \in Nat
  BY <1>1
<1>3. l < XldrSectorCount(m)
  <2>1. PICK c \in Nat : c = XldrSectorCount(m)
    BY <1>1
  <2>2. p + (N - 1) < c
    BY <1>1, <2>1
  <2>3. p + (g - 1) < c
    BY <2>2
  <2> QED  BY <1>1, <2>1, <2>3
<1> QED  BY <1>1, <1>2, <1>3 DEF HereAt

(* The places as the second stage computes them.                           *)
LEMMA XldrRootIs ==
  ASSUME NEW m, NumbersMade(m), ChainLoads(m)
  PROVE  /\ XldrData(m) = DataStart(m) /\ XldrRoot(m) = RootStart(m)
         /\ XldrPlace(m, RootStart(m)) = RootStart(m) /\ RootStart(m) \in Nat
<1>1. /\ m.type # "exFAT" /\ m.type \in {"FAT12", "FAT16", "FAT32", "exFAT"}
      /\ SectorLoads(m, XldrSectors)
      /\ HasRootArea(m) => m.entries % EntriesPerRootSector = 0
  BY DEF ChainLoads, NumbersMade
<1>2. SectPerFAT(m) = m.perFat
  BY <1>1 DEF SectPerFAT, SectorLoads
<1>3. XldrFatEnd(m) = FatEnd(m)
  BY <1>1, <1>2 DEF XldrFatEnd, FatEnd
<1>4. ASSUME HasRootArea(m) PROVE XldrData(m) = DataStart(m) /\ XldrRoot(m) = RootStart(m)
  <2>1. m.entries \in Nat /\ EntriesPerRootSector \in Nat \ {0}
    BY SectorAssumption DEF NumbersMade
  <2>2. PICK n \in Nat, d \in Nat \ {0} : n = m.entries /\ d = EntriesPerRootSector
    BY <2>1
  <2>3. n % d = 0
    BY <1>1, <1>4, <2>2
  <2>4. CeilDiv(n, d) = n \div d + (IF n % d # 0 THEN 1 ELSE 0)
    BY CeilDivIs
  <2>5. n \div d \in Nat
    BY DivMod
  <2>6. CeilDiv(n, d) = n \div d
    BY <2>3, <2>4, <2>5
  <2>7. XldrData(m) = DataStart(m) /\ XldrRoot(m) = RootStart(m)
    BY <1>3, <1>4, <2>2, <2>6 DEF XldrData, DataStart, XldrRoot, RootStart, RootSectors
  <2> QED  BY <2>7
<1>5. ASSUME ~HasRootArea(m) PROVE XldrData(m) = DataStart(m) /\ XldrRoot(m) = RootStart(m)
  BY <1>3, <1>5 DEF XldrData, DataStart, XldrRoot, RootStart, ClusterStart
<1>6. m.drive.edd \/ InReach(m, RootStart(m))
  BY <1>1 DEF SectorLoads
<1>7. RootStart(m) \in Nat /\ OnMedium(m, RootStart(m))
  BY MediumNumbers DEF NumbersMade
<1>8. PICK r \in Nat : r = RootStart(m)
  BY <1>7
<1>9. XldrPlace(m, r) = r
  BY <1>6, <1>7, <1>8, XldrPlaceIs
<1> QED  BY <1>4, <1>5, <1>8, <1>9

LEMMA XldrDataType ==
  ASSUME NEW m, NumbersMade(m), m.type # "exFAT"
  PROVE  XldrData(m) \in Nat
<1>1. SectPerFAT(m) \in Nat
  <2>1. CASE m.type = "FAT32"
    <3>1. PICK h \in Nat, k \in 0 .. ByteSize - 1, e \in 0 .. ByteSize - 1 :
            m.perFat = ByteSize * h + k /\ SectPerFAT(m) = ByteSize * h + e
      BY <2>1, ByteOfLength
    <3>2. PICK y \in Nat, b \in Nat : y = ByteSize * h /\ b = ByteSize
      <4>1. ByteSize \in Nat
        BY WordType
      <4>2. ByteSize * h \in Nat
        BY <4>1, ProductNat
      <4> QED  BY <4>1, <4>2
    <3>3. e \in 0 .. b - 1 /\ SectPerFAT(m) = y + e
      BY <3>1, <3>2
    <3> QED  BY <3>3
  <2>2. CASE m.type # "FAT32"
    BY <2>2 DEF SectPerFAT, NumbersMade
  <2> QED  BY <2>1, <2>2
<1>2. m.hidden \in Nat /\ m.reserved \in Nat /\ m.fats \in Nat /\ m.entries \in Nat
  BY FirstProduct DEF NumbersMade
<1>3. PICK x \in Nat : x = m.fats * SectPerFAT(m)
  BY <1>1, <1>2, ProductNat
<1>4. XldrFatEnd(m) \in Nat
  BY <1>2, <1>3 DEF XldrFatEnd
<1>5. RootSectors(m) \in Nat
  <2>1. PICK n \in Nat, d \in Nat \ {0} : n = m.entries /\ d = EntriesPerRootSector
    BY <1>2, SectorAssumption
  <2>2. n \div d \in Nat
    BY DivMod
  <2> QED  BY <2>1, <2>2 DEF RootSectors
<1> QED  BY <1>4, <1>5 DEF XldrData

LEMMA NamesAreDirectory ==
  ASSUME NEW m, ImagesMade(m), NEW p, "names" \in DOMAIN Content(m, p)
  PROVE  Content(m, p).names = DOMAIN m.files
<1>1. PICK s : s = Content(m, p) /\ s \in Held(m) /\ "names" \in DOMAIN s
  BY ContentHeld
<1>2. s # Blank
  <2>1. DOMAIN Blank = {"blank"}
    BY DEF Blank
  <2> QED  BY <1>1, <2>1
<1>3. \A n \in DOMAIN m.files : \A k \in DOMAIN m.files[n].sectors :
        "names" \notin DOMAIN m.files[n].sectors[k]
  BY DEF ImagesMade
<1>4. s = Directory(m)
  BY <1>1, <1>2, <1>3 DEF Held
<1> QED  BY <1>1, <1>4 DEF Directory

(* The first steps.                                                        *)
LEMMA XldrMainKeeps ==
  ASSUME XldrMain
  PROVE  XldrInv'
<1>1. link' \in {"xldr", "wild"} /\ (link' = "wild" => ~IsStage(atLoad', XldrSectors))
  BY DEF XldrMain
<1> QED
  BY <1>1 DEF XldrInv, InScanning, InHeader, InRecord, InBody, AtJump, AtWild, AtSpin, OnFile

LEMMA SpinInv ==
  ASSUME link' = "spin", chainFaults' > 0 \/ ~ChainLoads(medium')
  PROVE  XldrInv'
<1>1. ~ChainLoads(medium') <=> ~ChainLoads(medium)'
  BY DEF ChainLoads, SectorLoads, LastImageSector
<1> QED
  BY <1>1 DEF XldrInv, InScanning, InHeader, InRecord, InBody, AtJump, AtWild, AtSpin, OnFile

LEMMA FaultIs ==
  ASSUME chainFaults \in Nat, ChainFault
  PROVE  chainFaults' > 0
BY DEF ChainFault

LEMMA FileSystemInitKeeps ==
  ASSUME ImagesFound, FileSystemInit
  PROVE  XldrInv'
<1>1. PICK m : m = medium /\ medium' = m /\ NumbersMade(m) /\ FilesMade(m) /\ ImagesMade(m)
  BY DEF FileSystemInit, ImagesFound
<1>2. PICK n, s : n = WCELDRNAME(m) /\ s = Content(m, XldrPlace(m, XldrRoot(m)))
  OBVIOUS
<1>3. /\ m.type # "exFAT" /\ "names" \in DOMAIN s /\ n \in s.names
      /\ lba' = XldrData(m) + (m.files[n].cluster - 2) * m.perCluster /\ link' = "scan"
  BY <1>1, <1>2 DEF FileSystemInit, Sector
<1>4. n \in DOMAIN m.files
  BY <1>1, <1>2, <1>3, NamesAreDirectory
<1>5. PICK x \in Nat : x = (m.files[n].cluster - 2) * m.perCluster
  <2>1. FileMade(m, m.files[n])
    BY <1>1, <1>4 DEF FilesMade
  <2>2. m.files[n].cluster - 2 \in Nat /\ m.perCluster \in Nat
    <3>1. m.perCluster \in Nat
      BY <1>1 DEF NumbersMade
    <3>2. PICK c \in Nat : c = m.files[n].cluster /\ c >= 2
      BY <2>1 DEF FileMade
    <3> QED  BY <3>1, <3>2
  <2>3. (m.files[n].cluster - 2) * m.perCluster \in Nat
    BY <2>2, ProductNat
  <2> QED  BY <2>3
<1>6. lba' \in Nat
  <2>1. XldrData(m) \in Nat
    BY <1>1, <1>3, XldrDataType
  <2> QED  BY <1>3, <1>5, <2>1
<1>7. ASSUME ChainLoads(m) PROVE Scans(m, lba')
  <2>1. PICK f : \E N \in Nat \ {0}, p \in Nat : LoaderFile(m, f, N, p)
    BY <1>1, <1>7, LoadsHave
  <2>2. PICK N \in Nat \ {0}, p \in Nat : LoaderFile(m, f, N, p)
    BY <2>1
  <2>3. /\ f = m.files[n] /\ FileMade(m, f) /\ DOMAIN f.sectors = 1 .. N /\ p = FileSector(m, f, 1)
    BY <1>2, <2>2 DEF LoaderFile
  <2>4. 1 \in DOMAIN f.sectors
    BY <2>3
  <2>5. p = DataStart(m) + (f.cluster - 2) * m.perCluster
    BY <1>1, <2>3, <2>4, FirstSector
  <2>6. XldrData(m) = DataStart(m)
    BY <1>1, <1>7, XldrRootIs
  <2>7. lba' = FileSector(m, f, 1)
    BY <1>3, <2>3, <2>5, <2>6
  <2>8. \A q \in 1 .. 1 - 1 : FALSE
    OBVIOUS
  <2> QED  BY <1>2, <2>3, <2>4, <2>7, <2>8 DEF Scans
<1>8. PICK l : l = lba' /\ l \in Nat /\ (ChainLoads(m) => Scans(m, l))
  BY <1>6, <1>7
<1>9. InScanning'
  BY <1>1, <1>8 DEF InScanning, ChainLoads, SectorLoads, LastImageSector, Scans
<1> QED
  BY <1>3, <1>9 DEF XldrInv, InHeader, InRecord, InBody, AtJump, AtWild, AtSpin, OnFile

LEMMA FileSystemInitFailsKeeps ==
  ASSUME ImagesFound, chainFaults \in Nat, FileSystemInitFails
  PROVE  XldrInv'
<1>1. PICK m : m = medium /\ medium' = m /\ NumbersMade(m) /\ FilesMade(m) /\ ImagesMade(m)
  BY DEF FileSystemInitFails, Spin, ImagesFound
<1>2. link' = "spin"
  BY DEF FileSystemInitFails, Spin
<1>3. ASSUME ChainLoads(m) PROVE chainFaults' > 0
  <2>1. /\ XldrRoot(m) = RootStart(m) /\ XldrPlace(m, RootStart(m)) = RootStart(m)
        /\ RootStart(m) \in Nat
    BY <1>1, <1>3, XldrRootIs
  <2>2. m.type # "exFAT" /\ WCELDRNAME(m) \in DOMAIN m.files
    BY <1>3 DEF ChainLoads
  <2>3. XldrPlace(m, RootStart(m)) # -1
    BY <2>1
  <2>4. Content(m, RootStart(m)) = Directory(m)
    BY DEF Content
  <2>5. "names" \in DOMAIN Directory(m) /\ WCELDRNAME(m) \in Directory(m).names
    BY <2>2 DEF Directory
  <2>6. ChainFault
    BY <1>1, <2>1, <2>2, <2>3, <2>4, <2>5
      DEF FileSystemInitFails, ReadFailsAt, Sector
  <2> QED  BY <2>6, FaultIs
<1> QED  BY <1>1, <1>2, <1>3, SpinInv

LEMMA NotSignedKeeps ==
  ASSUME ImagesFound, XldrInv, NotSigned
  PROVE  XldrInv'
<1>1. PICK m, l : /\ m = medium /\ medium' = m /\ l = lba /\ lba' = l + 1 /\ link = "scan" /\ link' = "scan"
                  /\ NumbersMade(m) /\ FilesMade(m) /\ ImagesMade(m)
                  /\ ~Signed(Content(m, XldrPlace(m, l)))
  BY DEF NotSigned, InScan, ImagesFound, Sector
<1>2. l \in Nat /\ (ChainLoads(m) => Scans(m, l))
  BY <1>1 DEF XldrInv, InScanning
<1>3. ASSUME ChainLoads(m) PROVE Scans(m, l + 1)
  <2>1. PICK f : \E N \in Nat \ {0}, p \in Nat : \E g \in 1 .. N : ScanAt(m, f, N, p, l, g)
    BY <1>1, <1>2, <1>3, ScansHave
  <2>2. PICK N \in Nat \ {0}, p \in Nat : \E g \in 1 .. N : ScanAt(m, f, N, p, l, g)
    BY <2>1
  <2>3. PICK g \in 1 .. N : ScanAt(m, f, N, p, l, g)
    BY <2>2
  <2>4. ~Signed(f.sectors[g])
    <3>1. HereAt(m, f, g, l)
      BY <2>3, HereIs
    <3> QED  BY <1>1, <3>1 DEF HereAt
  <2>5. PICK k \in 1 .. N : Signed(f.sectors[k])
    BY <2>3 DEF ScanAt, LoaderFile
  <2>6. /\ \A q \in 1 .. g - 1 : ~Signed(f.sectors[q])
        /\ l = p + (g - 1) /\ f = m.files[WCELDRNAME(m)] /\ DOMAIN f.sectors = 1 .. N
        /\ \A q \in 1 .. N : FileSector(m, f, q) = p + (q - 1)
    BY <2>3 DEF ScanAt, LoaderFile
  <2>7. \A q \in 1 .. g : ~Signed(f.sectors[q])
    <3> SUFFICES ASSUME NEW q \in 1 .. g PROVE ~Signed(f.sectors[q])
      OBVIOUS
    <3>1. CASE q = g
      BY <2>4, <3>1
    <3>2. CASE q # g
      <4>1. q \in 1 .. g - 1
        BY <3>2
      <4> QED  BY <2>6, <4>1
    <3> QED  BY <3>1, <3>2
  <2>8. k > g
    <3>1. k \notin 1 .. g
      BY <2>5, <2>7
    <3> QED  BY <3>1
  <2>9. PICK h \in 1 .. N : h = g + 1 /\ h - 1 = g
    <3>1. g + 1 \in 1 .. N /\ (g + 1) - 1 = g
      BY <2>8
    <3> QED  BY <3>1
  <2>10. l + 1 = FileSector(m, f, h)
    BY <2>6, <2>9
  <2>11. \A q \in 1 .. h - 1 : ~Signed(f.sectors[q])
    BY <2>7, <2>9
  <2> QED  BY <2>6, <2>10, <2>11 DEF Scans
<1>4. InScanning'
  <2>1. l + 1 \in Nat
    BY <1>2
  <2>2. PICK r : r = l + 1 /\ r \in Nat /\ (ChainLoads(m) => Scans(m, r)) /\ lba' = r
    BY <1>1, <1>3, <2>1
  <2> QED  BY <1>1, <2>2 DEF InScanning, ChainLoads, SectorLoads, LastImageSector, Scans
<1> QED
  BY <1>1, <1>4 DEF XldrInv, InHeader, InRecord, InBody, AtJump, AtWild, AtSpin, OnFile

LEMMA FoundOnItsFile ==
  ASSUME NEW m, NumbersMade(m), FilesMade(m), ImagesMade(m), ChainLoads(m),
         NEW l, Scans(m, l), SignedAt(m, l)
  PROVE  SourceOf(m, l)[1] = WCELDRNAME(m)
<1>1. PICK f : \E N \in Nat \ {0}, p \in Nat : \E g \in 1 .. N : ScanAt(m, f, N, p, l, g)
  BY ScansHave
<1>2. PICK N \in Nat \ {0}, p \in Nat : \E g \in 1 .. N : ScanAt(m, f, N, p, l, g)
  BY <1>1
<1>3. PICK g \in 1 .. N : ScanAt(m, f, N, p, l, g)
  BY <1>2
<1>4. XldrPlace(m, l) = l /\ FileSector(m, f, g) = l
  <2>1. HereAt(m, f, g, l)
    BY <1>3, HereIs
  <2> QED  BY <2>1 DEF HereAt
<1>5. PICK w : /\ w = WCELDRNAME(m) /\ w \in DOMAIN m.files /\ f = m.files[w]
               /\ g \in DOMAIN m.files[w].sectors
  BY <1>3 DEF ScanAt, LoaderFile
<1>6. PICK n \in DOMAIN m.files :
        \E s \in DOMAIN m.files[n].sectors :
          SourceOf(m, l) = <<n, s>> /\ XldrPlace(m, l) = FileSector(m, m.files[n], s)
  BY SourceFound
<1>7. PICK s \in DOMAIN m.files[n].sectors :
        SourceOf(m, l) = <<n, s>> /\ XldrPlace(m, l) = FileSector(m, m.files[n], s)
  BY <1>6
<1>8. FileSector(m, m.files[n], s) = FileSector(m, m.files[w], g)
  BY <1>4, <1>5, <1>7
<1>9. n = w
  BY <1>5, <1>8 DEF FilesMade
<1> QED  BY <1>5, <1>7, <1>9

LEMMA SignatureFoundKeeps ==
  ASSUME ImagesFound, XldrInv, SignatureFound
  PROVE  XldrInv'
<1>1. PICK m, l : /\ m = medium /\ medium' = m /\ l = lba /\ lba' = l /\ link = "scan" /\ link' = "header"
                  /\ NumbersMade(m) /\ FilesMade(m) /\ ImagesMade(m)
                  /\ XldrPlace(m, l) # -1 /\ Signed(Content(m, XldrPlace(m, l)))
  BY DEF SignatureFound, InScan, ImagesFound, Sector, Reads, AsksFor
<1>2. l \in Nat /\ (ChainLoads(m) => Scans(m, l))
  BY <1>1 DEF XldrInv, InScanning
<1>3. SignedAt(m, l)
  BY <1>1, <1>2 DEF SignedAt
<1>4. /\ reader'.readSector = l /\ reader'.readOffset = 0 /\ reader'.bufferSector = -1
      /\ toRead' = 2 /\ taken' = <<>>
  BY <1>1 DEF SignatureFound, AsksFor, Nowhere
<1>5. l # -1 /\ l - l = 0 /\ l >= l
  BY <1>2
<1>6. NewSector'
  BY <1>4, <1>5 DEF NewSector
<1>7. PICK b \in Nat \ {0} : b = CellsPerSector /\ 0 \in 0 .. b - 1 /\ 0 * b = 0
  BY XldrAssumption
<1>8. SignedAt(medium, lba)'
  BY <1>1, <1>3 DEF SignedAt
<1>9. ReaderAt'
  BY <1>1, <1>2, <1>4, <1>5, <1>6, <1>7, <1>8 DEF ReaderAt
<1>10. Passed' = 0
  <2>1. Passed' = (l - l) * b + 0
    BY <1>1, <1>4, <1>7 DEF Passed
  <2> QED  BY <1>5, <1>7, <2>1
<1>11. Gathered(0, 0)'
  <2>1. PICK cells : cells = Cells'
    OBVIOUS
  <2>2. Slice(cells, 0, 0) = <<>>
    BY SliceNone
  <2>3. 0 + 0 = 0
    OBVIOUS
  <2> QED  BY <1>4, <1>10, <2>1, <2>2, <2>3 DEF Gathered
<1>12. InHeader'
  <2>1. 0 \in Nat /\ 0 + 2 = 2
    OBVIOUS
  <2> QED  BY <1>4, <1>9, <1>11, <2>1 DEF InHeader
<1>13. ChainLoads(m) => SourceOf(m, l)[1] = WCELDRNAME(m)
  BY <1>1, <1>2, <1>3, FoundOnItsFile
<1>14. OnItsFile'
  BY <1>1, <1>13 DEF OnItsFile, ChainLoads, SectorLoads, LastImageSector, SourceOf
<1> QED
  BY <1>1, <1>12, <1>14 DEF XldrInv, InScanning, InRecord, InBody, AtJump, AtWild, AtSpin, OnFile

LEMMA ScanFailsKeeps ==
  ASSUME ImagesFound, chainFaults \in Nat, XldrInv, ScanFails
  PROVE  XldrInv'
<1>1. PICK m, l : /\ m = medium /\ medium' = m /\ l = lba /\ link = "scan" /\ link' = "spin"
                  /\ NumbersMade(m) /\ FilesMade(m) /\ ImagesMade(m)
  BY DEF ScanFails, InScan, ImagesFound, Spin
<1>2. ASSUME ChainLoads(m) PROVE chainFaults' > 0
  <2>0. Scans(m, l)
    BY <1>1, <1>2 DEF XldrInv, InScanning
  <2>1. PICK f : \E N \in Nat \ {0}, p \in Nat : \E g \in 1 .. N : ScanAt(m, f, N, p, l, g)
    BY <1>1, <1>2, <2>0, ScansHave
  <2>2. PICK N \in Nat \ {0}, p \in Nat : \E g \in 1 .. N : ScanAt(m, f, N, p, l, g)
    BY <2>1
  <2>3. PICK g \in 1 .. N : ScanAt(m, f, N, p, l, g)
    BY <2>2
  <2>4. l \in Nat /\ l < XldrSectorCount(m) /\ XldrPlace(m, l) = l /\ XldrSectorCount(m) \in Nat
    <3>1. HereAt(m, f, g, l)
      BY <2>3, HereIs
    <3> QED  BY <3>1 DEF HereAt
  <2>5. ~(l >= XldrSectorCount(m)) /\ XldrPlace(m, l) # -1
    BY <2>4
  <2>6. ChainFault
    BY <1>1, <2>5 DEF ScanFails, ReadFailsAt
  <2> QED  BY <2>6, FaultIs
<1> QED  BY <1>1, <1>2, SpinInv

LEMMA FileSystemReadFailsKeeps ==
  ASSUME ImagesFound, chainFaults \in Nat, XldrInv, FileSystemReadFails
  PROVE  XldrInv'
<1>1. link \in {"header", "record", "body"}
  BY DEF FileSystemReadFails, Reading
<1>2. ReaderAt
  BY <1>1 DEF XldrInv, InHeader, InRecord, InBody
<1>3. PICK i, e : \E n \in Nat, z \in Nat : ImageIs(i, e, n, z)
  BY <1>2, ImageHas DEF ReaderAt
<1>4. PICK n \in Nat, z \in Nat : ImageIs(i, e, n, z)
  BY <1>3
<1>c. PICK cells : cells = Cells /\ z = Len(cells)
  BY <1>4 DEF ImageIs
<1>5. PICK w \in Nat : cells = Cells /\ z = Len(cells) /\ w = toRead
  BY <1>2, <1>c DEF ReaderAt
<1>6. \E a \in Nat : a = Passed /\ a + w <= z
  <2>1. CASE link = "header"
    <3>1. PICK c \in Nat : c + w = 2 /\ Passed = 0 + c
      BY <1>5, <2>1 DEF XldrInv, InHeader, Gathered
    <3>2. z >= 4
      BY <1>4 DEF ImageIs
    <3> QED  BY <3>1, <3>2
  <2>2. CASE link = "record"
    <3>1. PICK j \in 1 .. n + 1, c \in Nat : c + w = 2 /\ Passed = Start(j) + c
      BY <1>4, <1>5, <2>2 DEF XldrInv, InRecord, HeaderOf, Gathered, ImageIs
    <3>2. PICK s \in Nat : s = Start(j) /\ s + 2 <= z
      BY <1>4 DEF ImageIs, Start
    <3>3. Passed = s + c /\ s + c \in Nat /\ s + c + w <= z
      BY <3>1, <3>2
    <3> QED  BY <3>3
  <2>3. CASE link = "body"
    <3>1. PICK i2, e2 : \E n2 \in Nat, z2 \in Nat : \E j \in 1 .. n2, c \in Nat :
            InBodyOf(i2, e2, n2, z2, j, c)
      BY <2>3, BodyAtHand
    <3>2. PICK n2 \in Nat, z2 \in Nat : \E j \in 1 .. n2, c \in Nat :
            InBodyOf(i2, e2, n2, z2, j, c)
      BY <3>1
    <3>3. PICK j \in 1 .. n2, c \in Nat : InBodyOf(i2, e2, n2, z2, j, c)
      BY <3>2
    <3>4. PICK a \in Nat, p \in Nat, s \in Nat, b \in Nat, l \in Nat, v \in Nat \ {0} :
            BodyNumbers(i2, e2, n2, z2, j, c, a, p, s, b, l, v)
      BY <3>3, BodyHas
    <3>5. s + p <= z2 /\ z2 = Len(Cells) /\ c + w = p /\ Passed = s + c
      BY <1>5, <3>4 DEF BodyNumbers, Gathered
    <3>6. z2 = z
      BY <1>5, <3>5
    <3>7. s + c \in Nat /\ s + c + w <= z
      BY <3>5, <3>6
    <3> QED  BY <3>5, <3>7
  <2> QED  BY <1>1, <2>1, <2>2, <2>3
<1>7. PICK a \in Nat : a = Passed /\ a + toRead <= Len(cells) /\ Len(cells) \in Nat
  BY <1>5, <1>6
<1>8. link' = "spin" /\ chainFaults' > 0
  BY <1>2, <1>5, <1>7, ReadFailsByFault
<1> QED  BY <1>8, SpinInv

LEMMA XldrInvXldrStep ==
  ASSUME ImagesFound, chainFaults \in Nat, XldrInv, XldrStep
  PROVE  XldrInv'
<1>1. CASE XldrMain
  BY <1>1, XldrMainKeeps
<1>2. CASE FileSystemInit
  BY <1>2, FileSystemInitKeeps
<1>3. CASE FileSystemInitFails
  BY <1>3, FileSystemInitFailsKeeps
<1>4. CASE NotSigned
  BY <1>4, NotSignedKeeps
<1>5. CASE SignatureFound
  BY <1>5, SignatureFoundKeeps
<1>6. CASE ScanFails
  BY <1>6, ScanFailsKeeps
<1>7. CASE FileSystemRead
  BY <1>7, HeaderReads, RecordReads, BodyReads DEF FileSystemRead, Reading
<1>8. CASE FileSystemReadFails
  BY <1>8, FileSystemReadFailsKeeps
<1>9. CASE ImageHeaderRead \/ ImageHeaderInvalid
  BY <1>9, ImageHeaderKeeps
<1>10. CASE RecordHeaderRead \/ RecordHeaderCorrupted
  BY <1>10, RecordHeaderKeeps
<1>11. CASE LastHeaderRead
  BY <1>11, LastHeaderKeeps
<1>12. CASE RecordBodyRead \/ BodySumWrong
  BY <1>12, BodyEndKeeps
<1> QED
  BY <1>1, <1>2, <1>3, <1>4, <1>5, <1>6, <1>7, <1>8, <1>9, <1>10, <1>11, <1>12 DEF XldrStep

(* The steps of the boot sector.                                           *)
LEMMA XldrInvSectorStep ==
  ASSUME SectorStep
  PROVE  XldrInv'
BY SectorStepLinks
   DEF XldrInv, InScanning, InHeader, InRecord, InBody, AtJump, AtWild, AtSpin, OnFile

LEMMA XldrInvStays ==
  ASSUME XldrInv, UNCHANGED chainVars
  PROVE  XldrInv'
<1>1. /\ link' = link /\ medium' = medium /\ lba' = lba /\ toLoad' = toLoad /\ atLoad' = atLoad
      /\ chainFaults' = chainFaults /\ reader' = reader /\ toRead' = toRead /\ taken' = taken
      /\ into' = into /\ header' = header /\ record' = record /\ memory' = memory
      /\ launchAt' = launchAt
  BY DEF chainVars, sectorVars, xldrVars
<1>2. SameVolume
  BY <1>1 DEF SameVolume
<1>3. Image' = Image /\ Cells' = Cells /\ (OnItsFile => OnItsFile')
  BY <1>2, ImageStays
<1>4. Passed' = Passed /\ (NewSector' <=> NewSector)
  BY <1>1 DEF Passed, NewSector
<1>5. ReaderAt => ReaderAt'
  BY <1>1, <1>2, <1>4, ImageStays DEF ReaderAt
<1>6. HeaderKept => HeaderKept'
  BY <1>1, <1>3 DEF HeaderKept
<1>7. \A s, c : Gathered(s, c) => Gathered(s, c)'
  BY <1>1, <1>3, <1>4 DEF Gathered
<1>8. \A j : Start(j)' = Start(j)
  BY <1>2, ImageStays
<1>9. \A j, c : HeaderOf(j, c) => HeaderOf(j, c)'
  BY <1>1, <1>3, <1>7, <1>8 DEF HeaderOf, Gathered
<1>10. \A j, c : BodyOf(j, c) => BodyOf(j, c)'
  BY <1>1, <1>3, <1>7, <1>8 DEF BodyOf, Gathered
<1>11. InScanning'
  BY <1>1 DEF XldrInv, InScanning, ChainLoads, SectorLoads, LastImageSector, Scans
<1>12. InHeader'
  BY <1>1, <1>5, <1>7 DEF XldrInv, InHeader
<1>13. InRecord'
  BY <1>1, <1>3, <1>5, <1>6, <1>9 DEF XldrInv, InRecord
<1>14. InBody'
  BY <1>1, <1>3, <1>5, <1>6, <1>10 DEF XldrInv, InBody
<1>15. AtJump'
  <2>1. (link' = "jumped") <=> (link = "jumped")
    BY <1>1
  <2>3. InMemory(Image)' <=> InMemory(Image)
    BY <1>1, <1>3 DEF InMemory
  <2>4. SignedAt(medium, lba)' <=> SignedAt(medium, lba)
    BY <1>1 DEF SignedAt
  <2>5. Within(Image)' <=> Within(Image)
    BY <1>3 DEF Within
  <2>6. AtJump
    BY DEF XldrInv
  <2> QED  BY <1>1, <1>3, <2>1, <2>3, <2>4, <2>5, <2>6 DEF AtJump
<1>16. AtWild'
  BY <1>1 DEF XldrInv, AtWild, Image, FileAt, OnItsFile
<1>17. AtSpin'
  BY <1>1 DEF XldrInv, AtSpin
<1>18. OnFile'
  BY <1>1, <1>3 DEF XldrInv, OnFile
<1> QED
  BY <1>11, <1>12, <1>13, <1>14, <1>15, <1>16, <1>17, <1>18 DEF XldrInv

(* The invariant of the boot sectors, in the second stage.                 *)
LEMMA XldrFaults == ASSUME chainFaults \in Nat, XldrStep PROVE chainFaults' \in Nat
<1>1. ChainFault \/ NoChainFault
  BY DEF XldrStep, XldrMain, FileSystemInit, FileSystemInitFails, NotSigned, SignatureFound,
    ScanFails, FileSystemRead, FileSystemReadFails, ImageHeaderRead, ImageHeaderInvalid,
    RecordHeaderRead, RecordHeaderCorrupted, LastHeaderRead, RecordBodyRead, BodySumWrong,
    Got, Reads, ReadFailsAt
<1> QED  BY <1>1 DEF ChainFault, NoChainFault

LEMMA XldrKeepsVolume ==
  ASSUME XldrStep
  PROVE  medium' = medium /\ toLoad' = toLoad /\ atLoad' = atLoad
BY DEF XldrStep, XldrMain, FileSystemInit, FileSystemInitFails, NotSigned, SignatureFound,
  ScanFails, FileSystemRead, FileSystemReadFails, ImageHeaderRead, ImageHeaderInvalid,
  RecordHeaderRead, RecordHeaderCorrupted, LastHeaderRead, RecordBodyRead, BodySumWrong, Spin

LEMMA XldrLinks ==
  ASSUME XldrStep
  PROVE  /\ link \in {"load", "xldr", "scan", "header", "record", "body"}
         /\ link = "load" => toLoad = 0
         /\ link' \in {"xldr", "scan", "header", "record", "body", "spin", "wild", "jumped"}
BY DEF XldrStep, XldrMain, FileSystemInit, FileSystemInitFails, NotSigned, SignatureFound,
  ScanFails, FileSystemRead, FileSystemReadFails, ImageHeaderRead, ImageHeaderInvalid,
  RecordHeaderRead, RecordHeaderCorrupted, LastHeaderRead, RecordBodyRead, BodySumWrong, Spin,
  InScan, Reading, Got, AsksFor

LEMMA XldrStepKeeps == ASSUME SectorInv, XldrStep PROVE SectorInv'
<1>1. chainFaults' \in Nat
  BY XldrFaults DEF SectorInv, SectorTypes
<1>2. /\ link \notin {"root", "restart", "spin"} /\ link' \notin {"root", "load", "restart"}
      /\ (link = "load" => toLoad = 0)
  BY XldrLinks
<1> QED  BY <1>1, <1>2, XldrKeepsVolume, SectorInvLater

(* The invariant of the chain.                                             *)
ChainInv == SectorInv /\ (ImagesMade(medium) => XldrInv)

LEMMA ChainInvInit == ChainInit => ChainInv
<1> SUFFICES ASSUME ChainInit PROVE ChainInv
  OBVIOUS
<1>1. SectorInv /\ link = "root"
  BY SectorInvInit DEF ChainInit, SectorInit
<1> QED
  BY <1>1
    DEF ChainInv, XldrInv, InScanning, InHeader, InRecord, InBody, AtJump, AtWild, AtSpin, OnFile

LEMMA ChainInvNext == ASSUME Made, ChainInv, [ChainNext]_chainVars PROVE ChainInv'
<1>1. medium \in Media /\ chainFaults \in Nat /\ NumbersMade(medium) /\ FilesMade(medium)
  BY DEF ChainInv, SectorInv, SectorTypes, Made
<1>2. CASE SectorStep /\ UNCHANGED xldrVars
  BY <1>2, SectorInvStep, XldrInvSectorStep DEF ChainInv
<1>3. CASE XldrStep
  <2>1. SectorInv' /\ medium' = medium
    BY <1>3, XldrStepKeeps, XldrKeepsVolume DEF ChainInv
  <2>2. ASSUME ImagesMade(medium) PROVE XldrInv'
    BY <1>1, <1>3, <2>2, XldrInvXldrStep DEF ChainInv, ImagesFound
  <2>3. ImagesMade(medium)' => ImagesMade(medium)
    BY <2>1 DEF ImagesMade, ImageAt
  <2> QED  BY <2>1, <2>2, <2>3 DEF ChainInv
<1>4. CASE UNCHANGED chainVars
  <2>1. SectorInv' /\ medium' = medium
    BY <1>4, SectorInvStays DEF ChainInv, chainVars, sectorVars
  <2>2. ASSUME ImagesMade(medium) PROVE XldrInv'
    BY <1>4, <2>2, XldrInvStays DEF ChainInv
  <2>3. ImagesMade(medium)' => ImagesMade(medium)
    BY <2>1 DEF ImagesMade, ImageAt
  <2> QED  BY <2>1, <2>2, <2>3 DEF ChainInv
<1> QED  BY <1>2, <1>3, <1>4 DEF ChainNext

(* The file of the image that is read.                                     *)
LEMMA ImageOfFile ==
  ASSUME ImagesFound, SignedAt(medium, lba)
  PROVE  \E n \in DOMAIN medium.files :
           Image = medium.files[n].image /\ Image.whole /\ ImageMade(Image)
<1>1. PICK n \in DOMAIN medium.files : FileAt(medium, lba) = medium.files[n]
  BY SourceFound DEF ImagesFound
<1>2. FileAt(medium, lba).image.whole /\ ImageMade(FileAt(medium, lba).image)
  BY FoundImage DEF ImagesFound
<1> QED  BY <1>1, <1>2 DEF Image

LEMMA ChainInvBoots == ASSUME Made, ChainInv, ImagesMade(medium) PROVE ChainBoots
<1>1. /\ SectorInv /\ XldrInv /\ ImagesFound /\ XldrSectors \in 1 .. READ_LENGTH
  BY XldrAssumption DEF ChainInv, SectorInv, SectorTypes, Made, ImagesFound
<1>2. SectorRight(XldrSectors)
  BY <1>1, BootsWhatLoads
<1>3. ASSUME link = "jumped"
      PROVE  /\ launchAt # 0
             /\ \E n \in DOMAIN medium.files :
                  LET i == medium.files[n].image
                  IN  i.whole /\ Within(i) /\ launchAt = i.start /\ InMemory(i)
  <2>1. SignedAt(medium, lba) /\ launchAt = Image.start /\ Within(Image) /\ InMemory(Image)
    BY <1>1, <1>3 DEF XldrInv, AtJump
  <2>2. PICK n \in DOMAIN medium.files :
          Image = medium.files[n].image /\ Image.whole /\ ImageMade(Image)
    BY <1>1, <2>1, ImageOfFile
  <2>3. launchAt # 0
    <3>1. Image.start \in 1 .. AddressSpace - 1
      BY <2>2 DEF ImageMade
    <3> QED  BY <2>1, <3>1, SpaceType
  <2> QED  BY <2>1, <2>2, <2>3
<1>4. ImageRight
  BY <1>3 DEF ImageRight
<1>5. ASSUME ChainEnded, ChainLoads(medium), chainFaults = 0, link # "jumped" PROVE FALSE
  <2>1. SectorLoads(medium, XldrSectors)
    BY <1>5 DEF ChainLoads
  <2>2. ~(chainFaults > 0)
    BY <1>5
  <2>3. link # "spin"
    BY <1>1, <1>5, <2>2 DEF XldrInv, AtSpin
  <2>4. link = "wild" /\ IsStage(atLoad, XldrSectors)
    BY <1>2, <1>5, <2>1, <2>2, <2>3 DEF SectorRight, ChainEnded
  <2>5. OnItsFile /\ ~Sound(Image)
    BY <1>1, <2>4 DEF XldrInv, AtWild
  <2> QED  BY <1>5, <2>5, LoadedIsSound
<1>6. ASSUME link = "wild", IsStage(atLoad, XldrSectors)
      PROVE  \E n \in DOMAIN medium.files : ~Sound(medium.files[n].image)
  <2>1. SignedAt(medium, lba) /\ ~Sound(Image)
    BY <1>1, <1>6 DEF XldrInv, AtWild
  <2> QED  BY <1>1, <2>1, ImageOfFile
<1>7. StagesWork
  BY <1>2, <1>3, <1>5, <1>6 DEF StagesWork
<1> QED  BY <1>4, <1>7 DEF ChainBoots

(* On every volume whose numbers are its drive's and the files' sectors    *)
(* their own, and whose images are as the tools make them, the chain boots *)
(* right: an image is only jumped to when all of it is in memory, and a    *)
(* volume that has what the stages need is booted unless a read fails.     *)
THEOREM ChainBootsHolds ==
  ASSUME Made
  PROVE  ChainSpec => [](ImagesMade(medium) => ChainBoots)
<1>1. ChainInit => ChainInv
  BY ChainInvInit
<1>2. ChainInv /\ [ChainNext]_chainVars => ChainInv'
  BY ChainInvNext
<1>3. ChainInv => (ImagesMade(medium) => ChainBoots)
  BY ChainInvBoots
<1> QED
  BY <1>1, <1>2, <1>3, PTL DEF ChainSpec
=============================================================================
