--------------------------- MODULE FlashLog_proof ---------------------------
(***************************************************************************)
(* Proofs about the operation log and the warning log.                     *)
(***************************************************************************)
EXTENDS FlashLog, FiniteSetTheorems, WellFoundedInduction, TLAPS

-----------------------------------------------------------------------------
(* Sectors and areas.                                                      *)

Aligned(m) == \E k \in Nat : m = k * SectorSize

(* Different multiples of the sector size are a sector apart. *)
LEMMA Multiples ==
    /\ SectorSize \in Nat \ {0}
    /\ \A j, k \in Nat : j * SectorSize \in Nat /\ (j < k => j * SectorSize + SectorSize <= k * SectorSize)
<1>1. SectorSize \in Nat \ {0}
  BY FlashLogAssumption
<1>2. ASSUME NEW j \in Nat, NEW k \in Nat, j < k
      PROVE  j * SectorSize + SectorSize <= k * SectorSize
  <2>1. PICK d \in Nat : k = j + 1 + d
    <3>1. k - j - 1 \in Nat /\ k = j + 1 + (k - j - 1)
      BY <1>2
    <3> QED BY <3>1
  <2>2. k * SectorSize = j * SectorSize + SectorSize + d * SectorSize /\ d * SectorSize \in Nat
    BY <1>1, <2>1
  <2>3. j * SectorSize \in Nat
    BY <1>1
  <2> QED BY <1>1, <2>2, <2>3
<1> QED BY <1>1, <1>2

(* The sector of an address is the one whose bounds it lies between. *)
LEMMA SectorBounds ==
    \A a \in Nat : /\ Sector(a) \in Nat
                   /\ Sector(a) * SectorSize <= a
                   /\ a < Sector(a) * SectorSize + SectorSize
<1>1. SectorSize \in Nat \ {0}
  BY FlashLogAssumption
<1> QED BY <1>1 DEF Sector

(* Sectors are in the order of their addresses. *)
LEMMA SectorOrder ==
    /\ \A a, b \in Nat : a <= b => Sector(a) <= Sector(b)
    /\ \A a \in Nat : Sector(a) < Sector(a + SectorSize)
    /\ \A a, m \in Nat : Aligned(m) => /\ a < m => Sector(a) < Sector(m)
                                       /\ a < m => Sector(a) * SectorSize + SectorSize <= m
                                       /\ a >= m => Sector(a) * SectorSize >= m
<1>1. ASSUME NEW a \in Nat, NEW b \in Nat, a <= b
      PROVE  Sector(a) <= Sector(b)
  <2> SUFFICES ASSUME Sector(b) < Sector(a) PROVE FALSE
    BY SectorBounds
  <2>1. Sector(b) * SectorSize + SectorSize <= Sector(a) * SectorSize
    BY Multiples, SectorBounds
  <2> QED BY <1>1, <2>1, Multiples, SectorBounds
<1>2. ASSUME NEW a \in Nat
      PROVE  Sector(a) < Sector(a + SectorSize)
  <2>1. a + SectorSize \in Nat
    BY Multiples
  <2> SUFFICES ASSUME Sector(a + SectorSize) <= Sector(a) PROVE FALSE
    BY <2>1, SectorBounds
  <2>2. Sector(a + SectorSize) * SectorSize <= Sector(a) * SectorSize
    BY <2>1, Multiples, SectorBounds
  <2> QED BY <2>1, <2>2, Multiples, SectorBounds
<1>3. ASSUME NEW a \in Nat, NEW m \in Nat, Aligned(m)
      PROVE  /\ a < m => Sector(a) < Sector(m)
             /\ a < m => Sector(a) * SectorSize + SectorSize <= m
             /\ a >= m => Sector(a) * SectorSize >= m
  <2>1. PICK k \in Nat : m = k * SectorSize
    BY <1>3 DEF Aligned
  <2>2. Sector(m) = k
    <3>1. ~(k < Sector(m)) /\ ~(Sector(m) < k)
      BY <2>1, Multiples, SectorBounds
    <3> QED BY <3>1, SectorBounds
  <2>3. a < m => Sector(a) < k
    <3> SUFFICES ASSUME a < m, k <= Sector(a) PROVE FALSE
      BY SectorBounds
    <3>1. Sector(a) \in Nat /\ (k = Sector(a) \/ k < Sector(a))
      BY SectorBounds
    <3>2. k * SectorSize <= Sector(a) * SectorSize
      BY <3>1, Multiples
    <3> QED BY <2>1, <3>2, Multiples, SectorBounds
  <2>4. a >= m => k <= Sector(a)
    BY <1>1, <2>2
  <2>5. k <= Sector(a) => Sector(a) * SectorSize >= m
    <3>1. Sector(a) \in Nat /\ (k <= Sector(a) => k = Sector(a) \/ k < Sector(a))
      BY SectorBounds
    <3> QED BY <2>1, <3>1, Multiples
  <2>6. Sector(a) < k => Sector(a) * SectorSize + SectorSize <= m
    BY <2>1, Multiples, SectorBounds
  <2> QED BY <2>2, <2>3, <2>4, <2>5, <2>6
<1> QED BY <1>1, <1>2, <1>3

(* The areas follow one another; each begins at a sector. *)
LEMMA Areas ==
    /\ \A l \in Logs :
         /\ InfoBegin(l) \in Nat /\ InfoEnd(l) \in Nat /\ DataBegin(l) \in Nat /\ DataEnd(l) \in Nat
         /\ Aligned(InfoBegin(l)) /\ Aligned(InfoEnd(l)) /\ Aligned(DataEnd(l))
         /\ InfoBegin(l) + SectorSize <= InfoEnd(l)
         /\ DataBegin(l) = InfoEnd(l)
         /\ DataBegin(l) + SectorSize <= DataEnd(l)
         /\ DataEnd(l) <= DataEnd("warn")
    /\ InfoBegin("warn") = DataEnd("opt")
<1>1. SectorSize \in Nat \ {0} /\ InfoSectors \in Nat \ {0} /\ DataSectors \in Nat \ {0}
  BY FlashLogAssumption
<1>2. ASSUME NEW l \in Logs
      PROVE  \E k \in Nat : /\ InfoBegin(l) = k * SectorSize
                            /\ InfoEnd(l) = (k + InfoSectors) * SectorSize
                            /\ DataEnd(l) = (k + InfoSectors + DataSectors) * SectorSize
  <2>1. CASE l = "opt"
    BY <1>1, <2>1 DEF InfoBegin, InfoEnd, DataEnd, DataBegin, LogBegin
  <2>2. CASE l = "warn"
    <3>1. /\ InfoBegin(l) = (InfoSectors + DataSectors) * SectorSize
          /\ InfoEnd(l) = (InfoSectors + DataSectors) * SectorSize + InfoSectors * SectorSize
          /\ DataEnd(l) = (InfoSectors + DataSectors) * SectorSize + InfoSectors * SectorSize
                             + DataSectors * SectorSize
      BY <1>1, <2>2 DEF InfoBegin, InfoEnd, DataEnd, DataBegin, LogBegin
    <3>2. InfoSectors + DataSectors \in Nat
      BY <1>1
    <3> QED BY <1>1, <3>1, <3>2
  <2> QED BY <2>1, <2>2 DEF Logs
<1>3. ASSUME NEW l \in Logs
      PROVE  /\ InfoBegin(l) \in Nat /\ InfoEnd(l) \in Nat /\ DataEnd(l) \in Nat
             /\ Aligned(InfoBegin(l)) /\ Aligned(InfoEnd(l)) /\ Aligned(DataEnd(l))
             /\ InfoBegin(l) + SectorSize <= InfoEnd(l)
             /\ InfoEnd(l) + SectorSize <= DataEnd(l)
  <2>1. PICK k \in Nat : /\ InfoBegin(l) = k * SectorSize
                         /\ InfoEnd(l) = (k + InfoSectors) * SectorSize
                         /\ DataEnd(l) = (k + InfoSectors + DataSectors) * SectorSize
    BY <1>2
  <2>2. k + InfoSectors \in Nat /\ k + InfoSectors + DataSectors \in Nat
        /\ k < k + InfoSectors /\ k + InfoSectors < k + InfoSectors + DataSectors
    BY <1>1
  <2> QED BY <2>1, <2>2, Multiples DEF Aligned
<1>4. InfoBegin("warn") = DataEnd("opt")
  BY <1>1 DEF InfoBegin, InfoEnd, DataEnd, DataBegin, LogBegin
<1>5. \A l \in Logs : DataEnd(l) <= DataEnd("warn")
  BY <1>1, <1>3, <1>4 DEF Logs
<1>6. \A l \in Logs : DataBegin(l) = InfoEnd(l)
  BY DEF DataBegin
<1> QED BY <1>3, <1>4, <1>5, <1>6

-----------------------------------------------------------------------------
(* The operators.                                                          *)

(* A set of natural numbers that is not empty has a lowest member: all the *)
(* inductions below are of this form.                                      *)
LEMMA LeastIn ==
    ASSUME NEW S, S \subseteq Nat, S # {}
    PROVE  \E x \in S : \A y \in S : x <= y
<1>1. PICK x \in S : \A y \in S : ~ (<<y, x>> \in OpToRel(<, Nat))
  <2>1. IsWellFoundedOn(OpToRel(<, Nat), Nat)
    BY NatLessThanWellFounded
  <2> QED BY <2>1, WFMin, Zenon
<1>2. \A y \in S : ~ (y < x)
  BY <1>1, Zenon DEF OpToRel
<1> QED BY <1>2

(* No bit is set that was not. *)
LEMMA BothBitsLess ==
    ASSUME NEW m \in Nat, NEW n
    PROVE  BothBits(m, n) \in 0..m
<1> DEFINE K == {k \in 0..m : Bits(k) \subseteq Bits(m) \cap Bits(n)}
           J == {j \in 0..m : m - j \in K}
<1>1. Bits(0) = {}
  BY DEF Bits
<1>2. m \in J /\ J \subseteq Nat
  BY <1>1
<1>3. PICK j \in J : \A i \in J : j <= i
  <2> HIDE DEF J
  <2> QED BY <1>2, LeastIn
<1>4. m - j \in K /\ \A k \in K : m - j >= k
  <2>1. \A k \in K : m - k \in J
    OBVIOUS
  <2> QED BY <1>3, <2>1
<1>5. Max(K) \in K
  <2> HIDE DEF K
  <2> QED BY <1>4 DEF Max
<1> QED BY <1>5 DEF BothBits

-----------------------------------------------------------------------------
(* Types.                                                                  *)

Kinds == {"torn", "headless", "body", "info", "log"}

(* A cell, and what OptLogInfo holds, when t records are counted. *)
CellType(t) == [k : Kinds, total : 0..t, n : Nat, c : Nat, addr : Addresses,
                size : 0..SectorSize, len : Nat]

InfoType(t) == [total : 0..t, n : Nat, addr : Addresses, size : 0..SectorSize, sys : Addresses]

FlashType(f, t) == DOMAIN f \subseteq Addresses /\ \A a \in DOMAIN f : f[a] \in CellType(t)

SaveType == [pc : {"idle", "ahead", "probe", "write", "addr", "size", "total", "slotahead",
                   "slot", "slot2", "post"},
             l : Logs, size : 0..SectorSize, addr : Addresses, n : Nat, c : Nat,
             slot : Addresses, ok : BOOLEAN]

BootType == [pc : {"off", "scan", "erase", "write", "on"}, l : Logs, try : 0..1]

(* Addresses reach two sectors beyond the last data area. *)
LEMMA AddressFacts ==
    /\ DataEnd("warn") \in Nat
    /\ \A a : a \in Addresses <=> a \in Nat /\ a < DataEnd("warn") + 2 * SectorSize
    /\ \A a \in Addresses : Sector(a) \in Nat
    /\ \A l \in Logs, a \in Nat : a < DataEnd(l) + 2 * SectorSize => a \in Addresses
<1>1. DataEnd("warn") \in Nat /\ SectorSize \in Nat \ {0}
  BY Areas, Multiples DEF Logs
<1>2. \A a : a \in Addresses <=> a \in Nat /\ a < DataEnd("warn") + 2 * SectorSize
  BY <1>1 DEF Addresses
<1> QED BY <1>1, <1>2, SectorBounds, Areas

(* A cell that carries nothing but its kind has the type of a cell. *)
LEMMA CellTyped ==
    ASSUME NEW t \in Nat, NEW k \in Kinds
    PROVE  Cell(k) \in CellType(t)
<1>1. 0 \in Addresses /\ 0 \in 0..SectorSize /\ 0 \in 0..t /\ 0 \in Nat
  BY AddressFacts, Multiples
<1> QED BY <1>1, Zenon DEF Cell, CellType

(* What was erased is gone, the rest is as it was. *)
LEMMA ErasedTyped ==
    ASSUME NEW f, NEW t \in Nat, FlashType(f, t), NEW a
    PROVE  FlashType(Erased(f, a), t)
BY DEF FlashType, Erased, Restrict

(* A write into blank cells of the flash leaves a flash. *)
LEMMA FilledTyped ==
    ASSUME NEW f, NEW t \in Nat, FlashType(f, t), NEW a \in Nat, NEW n \in Nat,
           Span(a, n) \subseteq Addresses, NEW first \in CellType(t)
    PROVE  FlashType(Filled(f, a, n, first), t)
<1>1. Cell("body") \in CellType(t)
  BY CellTyped DEF Kinds
<1> DEFINE g == Filled(f, a, n, first)
<1>2. DOMAIN g = DOMAIN f \cup Span(a, n)
  BY DEF Filled
<1>3. ASSUME NEW x \in DOMAIN g PROVE g[x] \in CellType(t)
  <2>1. CASE x = a
    <3>1. x \notin Span(a + 1, n - 1)
      BY <2>1 DEF Span
    <3> QED BY <2>1, <3>1, <1>2 DEF Filled
  <2>2. CASE x # a /\ x \in Span(a + 1, n - 1)
    BY <2>2, <1>1, <1>2 DEF Filled
  <2>3. CASE x # a /\ x \notin Span(a + 1, n - 1) /\ x \in DOMAIN f
    BY <2>3, <1>2 DEF Filled, FlashType
  <2>4. CASE x # a /\ x \notin Span(a + 1, n - 1) /\ x \in Span(a, n)
    BY <2>4 DEF Span
  <2> QED BY <2>1, <2>2, <2>3, <2>4, <1>2
<1> QED BY <1>2, <1>3 DEF FlashType

(* An operation cut short leaves a flash. *)
LEMMA SpoiltTyped ==
    ASSUME NEW f, NEW t \in Nat, FlashType(f, t), NEW a, NEW n, Span(a, n) \subseteq Addresses,
           NEW k \in Kinds
    PROVE  FlashType(Spoilt(f, a, n, k), t)
<1>1. Cell(k) \in CellType(t)
  BY CellTyped
<1> QED BY <1>1 DEF FlashType, Spoilt

(* A write over what is there leaves a flash: it only clears bits. *)
LEMMA OverwrittenTyped ==
    ASSUME NEW f, NEW t \in Nat, FlashType(f, t), NEW a, NEW n, Span(a, n) \subseteq Addresses,
           NEW first \in CellType(t)
    PROVE  FlashType(Overwritten(f, a, n, first), t)
<1>1. CASE n = 1 /\ Kind(f, a) = "info" /\ first.k = "info"
  <2>1. a \in DOMAIN f
    BY <1>1 DEF Kind
  <2> DEFINE c == f[a]
             d == [c EXCEPT !.total = BothBits(@, first.total), !.n = BothBits(@, first.n),
                            !.addr = BothBits(@, first.addr), !.size = BothBits(@, first.size)]
  <2>2. c \in CellType(t)
    BY <2>1 DEF FlashType
  <2>3. /\ c.total \in 0..t /\ c.n \in Nat /\ c.addr \in Addresses /\ c.size \in 0..SectorSize
        /\ c.total \in Nat /\ c.addr \in Nat /\ c.size \in Nat
    BY <2>2, AddressFacts, Multiples DEF CellType
  <2>4. /\ BothBits(c.total, first.total) \in 0..c.total
        /\ BothBits(c.n, first.n) \in 0..c.n
        /\ BothBits(c.addr, first.addr) \in 0..c.addr
        /\ BothBits(c.size, first.size) \in 0..c.size
    BY <2>3, BothBitsLess
  <2>5. /\ BothBits(c.total, first.total) \in 0..t
        /\ BothBits(c.n, first.n) \in Nat
        /\ BothBits(c.addr, first.addr) \in Addresses
        /\ BothBits(c.size, first.size) \in 0..SectorSize
    BY <2>3, <2>4, AddressFacts, Multiples
  <2>6. d \in CellType(t)
    BY <2>2, <2>5, Zenon DEF CellType
  <2>7. Overwritten(f, a, n, first) = [f EXCEPT ![a] = d]
    BY <1>1, <2>1 DEF Overwritten
  <2> HIDE DEF d, c
  <2> QED BY <2>1, <2>6, <2>7 DEF FlashType
<1>2. CASE ~(n = 1 /\ Kind(f, a) = "info" /\ first.k = "info")
  <2>1. Overwritten(f, a, n, first) = Spoilt(f, a, n, "torn")
    BY <1>2 DEF Overwritten
  <2> QED BY <2>1, SpoiltTyped DEF Kinds
<1> QED BY <1>1, <1>2

(* More records may be counted. *)
LEMMA TypeGrows ==
    ASSUME NEW t \in Nat, NEW u \in Nat, t <= u
    PROVE  /\ \A f : FlashType(f, t) => FlashType(f, u)
           /\ InfoType(t) \subseteq InfoType(u)
<1>1. 0..t \subseteq 0..u
  OBVIOUS
<1>2. CellType(t) \subseteq CellType(u)
  BY <1>1, Zenon DEF CellType
<1>3. InfoType(t) \subseteq InfoType(u)
  BY <1>1, Zenon DEF InfoType
<1> QED BY <1>2, <1>3 DEF FlashType

(* A write leaves a flash of cells, whatever its result. *)
LEMMA WriteTyped ==
    ASSUME NEW t \in Nat, FlashType(flash, t), NEW a \in Nat, NEW n \in Nat, NEW area, NEW ok,
           Span(a, n) \subseteq Addresses, NEW first \in CellType(t),
           WriteDataBuff(area, a, n, first, ok)
    PROVE  FlashType(flash', t)
<1>1. CASE flash' = Filled(flash, a, n, first)
  BY <1>1, FilledTyped
<1>2. CASE flash' = Spoilt(flash, a, n, "torn")
  BY <1>2, SpoiltTyped DEF Kinds
<1>3. CASE flash' = Overwritten(flash, a, n, first)
  BY <1>3, OverwrittenTyped
<1> QED BY <1>1, <1>2, <1>3 DEF WriteDataBuff

(* The slot that holds OptLogInfo has the type of a cell. *)
LEMMA InfoSlotTyped ==
    ASSUME NEW t \in Nat, NEW i \in InfoType(t)
    PROVE  InfoSlot(i) \in CellType(t)
<1>1. i.total \in 0..t /\ i.n \in Nat /\ i.addr \in Addresses /\ i.size \in 0..SectorSize
  BY DEF InfoType
<1>2. Cell("info") \in CellType(t)
  BY CellTyped DEF Kinds
<1> QED BY <1>1, <1>2, Zenon DEF InfoSlot, CellType

(* The record of a save has the type of a cell. *)
LEMMA RecordTyped ==
    ASSUME NEW t \in Nat, NEW i \in InfoType(t), NEW s \in SaveType
    PROVE  Record(s, i) \in CellType(t)
<1>1. i.addr \in Addresses /\ i.size \in 0..SectorSize /\ s.n \in Nat /\ s.c \in Nat /\ s.size \in Nat
  BY Multiples DEF InfoType, SaveType
<1>2. Cell("log") \in CellType(t)
  BY CellTyped DEF Kinds
<1> QED BY <1>1, <1>2, Zenon DEF Record, CellType

-----------------------------------------------------------------------------
(* The scan.                                                               *)

(* The slots in use are the first of the area. *)
LEMMA GoodSlotsCount ==
    ASSUME NEW f, NEW l \in Logs
    PROVE  /\ GoodSlots(f, l) \in Nat
           /\ GoodSlots(f, l) <= InfoEnd(l) - InfoBegin(l)
           /\ \A x \in InfoBegin(l) .. InfoBegin(l) + GoodSlots(f, l) - 1 : Kind(f, x) = "info"
           /\ InfoBegin(l) + GoodSlots(f, l) < InfoEnd(l)
                => Kind(f, InfoBegin(l) + GoodSlots(f, l)) # "info"
<1> DEFINE b == InfoBegin(l)
           e == InfoEnd(l)
           good == {a \in b .. e - 1 : \A x \in b..a : Kind(f, x) = "info"}
           S == {y \in b..e : y = e \/ Kind(f, y) # "info"}
<1>1. b \in Nat /\ e \in Nat /\ b < e
  BY Areas, Multiples
<1>2. PICK y \in S : \A z \in S : y <= z
  <2>1. S \subseteq Nat /\ S # {}
    BY <1>1
  <2> HIDE DEF S
  <2> QED BY <2>1, LeastIn
<1>3. good = b .. y - 1
  BY <1>1, <1>2
<1>4. Cardinality(good) = y - b
  <2>1. b \in Int /\ y - 1 \in Int /\ y \in Nat /\ b <= y
    BY <1>1, <1>2
  <2> HIDE DEF b, e, S, good
  <2>2. Cardinality(b .. y - 1) = IF b > y - 1 THEN 0 ELSE (y - 1) - b + 1
    BY <2>1, FS_Interval
  <2> QED BY <1>3, <2>1, <2>2
<1>5. GoodSlots(f, l) = y - b
  BY <1>4 DEF GoodSlots
<1>6. \A x \in b .. y - 1 : Kind(f, x) = "info"
  BY <1>1, <1>2
<1> QED BY <1>1, <1>2, <1>5, <1>6

(* A scan of any flash finds information inside the areas. *)
LEMMA FoundTyped ==
    ASSUME NEW f, NEW t \in Nat, FlashType(f, t), NEW l \in Logs
    PROVE  Found(f, l) \in InfoType(t) /\ Found(f, l).sys < InfoEnd(l)
<1>1. InfoBegin(l) \in Nat /\ InfoEnd(l) \in Nat /\ InfoBegin(l) < InfoEnd(l) /\ DataBegin(l) = InfoEnd(l)
      /\ InfoEnd(l) < DataEnd(l) /\ DataEnd(l) \in Nat
  BY Areas, Multiples
<1>2. CASE GoodSlots(f, l) = 0
  <2>1. /\ DataBegin(l) \in Addresses /\ InfoBegin(l) \in Addresses
        /\ 0 \in 0..t /\ 1 \in Nat /\ 0 \in 0..SectorSize
    BY <1>1, AddressFacts, Multiples
  <2> QED BY <1>1, <1>2, <2>1 DEF Found, InfoType
<1>3. CASE GoodSlots(f, l) # 0
  <2> DEFINE a == InfoBegin(l) + GoodSlots(f, l) - 1
  <2>1. a \in Nat /\ a < InfoEnd(l) /\ Kind(f, a) = "info"
    BY <1>1, <1>3, GoodSlotsCount
  <2>2. a \in DOMAIN f /\ a \in Addresses
    BY <1>1, <2>1, AddressFacts, Multiples DEF Kind
  <2>3. f[a] \in CellType(t)
    BY <2>2 DEF FlashType
  <2>4. Found(f, l) = [total |-> f[a].total, n |-> f[a].n, addr |-> f[a].addr, size |-> f[a].size, sys |-> a]
    BY <1>3 DEF Found
  <2> HIDE DEF a
  <2> QED BY <2>1, <2>2, <2>3, <2>4 DEF CellType, InfoType
<1> QED BY <1>2, <1>3

-----------------------------------------------------------------------------
(* Type correctness.                                                       *)

(* Until the number of records is raised the save under way does not count. *)
Early == {"ahead", "probe", "write", "addr", "size", "total"}

Counted == IF save.pc \in Early THEN begun - 1 ELSE begun

(* The record of a save under way fits behind where the last one ended, in *)
(* the area or, moved on by the probe, in the two sectors behind it.       *)
SavePlace ==
    /\ save.pc \in {"ahead", "probe"} => save.addr < DataEnd(save.l)
    /\ save.addr < DataEnd(save.l) + SectorSize
    /\ save.pc \in {"slotahead", "slot"} => save.slot < InfoEnd(save.l)
    /\ save.slot <= InfoEnd(save.l)
    /\ save.pc # "idle" => save.c \in 1..begun

TypeInv ==
    /\ begun \in 0..MaxSaves
    /\ Counted \in Nat
    /\ FlashType(flash, Counted)
    /\ info \in [Logs -> InfoType(Counted)]
    /\ save \in SaveType
    /\ boot \in BootType
    /\ comm_stat \in 0..1
    /\ Log_Err_cnt \in 0..1
    /\ acked \in [Logs -> SUBSET Codes]
    /\ SavePlace

(* The bounds of the areas, in one place. *)
LEMMA AreaBounds ==
    ASSUME NEW l \in Logs
    PROVE  /\ InfoBegin(l) \in Nat /\ InfoEnd(l) \in Nat /\ DataEnd(l) \in Nat /\ DataBegin(l) = InfoEnd(l)
           /\ SectorSize \in Nat /\ SectorSize > 0
           /\ InfoBegin(l) + SectorSize <= InfoEnd(l)
           /\ InfoEnd(l) + SectorSize <= DataEnd(l)
           /\ DataEnd(l) + 2 * SectorSize <= DataEnd("warn") + 2 * SectorSize
           /\ \A a \in Nat : a < DataEnd(l) + 2 * SectorSize => a \in Addresses
           /\ Addresses \subseteq Nat
BY Areas, Multiples, AddressFacts

(* The information before the scan is well typed. *)
LEMMA NoInfoTyped ==
    ASSUME NEW t \in Nat
    PROVE  [l \in Logs |-> NoInfo] \in [Logs -> InfoType(t)]
<1>1. 0 \in 0..t /\ 0 \in Nat /\ 0 \in Addresses /\ 0 \in 0..SectorSize
  BY AreaBounds DEF Logs
<1>2. NoInfo \in InfoType(t)
  BY <1>1 DEF NoInfo, InfoType
<1> QED BY <1>2

(* The record of no save is well typed. *)
LEMMA NoSaveTyped ==
    NoSave \in SaveType /\ NoSave.pc = "idle" /\ NoSave.addr = 0 /\ NoSave.slot = 0 /\ NoSave.l \in Logs
<1>1. 0 \in Nat /\ 0 \in Addresses /\ 0 \in 0..SectorSize /\ "opt" \in Logs /\ FALSE \in BOOLEAN
  BY AreaBounds DEF Logs
<1> QED BY <1>1 DEF NoSave, SaveType

(* The first power up is well typed. *)
LEMMA TypeInit == Init => TypeInv
<1> SUFFICES ASSUME Init PROVE TypeInv
  OBVIOUS
<1>1. begun \in 0..MaxSaves /\ comm_stat \in 0..1 /\ Log_Err_cnt \in 0..1 /\ begun = 0
  BY FlashLogAssumption DEF Init
<1>2. save = NoSave
  BY DEF Init
<1>3. Counted = 0
  BY <1>1, <1>2, NoSaveTyped DEF Counted, Early
<1>4. DOMAIN flash = {}
  BY DEF Init
<1>5. FlashType(flash, Counted)
  BY <1>4 DEF FlashType
<1>6. info \in [Logs -> InfoType(Counted)]
  BY <1>3, NoInfoTyped DEF Init
<1>7. SavePlace
  <2>1. save.l \in Logs
    BY <1>2, NoSaveTyped
  <2> QED BY <1>2, <2>1, NoSaveTyped, AreaBounds DEF SavePlace
<1>8. boot \in BootType /\ acked \in [Logs -> SUBSET Codes]
  BY DEF Init, BootType, Logs
<1> QED BY <1>1, <1>2, <1>3, <1>5, <1>6, <1>7, <1>8, NoSaveTyped DEF TypeInv

(* What a save under way knows of its place. *)
LEMMA SavePlaceFacts ==
    ASSUME TypeInv
    PROVE  /\ save.l \in Logs /\ save.addr \in Nat /\ save.size \in 0..SectorSize /\ save.slot \in Nat
           /\ save.addr + save.size \in Addresses
           /\ \A n \in 0..SectorSize : Span(save.addr, n) \subseteq Addresses
           /\ Span(save.slot, 1) \subseteq Addresses
<1>1. /\ save.l \in Logs /\ save.addr \in Nat /\ save.size \in 0..SectorSize /\ save.slot \in Nat
  BY AreaBounds DEF TypeInv, SaveType
<1>2. save.addr < DataEnd(save.l) + SectorSize /\ save.slot <= InfoEnd(save.l)
  BY DEF TypeInv, SavePlace
<1> QED BY <1>1, <1>2, AreaBounds DEF Span

(* A sector that an interrupted erasure leaves torn lies in the flash. *)
LEMMA SectorTyped ==
    ASSUME NEW l \in Logs, NEW a \in Nat, a < DataEnd(l) + SectorSize
    PROVE  Span(Sector(a) * SectorSize, SectorSize) \subseteq Addresses
<1>1. Sector(a) * SectorSize \in Nat /\ Sector(a) * SectorSize <= a
  BY SectorBounds, Multiples
<1> QED BY <1>1, AreaBounds DEF Span

(* What a power failure leaves of the operation under way is a flash. *)
LEMMA InterruptedTyped ==
    ASSUME TypeInv, NEW f \in Interrupted
    PROVE  FlashType(f, Counted)
<1>0. Counted \in Nat /\ FlashType(flash, Counted)
  BY DEF TypeInv
<1> DEFINE erase == CASE boot.pc = "erase" -> {InfoBegin(boot.l)}
                   [] At("ahead") /\ Sector(save.addr + save.size) # Sector(save.addr) ->
                        {save.addr + save.size}
                   [] At("probe") /\ ~AllBlank(flash, save.addr, save.size) ->
                        {save.addr + SectorSize}
                   [] At("slotahead") /\ Sector(save.slot + 1) # Sector(save.slot) ->
                        {save.slot + 1}
                   [] OTHER -> {}
           slot == CASE boot.pc = "write" -> {InfoBegin(boot.l)}
                  [] save.pc \in {"slot", "slot2"} -> {save.slot}
                  [] OTHER -> {}
<1>1. boot.l \in Logs
  BY DEF TypeInv, BootType
<1>2. ASSUME NEW a \in erase
      PROVE  Span(Sector(a) * SectorSize, SectorSize) \subseteq Addresses
  <2>1. CASE boot.pc = "erase"
    <3>1. a = InfoBegin(boot.l)
      BY <2>1 DEF At, On
    <3> QED BY <1>1, <3>1, SectorTyped, AreaBounds
  <2>2. CASE boot.pc # "erase" /\ save.pc = "ahead"
    <3>1. a = save.addr + save.size
      BY <2>2 DEF At
    <3>2. a \in Nat /\ a < DataEnd(save.l) + SectorSize
      BY <2>2, <3>1, SavePlaceFacts, AreaBounds DEF TypeInv, SavePlace
    <3> QED BY <3>2, SectorTyped, SavePlaceFacts
  <2>3. CASE boot.pc # "erase" /\ save.pc = "probe"
    <3>1. a = save.addr + SectorSize
      BY <2>3 DEF At
    <3>2. a \in Nat /\ a < DataEnd(save.l) + SectorSize
      BY <2>3, <3>1, SavePlaceFacts, AreaBounds DEF TypeInv, SavePlace
    <3> QED BY <3>2, SectorTyped, SavePlaceFacts
  <2>4. CASE boot.pc # "erase" /\ save.pc = "slotahead"
    <3>1. a = save.slot + 1
      BY <2>4 DEF At
    <3>2. a \in Nat /\ a < DataEnd(save.l) + SectorSize
      BY <2>4, <3>1, SavePlaceFacts, AreaBounds DEF TypeInv, SavePlace
    <3> QED BY <3>2, SectorTyped, SavePlaceFacts
  <2>5. CASE boot.pc # "erase" /\ save.pc \notin {"ahead", "probe", "slotahead"}
    BY <2>5 DEF At
  <2> QED BY <2>1, <2>2, <2>3, <2>4, <2>5
<1>3. ASSUME NEW a \in slot
      PROVE  Span(a, 1) \subseteq Addresses
  <2>1. CASE boot.pc = "write"
    <3>1. a = InfoBegin(boot.l) \/ a = save.slot
      BY <2>1
    <3>2. CASE a = InfoBegin(boot.l)
      BY <1>1, <3>2, AreaBounds DEF Span
    <3> QED BY <3>1, <3>2, SavePlaceFacts
  <2>2. CASE boot.pc # "write"
    <3>1. a = save.slot
      BY <2>2
    <3> QED BY <3>1, SavePlaceFacts
  <2> QED BY <2>1, <2>2
<1>4. \/ f = flash
      \/ \E a \in erase : f = Erased(flash, a)
      \/ \E a \in erase : f = Spoilt(flash, Sector(a) * SectorSize, SectorSize, "torn")
      \/ \E a \in slot, k \in TornSlots : f = Spoilt(flash, a, 1, k)
      \/ \E n \in 1..save.size : f = Spoilt(flash, save.addr, n, "torn")
  BY DEF Interrupted
<1> HIDE DEF erase, slot
<1>5. CASE \E a \in erase : f = Erased(flash, a)
  BY <1>0, <1>5, ErasedTyped
<1>6. CASE \E a \in erase : f = Spoilt(flash, Sector(a) * SectorSize, SectorSize, "torn")
  BY <1>0, <1>2, <1>6, SpoiltTyped DEF Kinds
<1>7. CASE \E a \in slot, k \in TornSlots : f = Spoilt(flash, a, 1, k)
  <2>1. TornSlots \subseteq Kinds
    BY FlashLogAssumption DEF Kinds
  <2> QED BY <1>0, <1>3, <1>7, <2>1, SpoiltTyped
<1>8. CASE \E n \in 1..save.size : f = Spoilt(flash, save.addr, n, "torn")
  <2>1. PICK n \in 1..save.size : f = Spoilt(flash, save.addr, n, "torn")
    BY <1>8
  <2>2. n \in 0..SectorSize
    BY SavePlaceFacts, AreaBounds
  <2> QED BY <1>0, <2>1, <2>2, SavePlaceFacts, SpoiltTyped DEF Kinds
<1> QED BY <1>0, <1>4, <1>5, <1>6, <1>7, <1>8

(* The MCU may be reset in any state. *)
LEMMA StoppedTyped ==
    ASSUME TypeInv, Stopped, FlashType(flash', Counted), begun' = begun,
           acked' \in [Logs -> SUBSET Codes]
    PROVE  TypeInv'
<1>1. begun \in 0..MaxSaves /\ begun \in Nat /\ Counted \in Nat /\ Counted <= begun
  BY FlashLogAssumption DEF TypeInv, Counted
<1>2. save' = NoSave /\ boot' \in BootType /\ comm_stat' \in 0..1 /\ Log_Err_cnt' \in 0..1
  BY DEF Stopped, BootType, Logs
<1>3. Counted' = begun
  BY <1>2, NoSaveTyped DEF Counted, Early
<1>4. FlashType(flash', begun)
  BY <1>1, TypeGrows
<1>5. info' \in [Logs -> InfoType(begun)]
  BY <1>1, NoInfoTyped DEF Stopped
<1>6. SavePlace'
  BY <1>2, NoSaveTyped, AreaBounds DEF SavePlace
<1> QED BY <1>1, <1>2, <1>3, <1>4, <1>5, <1>6, NoSaveTyped DEF TypeInv

(* A step of the program's start leaves the save alone. *)
LEMMA BootTyped ==
    ASSUME TypeInv, UNCHANGED <<save, begun, acked, Log_Err_cnt>>, FlashType(flash', Counted),
           info' \in [Logs -> InfoType(Counted)], boot' \in BootType, comm_stat' \in 0..1
    PROVE  TypeInv'
<1>1. Counted' = Counted /\ SavePlace' = SavePlace
  BY DEF Counted, SavePlace
<1> QED BY <1>1 DEF TypeInv

(* The steps of APP_LOG_Init keep the types. *)
LEMMA BootStepTyped == ASSUME TypeInv, BootStep PROVE TypeInv'
<1>0. /\ Counted \in Nat /\ FlashType(flash, Counted) /\ info \in [Logs -> InfoType(Counted)]
      /\ boot \in BootType /\ boot.l \in Logs /\ boot.try \in 0..1 /\ comm_stat \in 0..1
  BY DEF TypeInv, BootType
<1>1. BootNext(boot) \in BootType
  BY DEF BootNext, BootType, Logs
<1>2. CASE PowerUp
  <2>1. boot' \in BootType
    BY <1>2 DEF PowerUp, BootType, Logs
  <2> QED BY <1>0, <1>2, <2>1, BootTyped DEF PowerUp
<1>3. CASE Scan
  <2>1. boot' \in BootType
    <3>1. [boot EXCEPT !.pc = "erase"] \in BootType
      BY <1>0 DEF BootType
    <3> QED BY <1>1, <1>3, <3>1 DEF Scan
  <2>2. info' \in [Logs -> InfoType(Counted)]
    BY <1>0, <1>3, FoundTyped DEF Scan
  <2> QED BY <1>0, <1>3, <2>1, <2>2, BootTyped DEF Scan
<1>4. CASE RepairErase
  <2>1. boot' \in BootType
    BY <1>0, <1>4 DEF RepairErase, BootType
  <2>2. FlashType(flash', Counted)
    BY <1>0, <1>4, ErasedTyped DEF RepairErase
  <2> QED BY <1>0, <1>4, <2>1, <2>2, BootTyped DEF RepairErase
<1>5. CASE RepairWrite
  <2>1. PICK ok \in BOOLEAN :
         /\ WriteDataBuff("info", RepairSlot(boot.l), 1, InfoSlot(info[boot.l]), ok)
         /\ boot' = IF ok THEN [pc |-> "off", l |-> "opt", try |-> 0]
                    ELSE IF boot.try = 0 THEN [boot EXCEPT !.pc = "erase", !.try = 1]
                    ELSE BootNext(boot)
         /\ comm_stat' = IF ok THEN 0 ELSE IF boot.try = 1 THEN 1 ELSE comm_stat
         /\ info' = IF ok THEN [l \in Logs |-> NoInfo] ELSE info
    BY <1>5 DEF RepairWrite
  <2>2. boot' \in BootType
    <3>1. [boot EXCEPT !.pc = "erase", !.try = 1] \in BootType
      <4>1. 1 \in 0..1 /\ "erase" \in {"off", "scan", "erase", "write", "on"}
        OBVIOUS
      <4> QED BY <1>0, <4>1, Zenon DEF BootType
    <3>2. [pc |-> "off", l |-> "opt", try |-> 0] \in BootType
      BY DEF BootType, Logs
    <3> QED BY <1>1, <2>1, <3>1, <3>2
  <2>3. FlashType(flash', Counted)
    <3>1. InfoSlot(info[boot.l]) \in CellType(Counted)
      BY <1>0, InfoSlotTyped
    <3>2. Span(RepairSlot(boot.l), 1) \subseteq Addresses /\ RepairSlot(boot.l) \in Nat
      BY <1>0, AreaBounds DEF Span, RepairSlot
    <3> QED BY <1>0, <2>1, <3>1, <3>2, WriteTyped
  <2>4. info' \in [Logs -> InfoType(Counted)] /\ comm_stat' \in 0..1
    BY <1>0, <2>1, NoInfoTyped
  <2> QED BY <1>0, <1>5, <2>2, <2>3, <2>4, BootTyped DEF RepairWrite
<1> QED BY <1>2, <1>3, <1>4, <1>5 DEF BootStep

(* A step of the save that holds Log_Sem. *)
LEMMA SaveTyped ==
    ASSUME TypeInv, UNCHANGED <<begun, boot, comm_stat, Log_Err_cnt, acked>>,
           Counted' \in Nat, Counted <= Counted', FlashType(flash', Counted),
           info' \in [Logs -> InfoType(Counted')], save' \in SaveType, SavePlace'
    PROVE  TypeInv'
<1>1. Counted \in Nat
  BY DEF TypeInv
<1>2. FlashType(flash', Counted')
  BY <1>1, TypeGrows
<1> QED BY <1>2 DEF TypeInv

(* The steps of Save2Flash and its wrapper keep the types. *)
LEMMA SaveStepTyped == ASSUME TypeInv, SaveStep PROVE TypeInv'
<1>0. /\ Counted \in Nat /\ FlashType(flash, Counted) /\ info \in [Logs -> InfoType(Counted)]
      /\ save \in SaveType /\ begun \in Nat /\ save.addr \in Nat /\ save.size \in Nat
      /\ save.addr \in Addresses /\ save.slot \in Nat
      /\ save.l \in Logs /\ info[save.l] \in InfoType(Counted) /\ SavePlace
  BY FlashLogAssumption, AreaBounds DEF TypeInv, SaveType
<1>p. /\ InfoBegin(save.l) \in Nat /\ InfoEnd(save.l) \in Nat /\ DataEnd(save.l) \in Nat
      /\ SectorSize \in Nat /\ SectorSize > 0 /\ InfoBegin(save.l) < InfoEnd(save.l)
      /\ InfoEnd(save.l) + SectorSize <= DataEnd(save.l)
      /\ \A a \in Nat : a < DataEnd(save.l) + 2 * SectorSize => a \in Addresses
  BY <1>0, AreaBounds
<1>1. CASE EraseAhead
  <2>1. save' = [save EXCEPT !.pc = "probe"] /\ save.pc = "ahead" /\ begun' = begun
    BY <1>1 DEF EraseAhead, At
  <2>2. save' \in SaveType /\ save'.pc = "probe" /\ save'.l = save.l /\ save'.addr = save.addr
        /\ save'.slot = save.slot /\ save'.c = save.c
    BY <1>0, <2>1 DEF SaveType
  <2>3. Counted' = Counted /\ SavePlace'
    BY <1>0, <2>1, <2>2 DEF Counted, Early, SavePlace
  <2>4. FlashType(flash', Counted)
    BY <1>0, <1>1, ErasedTyped DEF EraseAhead
  <2> QED BY <1>0, <1>1, <2>2, <2>3, <2>4, SaveTyped DEF EraseAhead
<1>2. CASE Probe
  <2>1. save.pc = "probe" /\ begun' = begun
        /\ \/ save' = [save EXCEPT !.pc = "write"] /\ flash' = flash
           \/ /\ save' = [save EXCEPT !.pc = "write", !.addr = @ + SectorSize]
              /\ flash' = Erased(flash, save.addr + SectorSize)
    BY <1>2 DEF Probe, At
  <2>2. save.addr < DataEnd(save.l)
    BY <2>1, <1>0 DEF SavePlace
  <2>3. save.addr + SectorSize \in Addresses /\ save.addr + SectorSize < DataEnd(save.l) + SectorSize
    BY <1>0, <1>p, <2>2
  <2>4. save' \in SaveType /\ save'.pc = "write" /\ save'.l = save.l
        /\ save'.addr \in {save.addr, save.addr + SectorSize}
        /\ save'.slot = save.slot /\ save'.c = save.c
    <3>1. save.addr + SectorSize \in Addresses
      BY <2>3
    <3>2. CASE save' = [save EXCEPT !.pc = "write"]
      BY <1>0, <3>2 DEF SaveType
    <3>3. CASE save' = [save EXCEPT !.pc = "write", !.addr = @ + SectorSize]
      BY <1>0, <3>1, <3>3 DEF SaveType
    <3> QED BY <2>1, <3>2, <3>3
  <2>5. Counted' = Counted
    BY <2>1, <2>4 DEF Counted, Early
  <2>6. SavePlace'
    BY <1>0, <1>p, <2>1, <2>3, <2>4 DEF SavePlace
  <2>7. FlashType(flash', Counted)
    BY <1>0, <2>1, ErasedTyped
  <2> QED BY <1>0, <1>2, <2>4, <2>5, <2>6, <2>7, SaveTyped DEF Probe
<1>3. CASE WriteRecord
  <2>1. PICK ok \in BOOLEAN :
         /\ WriteDataBuff("data", save.addr, save.size, Record(save, info[save.l]), ok)
         /\ save' = [save EXCEPT !.pc = IF ok THEN "addr" ELSE "post"]
    BY <1>3 DEF WriteRecord
  <2>2. save' \in SaveType /\ save'.pc \in {"addr", "post"} /\ save'.l = save.l
        /\ save'.addr = save.addr /\ save'.slot = save.slot /\ save'.c = save.c
    BY <1>0, <2>1 DEF SaveType
  <2>3. save.pc = "write" /\ begun' = begun
    BY <1>3 DEF WriteRecord, At
  <2>4. Counted = begun - 1 /\ Counted' \in {begun - 1, begun} /\ Counted' \in Nat /\ Counted <= Counted'
    BY <1>0, <2>2, <2>3 DEF Counted, Early
  <2>5. SavePlace'
    BY <1>0, <2>2, <2>3 DEF SavePlace
  <2>6. FlashType(flash', Counted)
    <3>1. Record(save, info[save.l]) \in CellType(Counted)
      BY <1>0, RecordTyped
    <3>2. Span(save.addr, save.size) \subseteq Addresses
      BY SavePlaceFacts
    <3> QED BY <1>0, <2>1, <3>1, <3>2, WriteTyped
  <2>7. info' \in [Logs -> InfoType(Counted')]
    <3>1. info' = info
      BY <1>3 DEF WriteRecord
    <3> QED BY <1>0, <2>4, <3>1, TypeGrows
  <2> QED BY <1>3, <2>2, <2>4, <2>5, <2>6, <2>7, SaveTyped DEF WriteRecord
<1>4. CASE SetAddress
  <2>1. save' = [save EXCEPT !.pc = "size"] /\ save.pc = "addr" /\ begun' = begun
    BY <1>4 DEF SetAddress, At
  <2>2. save' \in SaveType /\ save'.pc = "size" /\ save'.l = save.l /\ save'.addr = save.addr
        /\ save'.slot = save.slot /\ save'.c = save.c
    BY <1>0, <2>1 DEF SaveType
  <2>3. Counted' = Counted /\ SavePlace'
    BY <1>0, <2>1, <2>2 DEF Counted, Early, SavePlace
  <2>4. info' = [info EXCEPT ![save.l] = [info[save.l] EXCEPT !.addr = save.addr]]
    BY <1>4, <1>0 DEF SetAddress
  <2>5. [info[save.l] EXCEPT !.addr = save.addr] \in InfoType(Counted)
    BY <1>0, Zenon DEF InfoType
  <2>6. info' \in [Logs -> InfoType(Counted)]
    BY <1>0, <2>4, <2>5
  <2> QED BY <1>0, <1>4, <2>2, <2>3, <2>6, SaveTyped DEF SetAddress
<1>5. CASE SetSize
  <2>1. save' = [save EXCEPT !.pc = "total"] /\ save.pc = "size" /\ begun' = begun
    BY <1>5 DEF SetSize, At
  <2>2. save' \in SaveType /\ save'.pc = "total" /\ save'.l = save.l /\ save'.addr = save.addr
        /\ save'.slot = save.slot /\ save'.c = save.c
    BY <1>0, <2>1 DEF SaveType
  <2>3. Counted' = Counted /\ SavePlace'
    BY <1>0, <2>1, <2>2 DEF Counted, Early, SavePlace
  <2>4. info' = [info EXCEPT ![save.l] = [info[save.l] EXCEPT !.n = save.n, !.size = save.size]]
    BY <1>5, <1>0 DEF SetSize
  <2>5. save.n \in Nat /\ save.size \in 0..SectorSize
    BY <1>0 DEF SaveType
  <2>6. [info[save.l] EXCEPT !.n = save.n, !.size = save.size] \in InfoType(Counted)
    BY <1>0, <2>5, Zenon DEF InfoType
  <2>7. info' \in [Logs -> InfoType(Counted)]
    BY <1>0, <2>4, <2>6
  <2> QED BY <1>0, <1>5, <2>2, <2>3, <2>7, SaveTyped DEF SetSize
<1>6. CASE SetTotal
  <2> DEFINE slot == NewSlot(info[save.l], save.l)
  <2>1. /\ info' = [info EXCEPT ![save.l] = [info[save.l] EXCEPT !.total = @ + 1, !.sys = slot]]
        /\ save' = [save EXCEPT !.pc = "slotahead", !.slot = slot]
        /\ save.pc = "total" /\ begun' = begun
    BY <1>0, <1>6 DEF SetTotal, At
  <2>2. slot \in Addresses /\ slot < InfoEnd(save.l)
    <3>1. info[save.l].sys \in Nat
      BY <1>0, AddressFacts DEF InfoType
    <3>2. slot \in Nat /\ slot < InfoEnd(save.l)
      BY <1>p, <3>1 DEF NewSlot
    <3> QED BY <1>p, <3>2
  <2> HIDE DEF slot
  <2>3. save' \in SaveType /\ save'.pc = "slotahead" /\ save'.l = save.l /\ save'.addr = save.addr
        /\ save'.slot = slot /\ save'.c = save.c
    BY <1>0, <2>1, <2>2 DEF SaveType
  <2>4. Counted' = begun /\ Counted = begun - 1
    BY <2>1, <2>3 DEF Counted, Early
  <2>5. SavePlace'
    BY <1>0, <1>p, <2>1, <2>2, <2>3, AddressFacts DEF SavePlace
  <2>6. info' \in [Logs -> InfoType(begun)]
    <3>1. info \in [Logs -> InfoType(begun)] /\ info[save.l] \in InfoType(begun)
      BY <1>0, <2>4, TypeGrows
    <3>2. info[save.l].total + 1 \in 0..begun
      BY <1>0, <2>4 DEF InfoType
    <3>3. [info[save.l] EXCEPT !.total = @ + 1, !.sys = slot] \in InfoType(begun)
      BY <2>2, <3>1, <3>2, Zenon DEF InfoType
    <3> QED BY <2>1, <3>1, <3>3
  <2> QED BY <1>0, <1>6, <2>3, <2>4, <2>5, <2>6, SaveTyped DEF SetTotal
<1>7. CASE EraseSlotsAhead
  <2>1. save' = [save EXCEPT !.pc = "slot"] /\ save.pc = "slotahead" /\ begun' = begun
    BY <1>7 DEF EraseSlotsAhead, At
  <2>2. save' \in SaveType /\ save'.pc = "slot" /\ save'.l = save.l /\ save'.addr = save.addr
        /\ save'.slot = save.slot /\ save'.c = save.c
    BY <1>0, <2>1 DEF SaveType
  <2>3. Counted' = Counted /\ SavePlace'
    BY <1>0, <2>1, <2>2 DEF Counted, Early, SavePlace
  <2>4. FlashType(flash', Counted)
    BY <1>0, <1>7, ErasedTyped DEF EraseSlotsAhead
  <2> QED BY <1>0, <1>7, <2>2, <2>3, <2>4, SaveTyped DEF EraseSlotsAhead
<1>s. /\ InfoSlot(info[save.l]) \in CellType(Counted)
      /\ Span(save.slot, 1) \subseteq Addresses
  BY <1>0, InfoSlotTyped, SavePlaceFacts
<1>8. CASE WriteSlot
  <2>1. PICK ok \in BOOLEAN :
         /\ WriteDataBuff("info", save.slot, 1, InfoSlot(info[save.l]), ok)
         /\ save' = IF ok THEN [save EXCEPT !.pc = "post", !.ok = TRUE]
                          ELSE [save EXCEPT !.pc = "slot2", !.slot = @ + 1]
    BY <1>8 DEF WriteSlot
  <2>2. save.pc = "slot" /\ begun' = begun /\ save.slot < InfoEnd(save.l)
    BY <1>0, <1>8 DEF WriteSlot, At, SavePlace
  <2>3. save.slot + 1 \in Addresses
    BY <1>0, <1>p, <2>2
  <2>4. save' \in SaveType /\ save'.pc \in {"post", "slot2"} /\ save'.l = save.l
        /\ save'.addr = save.addr /\ save'.c = save.c
        /\ save'.slot \in {save.slot, save.slot + 1}
    <3>1. CASE ok
      BY <1>0, <2>1, <3>1 DEF SaveType
    <3>2. CASE ~ok
      BY <1>0, <2>1, <2>3, <3>2 DEF SaveType
    <3> QED BY <3>1, <3>2
  <2>5. Counted' = Counted
    BY <2>2, <2>4 DEF Counted, Early
  <2>6. SavePlace'
    BY <1>0, <1>p, <2>2, <2>4 DEF SavePlace
  <2>7. FlashType(flash', Counted)
    BY <1>0, <1>s, <2>1, WriteTyped
  <2> QED BY <1>0, <1>8, <2>4, <2>5, <2>6, <2>7, SaveTyped DEF WriteSlot
<1>9. CASE WriteSlotAgain
  <2>1. PICK ok \in BOOLEAN :
         /\ WriteDataBuff("info", save.slot, 1, InfoSlot(info[save.l]), ok)
         /\ save' = [save EXCEPT !.pc = "post", !.ok = ok]
         /\ info' = IF ok THEN [info EXCEPT ![save.l].sys = save.slot] ELSE info
    BY <1>9 DEF WriteSlotAgain
  <2>2. save.pc = "slot2" /\ begun' = begun
    BY <1>9 DEF WriteSlotAgain, At
  <2>3. save' \in SaveType /\ save'.pc = "post" /\ save'.l = save.l
        /\ save'.addr = save.addr /\ save'.c = save.c /\ save'.slot = save.slot
    BY <1>0, <2>1 DEF SaveType
  <2>4. Counted' = Counted
    BY <2>2, <2>3 DEF Counted, Early
  <2>5. SavePlace'
    BY <1>0, <2>2, <2>3 DEF SavePlace
  <2>6. FlashType(flash', Counted)
    BY <1>0, <1>s, <2>1, WriteTyped
  <2>7. info' \in [Logs -> InfoType(Counted)]
    <3>1. save.slot \in Addresses
      BY <1>0 DEF SaveType
    <3>2. [info[save.l] EXCEPT !.sys = save.slot] \in InfoType(Counted)
      BY <1>0, <3>1, Zenon DEF InfoType
    <3> QED BY <1>0, <2>1, <3>2
  <2> QED BY <1>0, <1>9, <2>3, <2>4, <2>5, <2>6, <2>7, SaveTyped DEF WriteSlotAgain
<1>10. CASE SavePost
  <2>1. save.pc = "post" /\ save.c \in Codes
    <3>1. save.pc = "post"
      BY <1>10 DEF SavePost, At
    <3> QED BY <3>1, FlashLogAssumption DEF TypeInv, SavePlace, Codes
  <2>2. acked' \in [Logs -> SUBSET Codes]
    <3>1. acked \in [Logs -> SUBSET Codes]
      BY DEF TypeInv
    <3> QED BY <1>0, <1>10, <2>1, <3>1 DEF SavePost
  <2>3. CASE ~save.ok /\ TooMany(Log_Err_cnt + 1)
    BY <1>0, <1>10, <2>2, <2>3, StoppedTyped DEF SavePost
  <2>4. CASE ~(~save.ok /\ TooMany(Log_Err_cnt + 1))
    <3>1. Log_Err_cnt' \in 0..1 /\ save' = NoSave
      BY <1>10, <2>4 DEF SavePost, TooMany, TypeInv
    <3>2. Counted = begun /\ Counted' = begun'
      BY <2>1, <3>1, NoSaveTyped DEF Counted, Early
    <3>3. SavePlace'
      BY <3>1, NoSaveTyped, AreaBounds DEF SavePlace
    <3>4. UNCHANGED <<info, comm_stat, boot, flash, begun>>
      BY <1>10, <2>4 DEF SavePost
    <3> QED BY <2>2, <3>1, <3>2, <3>3, <3>4, NoSaveTyped DEF TypeInv
  <2> QED BY <2>3, <2>4
<1> QED BY <1>1, <1>2, <1>3, <1>4, <1>5, <1>6, <1>7, <1>8, <1>9, <1>10 DEF SaveStep

(* A save begins inside the flash, also at the end of the data area. *)
LEMMA SaveBeginTyped ==
    ASSUME TypeInv, NEW l \in Logs, NEW size \in Sizes, SaveBegin(l, size)
    PROVE  TypeInv'
<1>0. /\ begun \in Nat /\ MaxSaves \in Nat /\ info \in [Logs -> InfoType(Counted)]
      /\ info[l] \in InfoType(Counted) /\ size \in 0..SectorSize /\ FlashType(flash, Counted)
  BY FlashLogAssumption DEF TypeInv
<1>1. save.pc = "idle" /\ begun' = begun + 1 /\ begun < MaxSaves
  BY DEF SaveBegin, At
<1>2. Counted = begun
  BY <1>1 DEF Counted, Early
<1>3. /\ InfoBegin(l) \in Nat /\ InfoEnd(l) \in Nat /\ DataEnd(l) \in Nat /\ DataBegin(l) = InfoEnd(l)
      /\ SectorSize \in Nat /\ SectorSize > 0 /\ InfoEnd(l) + SectorSize <= DataEnd(l)
      /\ 0 \in Addresses /\ Addresses \subseteq Nat
      /\ \A a \in Nat : a < DataEnd(l) + 2 * SectorSize => a \in Addresses
  BY AreaBounds
<1>4. /\ NewAddress(l) \in Addresses /\ NewAddress(l) < DataEnd(l) /\ DataBegin(l) \in Addresses
  <2>0. info[l].addr \in Addresses /\ info[l].size \in 0..SectorSize
    BY <1>0 DEF InfoType
  <2>1. info[l].addr \in Nat /\ info[l].size \in Nat
    BY <2>0, AddressFacts, Multiples
  <2>2. NewAddress(l) \in Nat /\ NewAddress(l) < DataEnd(l)
    BY <1>3, <2>1 DEF NewAddress
  <2> QED BY <1>3, <2>2
<1>5. CASE comm_stat = 1
  <2>1. save' = [NoSave EXCEPT !.pc = "post", !.l = l, !.c = begun + 1] /\ info' = info
    BY <1>5 DEF SaveBegin
  <2>2. begun + 1 \in Nat
    BY <1>0
  <2>3. save' \in SaveType
    BY <2>1, <2>2, NoSaveTyped, Zenon DEF SaveType
  <2>4. save'.pc = "post" /\ save'.l = l /\ save'.c = begun + 1 /\ save'.addr = 0 /\ save'.slot = 0
    BY <2>1 DEF NoSave
  <2>5. SavePlace'
    BY <1>0, <1>1, <1>3, <2>4 DEF SavePlace
  <2>6. Counted' = begun + 1
    BY <1>1, <2>4 DEF Counted, Early
  <2>7. FlashType(flash, begun + 1) /\ info \in [Logs -> InfoType(begun + 1)]
    BY <1>0, <1>2, TypeGrows
  <2> QED BY <1>0, <1>1, <2>1, <2>3, <2>5, <2>6, <2>7 DEF TypeInv, SaveBegin
<1>6. CASE comm_stat # 1
  <2> DEFINE n == IF info[l].total = 0 THEN 1 ELSE info[l].n + 1
  <2>1. /\ save' = [NoSave EXCEPT !.pc = "ahead", !.l = l, !.size = size,
                                  !.addr = NewAddress(l), !.c = begun + 1, !.n = n]
        /\ \/ info' = info
           \/ info' = [info EXCEPT ![l] = [info[l] EXCEPT !.addr = DataBegin(l), !.n = 1, !.size = size]]
    BY <1>0, <1>6 DEF SaveBegin
  <2>2. begun + 1 \in Nat /\ n \in Nat
    BY <1>0 DEF InfoType
  <2> HIDE DEF n
  <2>3. save' \in SaveType
    BY <1>0, <1>4, <2>1, <2>2, NoSaveTyped, Zenon DEF SaveType
  <2>4. save'.pc = "ahead" /\ save'.l = l /\ save'.c = begun + 1 /\ save'.addr = NewAddress(l)
        /\ save'.slot = 0
    BY <2>1 DEF NoSave
  <2>5. SavePlace'
    <3>0. NewAddress(l) \in Nat /\ DataEnd(l) \in Nat /\ SectorSize \in Nat /\ NewAddress(l) < DataEnd(l)
      BY <1>3, <1>4, AddressFacts
    <3>1. NewAddress(l) \in Nat /\ NewAddress(l) < DataEnd(l) + SectorSize
      BY <3>0
    <3> QED BY <1>0, <1>1, <1>3, <1>4, <2>4, <3>1 DEF SavePlace
  <2>6. Counted' = begun
    BY <1>0, <1>1, <2>4 DEF Counted, Early
  <2>7. info' \in [Logs -> InfoType(begun)]
    <3>1. [info[l] EXCEPT !.addr = DataBegin(l), !.n = 1, !.size = size] \in InfoType(begun)
      <4>1. 1 \in Nat
        OBVIOUS
      <4> QED BY <1>0, <1>2, <1>4, <4>1, Zenon DEF InfoType
    <3> QED BY <1>0, <1>2, <2>1, <3>1
  <2>8. UNCHANGED <<flash, comm_stat, Log_Err_cnt, boot, acked>>
    BY DEF SaveBegin
  <2> QED BY <1>0, <1>1, <1>2, <2>3, <2>5, <2>6, <2>7, <2>8 DEF TypeInv
<1> QED BY <1>5, <1>6

(* Every step keeps the types. *)
LEMMA TypeStep == ASSUME TypeInv, [Next]_flashVars PROVE TypeInv'
<1>0. acked \in [Logs -> SUBSET Codes] /\ FlashType(flash, Counted) /\ Log_Err_cnt \in 0..1
  BY DEF TypeInv
<1>1. CASE Crash
  <2>1. FlashType(flash', Counted)
    BY <1>1, InterruptedTyped DEF Crash
  <2> QED BY <1>0, <1>1, <2>1, StoppedTyped DEF Crash
<1>2. CASE SaveTimeout
  <2>1. CASE TooMany(Log_Err_cnt + 1)
    <3>1. Stopped /\ flash' \in Interrupted /\ acked' = acked /\ begun' = begun
      BY <1>2, <2>1 DEF SaveTimeout
    <3>2. FlashType(flash', Counted)
      BY <3>1, InterruptedTyped
    <3> QED BY <1>0, <3>1, <3>2, StoppedTyped
  <2>2. CASE ~TooMany(Log_Err_cnt + 1)
    <3>1. UNCHANGED <<flash, info, comm_stat, boot, save, acked, begun>> /\ Log_Err_cnt' \in 0..1
      BY <1>0, <1>2, <2>2 DEF SaveTimeout, TooMany
    <3>2. Counted' = Counted /\ SavePlace' = SavePlace
      BY <3>1 DEF Counted, SavePlace
    <3> QED BY <3>1, <3>2 DEF TypeInv
  <2> QED BY <2>1, <2>2
<1>3. CASE UNCHANGED flashVars
  <2>1. Counted' = Counted /\ SavePlace' = SavePlace
    BY <1>3 DEF Counted, SavePlace, flashVars
  <2> QED BY <1>3, <2>1 DEF TypeInv, flashVars
<1> QED BY <1>1, <1>2, <1>3, BootStepTyped, SaveBeginTyped, SaveStepTyped DEF Next

(* The inductive invariant is stronger than what the run checks. *)
LEMMA TypeInvGivesTypeOK == TypeInv => TypeOK
<1> SUFFICES ASSUME TypeInv PROVE TypeOK
  OBVIOUS
<1>1. /\ DOMAIN flash \subseteq Addresses
      /\ \A a \in DOMAIN flash : flash[a].k \in {"torn", "headless", "body", "info", "log"}
  BY DEF TypeInv, FlashType, CellType, Kinds
<1>2. 0..Counted \subseteq 0..MaxSaves
  BY FlashLogAssumption DEF TypeInv, Counted
<1>3. \A l \in Logs : /\ info[l].addr \in Addresses
                      /\ info[l].sys \in Addresses
                      /\ info[l].total \in 0..MaxSaves
                      /\ acked[l] \subseteq Codes
  <2> SUFFICES ASSUME NEW l \in Logs
               PROVE  /\ info[l].addr \in Addresses /\ info[l].sys \in Addresses
                      /\ info[l].total \in 0..MaxSaves /\ acked[l] \subseteq Codes
    OBVIOUS
  <2>1. info[l] \in InfoType(Counted) /\ acked[l] \in SUBSET Codes
    BY DEF TypeInv
  <2> QED BY <1>2, <2>1 DEF InfoType
<1>4. Log_Err_cnt \in 0..1 /\ save.addr + save.size \in Addresses /\ save.slot \in Addresses
  BY SavePlaceFacts DEF TypeInv, SaveType
<1> QED BY <1>1, <1>3, <1>4 DEF TypeOK

(* The types hold at every step. *)
LEMMA TypeInvariant == Spec => []TypeInv
BY TypeInit, TypeStep, PTL DEF Spec

(* Whatever is saved, found wrong or cut off, on any lap through the areas *)
(* and whatever a slot written over another comes to hold, every address   *)
(* the code computes is inside the flash, no log counts more records than  *)
(* MaxSaves, and the error count is reset in time (app_log.c 312-580).     *)
THEOREM LogTypeCorrect == Spec => []TypeOK
BY TypeInvariant, TypeInvGivesTypeOK, PTL

-----------------------------------------------------------------------------
(* The walk back through the records.                                      *)

Place(p) == [addr |-> p.addr, size |-> p.size]

(* One step back from each of the places g, the first of them being p. *)
OneBack(g, f, p, n) == [k \in 0..n |-> IF k = 0 THEN p ELSE Back(f, g[k - 1])]

(* The recursive function that Places names exists, for every length. *)
LEMMA PlacesExist ==
    ASSUME NEW f, NEW p, NEW n \in Nat
    PROVE  \E g : g = OneBack(g, f, p, n)
<1> USE DEF OneBack
<1> DEFINE Step(g, m) == OneBack(g, f, p, m)
           S == {m \in Nat : ~ \E g : g = Step(g, m)}
<1> SUFFICES ASSUME n \in S PROVE FALSE
  BY Zenon
<1>1. PICK m \in S : \A y \in S : m <= y
  <2>1. S \subseteq Nat /\ S # {}
    OBVIOUS
  <2> HIDE DEF S
  <2> QED BY <2>1, LeastIn
<1>2. m # 0
  <2> SUFFICES ASSUME m = 0 PROVE FALSE
    OBVIOUS
  <2> DEFINE g == [k \in 0..0 |-> p]
  <2>1. g = Step(g, 0)
    OBVIOUS
  <2> HIDE DEF g, Step
  <2> QED BY <2>1
<1>3. PICK g : g = Step(g, m - 1)
  <2>1. m - 1 \in Nat /\ ~(m <= m - 1)
    BY <1>2
  <2>2. m - 1 \notin S
    BY <1>1, <2>1
  <2> HIDE DEF Step
  <2> QED BY <2>1, <2>2
<1> DEFINE h == [k \in 0..m |-> IF k = 0 THEN p ELSE Back(f, g[k - 1])]
<1>4. \A k \in 0 .. m - 1 : h[k] = g[k]
  <2>1. \A k \in 0 .. m - 1 : g[k] = IF k = 0 THEN p ELSE Back(f, g[k - 1])
    BY <1>3
  <2> QED BY <2>1
<1>5. h = Step(h, m)
  <2>1. \A k \in 0..m : k # 0 => k - 1 \in 0 .. m - 1
    OBVIOUS
  <2>2. \A k \in 0..m : (IF k = 0 THEN p ELSE Back(f, g[k - 1])) = (IF k = 0 THEN p ELSE Back(f, h[k - 1]))
    BY <1>4, <2>1
  <2> QED BY <2>2
<1> HIDE DEF h, Step
<1> QED BY <1>5

(* A walk starts at its place and goes back record by record. *)
LEMMA PlacesAre ==
    ASSUME NEW f, NEW p, NEW n \in Nat
    PROVE  /\ Places(f, p, n)[0] = Place(p)
           /\ \A k \in 1..n : Places(f, p, n)[k] = Back(f, Places(f, p, n)[k - 1])
<1> DEFINE b == Place(p)
           F(h) == OneBack(h, f, b, n)
<1>1. Places(f, p, n) = CHOOSE h : h = F(h)
  BY DEF Places, OneBack, Place
<1>2. \E h : h = F(h)
  <2> HIDE DEF b
  <2> QED BY PlacesExist
<1>3. Places(f, p, n) = F(Places(f, p, n))
  <2> HIDE DEF F
  <2> QED BY <1>1, <1>2
<1> HIDE DEF b
<1>4. Places(f, p, n)[0] = b /\ \A k \in 1..n : Places(f, p, n)[k] = Back(f, Places(f, p, n)[k - 1])
  BY <1>3 DEF OneBack
<1> QED BY <1>4 DEF b

(* Two walks that meet stay together as long as the records they pass      *)
(* point to the same places.                                               *)
LEMMA PlacesAgree ==
    ASSUME NEW f, NEW p, NEW m \in Nat, NEW g, NEW q, NEW n \in Nat, NEW d \in Nat, NEW e \in Nat,
           e <= m, d + e <= n, Places(f, p, m)[0] = Places(g, q, n)[d],
           \A k \in 0 .. e - 1 : Back(f, Places(f, p, m)[k]) = Back(g, Places(f, p, m)[k])
    PROVE  \A k \in 0..e : Places(f, p, m)[k] = Places(g, q, n)[d + k]
<1>r. ASSUME NEW j \in 1..m PROVE Places(f, p, m)[j] = Back(f, Places(f, p, m)[j - 1])
  BY PlacesAre
<1>q. ASSUME NEW j \in 1..n PROVE Places(g, q, n)[j] = Back(g, Places(g, q, n)[j - 1])
  BY PlacesAre
<1> DEFINE P == Places(f, p, m)
           Q == Places(g, q, n)
           S == {k \in 0..e : P[k] # Q[d + k]}
<1> SUFFICES ASSUME S # {} PROVE FALSE
  OBVIOUS
<1>1. PICK k \in S : \A y \in S : k <= y
  <2>1. S \subseteq Nat
    OBVIOUS
  <2> HIDE DEF S
  <2> QED BY <2>1, LeastIn
<1>p. P[0] = Q[d] /\ \A j \in 0 .. e - 1 : Back(f, P[j]) = Back(g, P[j])
  OBVIOUS
<1>s. /\ \A j \in 1..m : P[j] = Back(f, P[j - 1])
      /\ \A j \in 1..n : Q[j] = Back(g, Q[j - 1])
  BY <1>r, <1>q
<1> HIDE DEF P, Q
<1>2. k # 0
  BY <1>p
<1>3. k - 1 \in 0 .. e - 1 /\ k - 1 \notin S /\ k \in 1..m /\ d + k \in 1..n /\ d + k - 1 = d + (k - 1)
  BY <1>1, <1>2
<1>4. P[k - 1] = Q[d + (k - 1)]
  BY <1>3
<1>5. P[k] = Back(f, P[k - 1]) /\ Q[d + k] = Back(g, Q[d + (k - 1)])
  BY <1>s, <1>3
<1>6. Back(f, P[k - 1]) = Back(g, P[k - 1])
  BY <1>p, <1>3
<1> QED BY <1>1, <1>4, <1>5, <1>6

(* The code of the record at place k of a walk from p. *)
CodeAt(f, p, n, k) == f[Places(f, p, n)[k].addr].c

(* A walk that can read every record answers with all their codes. *)
LEMMA WalkReadsAll ==
    ASSUME NEW f, NEW p, NEW n \in Nat, \A k \in 0 .. n - 1 : Read1Log(f, Places(f, p, n)[k])
    PROVE  Walk(f, p, n) = [k \in 1..n |-> CodeAt(f, p, n, k - 1)]
<1> DEFINE read == {k \in 1..n : Read1Log(f, Places(f, p, n)[k - 1])}
<1>1. \A k \in 1..n : k - 1 \in 0 .. n - 1
  OBVIOUS
<1>2. read = 1..n
  BY <1>1, Zenon
<1>3. Cardinality(1..n) = n
  <2>1. Cardinality(1..n) = IF 1 > n THEN 0 ELSE n - 1 + 1
    BY FS_Interval
  <2> QED BY <2>1
<1>4. Walk(f, p, n) = [k \in 1..Cardinality(read) |-> f[Places(f, p, n)[k - 1].addr].c]
  BY DEF Walk
<1> HIDE DEF read
<1> QED BY <1>2, <1>3, <1>4 DEF CodeAt

(* A shorter walk comes to the same places. *)
LEMMA PlacesPrefix ==
    ASSUME NEW f, NEW p, NEW n \in Nat, NEW m \in Nat, m <= n
    PROVE  \A k \in 0..m : Places(f, p, m)[k] = Places(f, p, n)[k]
<1>1. Places(f, p, m)[0] = Places(f, p, n)[0]
  BY PlacesAre
<1>2. \A k \in 0..m : Places(f, p, m)[k] = Places(f, p, n)[0 + k]
  BY <1>1, PlacesAgree
<1> QED BY <1>2

(* The flashes f and g are the same at the addresses in S. *)
Agree(f, g, S) ==
    \A y \in S : /\ y \in DOMAIN f <=> y \in DOMAIN g
                 /\ y \in DOMAIN f => f[y] = g[y]

(* The cell that p names. *)
HeadOf(f, p) == f[p.addr]

(* A record of log l that ends before z and whose code is one of 1..m. *)
Linked(f, l, p, m, z) ==
    /\ Read1Log(f, p)
    /\ p.addr \in Nat /\ p.size \in Nat
    /\ DataBegin(l) <= p.addr
    /\ p.addr + p.size <= z
    /\ f[p.addr].c \in 1..m

(* The end of the newest record of log l; i tells where that one is. *)
End(l, i) == IF i.total = 0 THEN DataBegin(l) ELSE i.addr + i.size

(* From the newest record back all that i counts can be read. *)
Chain(f, l, i, m) ==
    \A k \in 0 .. i.total - 1 : Linked(f, l, Places(f, i, i.total)[k], m, End(l, i))

(* i and j count the same records and name the same newest one. *)
SameNewest(i, j) == j.total = i.total /\ (i.total > 0 => j.addr = i.addr /\ j.size = i.size)

Counts(l, i) == i.total \in Nat /\ End(l, i) \in Nat

AllCodes(f, i) == Walk(f, i, i.total)

(* A link of the chain depends only on what is stored below its end. *)
LEMMA LinkedAgree ==
    ASSUME NEW f, NEW g, NEW l \in Logs, NEW p, NEW m \in Nat, NEW n \in Nat, m <= n,
           NEW z \in Nat, NEW y \in Nat, z <= y,
           Agree(f, g, DataBegin(l) .. z - 1), Linked(f, l, p, m, z)
    PROVE  /\ Linked(g, l, p, n, y)
           /\ Back(f, p) = Back(g, p)
           /\ HeadOf(f, p) = HeadOf(g, p)
<1>1. DataBegin(l) \in Nat
  BY AreaBounds
<1>2. /\ p.addr \in Nat /\ p.size \in Nat /\ DataBegin(l) <= p.addr /\ p.addr + p.size <= z /\ p.size > 0
      /\ f[p.addr].c \in 1..m /\ Read1Log(f, p)
  BY DEF Linked, Read1Log
<1>3. p.addr \in DataBegin(l) .. z - 1 /\ Span(p.addr + 1, p.size - 1) \subseteq DataBegin(l) .. z - 1
  BY <1>1, <1>2 DEF Span
<1>4. p.addr \in DOMAIN f /\ p.addr \in DOMAIN g /\ f[p.addr] = g[p.addr]
  <2>1. p.addr \in DOMAIN f
    BY <1>2 DEF Read1Log, Kind
  <2> QED BY <1>3, <2>1 DEF Agree
<1>5. \A x \in Span(p.addr + 1, p.size - 1) : Kind(g, x) = Kind(f, x)
  BY <1>3 DEF Agree, Kind
<1>6. Read1Log(g, p)
  BY <1>2, <1>4, <1>5 DEF Read1Log, Kind
<1>7. Back(f, p) = Back(g, p)
  BY <1>2, <1>4, <1>6 DEF Back
<1> QED BY <1>2, <1>4, <1>6, <1>7 DEF Linked, HeadOf

(* What lies behind the newest record matters to none. *)
LEMMA ChainFrame ==
    ASSUME NEW f, NEW g, NEW l \in Logs, NEW i, NEW j, NEW m \in Nat, NEW n \in Nat, m <= n,
           Counts(l, i), SameNewest(i, j), Chain(f, l, i, m),
           Agree(f, g, DataBegin(l) .. End(l, i) - 1)
    PROVE  Counts(l, j) /\ End(l, j) = End(l, i) /\ Chain(g, l, j, n) /\ AllCodes(g, j) = AllCodes(f, i)
<1>0. i.total \in Nat /\ End(l, i) \in Nat /\ j.total = i.total
      /\ (i.total > 0 => j.addr = i.addr /\ j.size = i.size)
  BY DEF Counts, SameNewest
<1> DEFINE t == i.total
           P == Places(f, i, t)
           Q == Places(g, j, t)
<1>1. End(l, j) = End(l, i)
  BY <1>0 DEF End
<1>2. ASSUME NEW k \in 0 .. t - 1
      PROVE  Linked(g, l, P[k], n, End(l, i)) /\ Back(f, P[k]) = Back(g, P[k])
             /\ f[P[k].addr] = g[P[k].addr] /\ Read1Log(f, P[k])
  <2>1. Linked(f, l, P[k], m, End(l, i))
    BY DEF Chain
  <2>2. Read1Log(f, P[k])
    BY <2>1 DEF Linked
  <2> HIDE DEF P
  <2> DEFINE z == End(l, i)
             q == P[k]
  <2>3. z \in Nat /\ z <= z /\ Agree(f, g, DataBegin(l) .. z - 1) /\ Linked(f, l, q, m, z)
    BY <1>0, <2>1
  <2> HIDE DEF z, q
  <2>4. Linked(g, l, q, n, z) /\ Back(f, q) = Back(g, q) /\ HeadOf(f, q) = HeadOf(g, q)
    BY <2>3, LinkedAgree
  <2> QED BY <2>2, <2>4 DEF z, q, HeadOf
<1>3. ASSUME t > 0 PROVE \A k \in 0 .. t : P[k] = Q[k]
  <2>0. Place(i) = Place(j)
    BY <1>0, <1>3 DEF Place
  <2>1. P[0] = Q[0]
    BY <1>0, <2>0, PlacesAre
  <2>t. t \in Nat /\ 0 \in Nat /\ t <= t /\ 0 + t <= t
    BY <1>0
  <2>b. \A k \in 0 .. t - 1 : Back(f, P[k]) = Back(g, P[k])
    BY <1>2
  <2> HIDE DEF t
  <2>2. \A k \in 0..t : P[k] = Q[0 + k]
    BY <2>1, <2>t, <2>b, PlacesAgree
  <2>3. \A k \in 0..t : 0 + k = k
    BY <2>t
  <2> QED BY <2>2, <2>3
<1>4. \A k \in 0 .. t - 1 : P[k] = Q[k]
  BY <1>0, <1>3
<1>5. Chain(g, l, j, n)
  BY <1>0, <1>1, <1>2, <1>4 DEF Chain
<1>6. Walk(f, i, t) = [k \in 1..t |-> CodeAt(f, i, t, k - 1)]
  BY <1>0, <1>2, WalkReadsAll
<1>7. Walk(g, j, t) = [k \in 1..t |-> CodeAt(g, j, t, k - 1)]
  <2>1. \A k \in 0 .. t - 1 : Read1Log(g, Q[k])
    BY <1>2, <1>4 DEF Linked
  <2> QED BY <1>0, <2>1, WalkReadsAll
<1>8. \A k \in 1..t : CodeAt(f, i, t, k - 1) = CodeAt(g, j, t, k - 1)
  <2>1. ASSUME NEW k \in 1..t PROVE CodeAt(f, i, t, k - 1) = CodeAt(g, j, t, k - 1)
    <3>1. k - 1 \in 0 .. t - 1
      BY <1>0
    <3>2. P[k - 1] = Q[k - 1] /\ f[P[k - 1].addr] = g[P[k - 1].addr]
      BY <1>2, <1>4, <3>1
    <3> QED BY <3>2 DEF CodeAt
  <2> QED BY <2>1
<1>9. AllCodes(g, j) = AllCodes(f, i)
  BY <1>0, <1>6, <1>7, <1>8 DEF AllCodes
<1> QED BY <1>0, <1>1, <1>5, <1>9 DEF Counts

(* The record that j names lies behind those that i counts, points to the  *)
(* newest of them and has code n.                                          *)
Appended(f, l, i, j, n) ==
    /\ j.total = i.total + 1
    /\ Read1Log(f, j)
    /\ j.addr \in Nat /\ j.size \in Nat
    /\ End(l, i) <= j.addr
    /\ f[j.addr].c = n
    /\ i.total > 0 => f[j.addr].addr = i.addr /\ f[j.addr].size = i.size

(* A record appended behind the end extends the chain by itself. *)
LEMMA ChainGrows ==
    ASSUME NEW f, NEW l \in Logs, NEW i, NEW j, NEW m \in Nat, NEW n \in Nat, m < n,
           Counts(l, i), Chain(f, l, i, m), Appended(f, l, i, j, n), DataBegin(l) <= End(l, i)
    PROVE  /\ Counts(l, j)
           /\ Chain(f, l, j, n)
           /\ AllCodes(f, j) = <<n>> \o AllCodes(f, i)
<1> DEFINE t == i.total
           P == Places(f, i, t)
           Q == Places(f, j, t + 1)
<1>0. t \in Nat /\ End(l, i) \in Nat /\ j.total = t + 1 /\ DataBegin(l) \in Nat
      /\ Read1Log(f, j) /\ j.addr \in Nat /\ j.size \in Nat /\ End(l, i) <= j.addr
  BY AreaBounds DEF Counts, Appended
<1>1. Q[0] = Place(j) /\ Place(j).addr = j.addr /\ Place(j).size = j.size
  <2>1. Q[0] = Place(j)
    BY <1>0, PlacesAre
  <2> QED BY <2>1 DEF Place
<1>2. End(l, j) = j.addr + j.size
  BY <1>0 DEF End
<1>r. Read1Log(f, Place(j))
  BY <1>0 DEF Read1Log, Place
<1>3. Linked(f, l, Q[0], n, End(l, j)) /\ f[Q[0].addr].c = n
  BY <1>0, <1>1, <1>2, <1>r DEF Linked, Appended
<1>4. ASSUME t > 0 PROVE Q[1] = P[0]
  <2>1. P[0] = Place(i)
    BY <1>0, PlacesAre
  <2>2. 1 \in 1..(t + 1) /\ 1 - 1 = 0 /\ t + 1 \in Nat
    BY <1>0
  <2>3. Q[1] = Back(f, Q[0])
    BY <2>2, PlacesAre
  <2>4. Back(f, Q[0]) = Place(i)
    BY <1>1, <1>r, <1>4 DEF Back, Place, Appended
  <2> QED BY <2>1, <2>3, <2>4
<1>5. ASSUME t > 0 PROVE \A k \in 0 .. t : P[k] = Q[k + 1]
  <2>t. t \in Nat /\ t + 1 \in Nat /\ 1 \in Nat /\ t <= t /\ 1 + t <= t + 1
    BY <1>0
  <2>b. \A k \in 0 .. t - 1 : Back(f, P[k]) = Back(f, P[k])
    OBVIOUS
  <2>q. P[0] = Q[1]
    BY <1>4, <1>5
  <2> HIDE DEF t
  <2>2. \A k \in 0..t : P[k] = Q[1 + k]
    BY <2>q, <2>t, <2>b, PlacesAgree
  <2>3. \A k \in 0..t : 1 + k = k + 1
    BY <2>t
  <2> QED BY <2>2, <2>3
<1>6. ASSUME NEW k \in 1..t
      PROVE  Linked(f, l, Q[k], n, End(l, j)) /\ f[Q[k].addr].c = CodeAt(f, i, t, k - 1)
  <2>1. k - 1 \in 0 .. t - 1 /\ k - 1 \in 0..t /\ t > 0 /\ (k - 1) + 1 = k
    BY <1>0
  <2>2. P[k - 1] = Q[k]
    BY <1>5, <2>1
  <2>3. Linked(f, l, P[k - 1], m, End(l, i))
    BY <2>1 DEF Chain
  <2>4. \A p : Linked(f, l, p, m, End(l, i)) => Linked(f, l, p, n, End(l, j))
    BY <1>0, <1>2 DEF Linked
  <2> QED BY <2>2, <2>3, <2>4 DEF CodeAt
<1>7. Chain(f, l, j, n)
  <2>1. \A k \in 0 .. (t + 1) - 1 : k = 0 \/ k \in 1..t
    BY <1>0
  <2> QED BY <1>0, <1>3, <1>6, <2>1 DEF Chain
<1>8. AllCodes(f, j) = [k \in 1..(t + 1) |-> CodeAt(f, j, t + 1, k - 1)]
  <2>1. \A k \in 0 .. (t + 1) - 1 : Read1Log(f, Q[k])
    BY <1>0, <1>7 DEF Chain, Linked
  <2>2. t + 1 \in Nat
    BY <1>0
  <2> DEFINE w == t + 1
  <2>w. w \in Nat /\ \A k \in 0 .. w - 1 : Read1Log(f, Places(f, j, w)[k])
    BY <2>1, <2>2
  <2>3. Walk(f, j, w) = [k \in 1..w |-> CodeAt(f, j, w, k - 1)]
    <3> HIDE DEF w
    <3> QED BY <2>w, WalkReadsAll
  <2> QED BY <1>0, <2>3 DEF AllCodes
<1>9. AllCodes(f, i) = [k \in 1..t |-> CodeAt(f, i, t, k - 1)]
  <2>1. \A k \in 0 .. t - 1 : Read1Log(f, P[k])
    BY DEF Chain, Linked
  <2> QED BY <1>0, <2>1, WalkReadsAll DEF AllCodes
<1>10. \A k \in 1..(t + 1) : CodeAt(f, j, t + 1, k - 1) = IF k = 1 THEN n ELSE CodeAt(f, i, t, k - 2)
  <2> SUFFICES ASSUME NEW k \in 1..(t + 1)
               PROVE  CodeAt(f, j, t + 1, k - 1) = IF k = 1 THEN n ELSE CodeAt(f, i, t, k - 2)
    OBVIOUS
  <2>1. CASE k = 1
    BY <1>3, <2>1 DEF CodeAt
  <2>2. CASE k # 1
    <3>1. k - 1 \in 1..t /\ k - 1 - 1 = k - 2
      BY <1>0, <2>2
    <3> QED BY <1>6, <2>2, <3>1 DEF CodeAt
  <2> QED BY <2>1, <2>2
<1>11. AllCodes(f, j) = <<n>> \o AllCodes(f, i)
  <2> DEFINE s == AllCodes(f, i)
             u == [k \in 1..(t + 1) |-> IF k = 1 THEN n ELSE s[k - 1]]
  <2>1. AllCodes(f, j) = u
    <3>1. \A k \in 1..(t + 1) : k # 1 => k - 1 \in 1..t /\ (k - 1) - 1 = k - 2
      BY <1>0
    <3> QED BY <1>8, <1>9, <1>10, <3>1
  <2>2. Len(s) = t /\ DOMAIN s = 1..t
    BY <1>0, <1>9
  <2>3. s \in Seq(Nat)
    <3>1. \A k \in 1..t : CodeAt(f, i, t, k - 1) \in Nat
      BY <1>0, <1>6 DEF Linked
    <3>2. s = [k \in 1..t |-> CodeAt(f, i, t, k - 1)] /\ t \in Nat
      BY <1>0, <1>9
    <3> HIDE DEF s, t
    <3> QED BY <3>1, <3>2
  <2>4. <<n>> \o s = u
    <3> HIDE DEF s, t
    <3>1. t \in Nat
      BY <1>0
    <3>2. <<n>> \in Seq(Nat) /\ Len(<<n>>) = 1 /\ <<n>>[1] = n
      OBVIOUS
    <3>3. <<n>> \o s \in Seq(Nat) /\ Len(<<n>> \o s) = t + 1
      BY <2>2, <2>3, <3>1, <3>2
    <3>4. \A k \in 1..(t + 1) : (<<n>> \o s)[k] = IF k = 1 THEN n ELSE s[k - 1]
      BY <2>2, <2>3, <3>1, <3>2
    <3> QED BY <3>1, <3>3, <3>4
  <2> QED BY <2>1, <2>4
<1> QED BY <1>0, <1>2, <1>7, <1>11 DEF Counts

(* A chain reads as a sequence of codes of saves begun. *)
LEMMA CodesAreNumbers ==
    ASSUME NEW f, NEW l \in Logs, NEW i, NEW m \in Nat, Counts(l, i), Chain(f, l, i, m)
    PROVE  AllCodes(f, i) \in Seq(1..m) /\ AllCodes(f, i) \in Seq(Nat)
<1> DEFINE t == i.total
<1>0. t \in Nat
  BY DEF Counts
<1>1. \A k \in 0 .. t - 1 : Read1Log(f, Places(f, i, t)[k]) /\ CodeAt(f, i, t, k) \in 1..m
  BY DEF Chain, Linked, CodeAt
<1>2. AllCodes(f, i) = [k \in 1..t |-> CodeAt(f, i, t, k - 1)]
  BY <1>0, <1>1, WalkReadsAll DEF AllCodes
<1> HIDE DEF t
<1>3. \A k \in 1..t : CodeAt(f, i, t, k - 1) \in 1..m /\ CodeAt(f, i, t, k - 1) \in Nat
  BY <1>0, <1>1
<1> QED BY <1>0, <1>2, <1>3

(* The newest record, first in the walk, is the last in the log. *)
LEMMA ReverseGrows ==
    ASSUME NEW s \in Seq(Nat), NEW n \in Nat
    PROVE  Reverse(<<n>> \o s) = Append(Reverse(s), n)
<1> DEFINE u == <<n>> \o s
           t == Len(s)
<1>1. t \in Nat /\ Len(u) = t + 1 /\ u[1] = n /\ \A k \in 1..t : u[k + 1] = s[k] /\ s[k] \in Nat
  OBVIOUS
<1>2. Reverse(u) = [k \in 1..(t + 1) |-> u[(t + 1 - k) + 1]]
  BY <1>1 DEF Reverse
<1>3. Reverse(s) = [k \in 1..t |-> s[(t - k) + 1]]
  BY DEF Reverse
<1> HIDE DEF u, t
<1>4. \A k \in 1..t : (t - k) + 1 \in 1..t /\ (t + 1 - k) + 1 = ((t - k) + 1) + 1
  BY <1>1
<1>5. Reverse(s) \in Seq(Nat) /\ Len(Reverse(s)) = t
  BY <1>1, <1>3, <1>4
<1>6. Append(Reverse(s), n) \in Seq(Nat) /\ Len(Append(Reverse(s), n)) = t + 1
      /\ \A k \in 1..(t + 1) : Append(Reverse(s), n)[k] = IF k <= t THEN Reverse(s)[k] ELSE n
  BY <1>1, <1>5
<1>7. \A k \in 1..(t + 1) : u[(t + 1 - k) + 1] = IF k <= t THEN Reverse(s)[k] ELSE n
  <2> SUFFICES ASSUME NEW k \in 1..(t + 1)
               PROVE  u[(t + 1 - k) + 1] = IF k <= t THEN Reverse(s)[k] ELSE n
    OBVIOUS
  <2>1. CASE k <= t
    <3>1. k \in 1..t
      BY <1>1, <2>1
    <3> QED BY <1>1, <1>3, <1>4, <2>1, <3>1
  <2>2. CASE ~(k <= t)
    <3>1. (t + 1 - k) + 1 = 1
      BY <1>1, <2>2
    <3> QED BY <1>1, <2>2, <3>1
  <2> QED BY <2>1, <2>2
<1>8. Reverse(u) = Append(Reverse(s), n)
  <2> DEFINE a == Append(Reverse(s), n)
  <2> HIDE DEF a
  <2>0. a \in Seq(Nat) /\ Len(a) = t + 1
    BY <1>6 DEF a
  <2>1. a = [k \in 1..(t + 1) |-> a[k]]
    BY <2>0
  <2>2. \A k \in 1..(t + 1) : a[k] = u[(t + 1 - k) + 1]
    BY <1>6, <1>7 DEF a
  <2>3. Reverse(u) = a
    BY <1>2, <2>1, <2>2
  <2> QED BY <2>3 DEF a
<1> QED BY <1>8 DEF u

(* Reversing twice changes nothing. *)
LEMMA ReverseTwice ==
    ASSUME NEW s \in Seq(Nat)
    PROVE  Reverse(Reverse(s)) = s /\ Len(Reverse(s)) = Len(s) /\ ToSet(Reverse(s)) = ToSet(s)
<1> DEFINE t == Len(s)
           r == Reverse(s)
<1>1. t \in Nat /\ \A k \in 1..t : s[k] \in Nat /\ (t - k) + 1 \in 1..t
  OBVIOUS
<1>2. r = [k \in 1..t |-> s[(t - k) + 1]]
  BY DEF Reverse
<1>3. r \in Seq(Nat) /\ Len(r) = t
  <2> HIDE DEF t, r
  <2> QED BY <1>1, <1>2
<1>4. Reverse(r) = [k \in 1..t |-> r[(t - k) + 1]]
  BY <1>3 DEF Reverse
<1> HIDE DEF r
<1>5. \A k \in 1..t : r[(t - k) + 1] = s[k]
  <2> SUFFICES ASSUME NEW k \in 1..t PROVE r[(t - k) + 1] = s[k]
    OBVIOUS
  <2>1. (t - ((t - k) + 1)) + 1 = k /\ (t - k) + 1 \in 1..t
    BY <1>1
  <2> QED BY <1>2, <2>1
<1>6. Reverse(r) = s
  BY <1>1, <1>4, <1>5
<1>7. ToSet(r) = ToSet(s)
  <2>1. DOMAIN r = 1..t /\ DOMAIN s = 1..t
    BY <1>2
  <2> HIDE DEF t
  <2>2. \A k \in 1..t : r[k] \in ToSet(s)
    BY <1>1, <1>2, <2>1 DEF ToSet
  <2>3. \A k \in 1..t : s[k] \in ToSet(r)
    BY <1>1, <1>5, <2>1 DEF ToSet
  <2>4. ToSet(r) \subseteq ToSet(s)
    BY <2>1, <2>2, Zenon DEF ToSet
  <2>5. ToSet(s) \subseteq ToSet(r)
    BY <2>1, <2>3, Zenon DEF ToSet
  <2> QED BY <2>4, <2>5
<1> QED BY <1>3, <1>6, <1>7 DEF r

-----------------------------------------------------------------------------
(* What the operations of the flash leave alone.                           *)

(* Where two flashes agree, their cells are of one kind. *)
LEMMA AgreeKind ==
    ASSUME NEW f, NEW g, NEW S, Agree(f, g, S)
    PROVE  \A y \in S : Kind(f, y) = Kind(g, y)
BY DEF Agree, Kind

(* Two flashes agree on every part of where they agree. *)
LEMMA AgreeSubset ==
    ASSUME NEW f, NEW g, NEW S, NEW T, Agree(f, g, S), T \subseteq S
    PROVE  Agree(f, g, T)
BY DEF Agree

(* An erasure blanks its sector and nothing else. *)
LEMMA ErasedIs ==
    ASSUME NEW f, NEW a
    PROVE  /\ \A S : (\A y \in S : Sector(y) # Sector(a)) => Agree(f, Erased(f, a), S)
           /\ \A y : Sector(y) = Sector(a) => Kind(Erased(f, a), y) = "blank"
<1> DEFINE g == Erased(f, a)
<1>1. DOMAIN g = {x \in DOMAIN f : Sector(x) # Sector(a)} /\ \A x \in DOMAIN g : g[x] = f[x]
  BY DEF Erased, Restrict
<1> HIDE DEF g
<1>2. \A S : (\A y \in S : Sector(y) # Sector(a)) => Agree(f, g, S)
  BY <1>1 DEF Agree
<1>3. \A y : Sector(y) = Sector(a) => Kind(g, y) = "blank"
  BY <1>1 DEF Kind
<1> QED BY <1>2, <1>3 DEF g

(* An operation cut short touches only its cells. *)
LEMMA SpoiltIs ==
    ASSUME NEW f, NEW a, NEW n, NEW k
    PROVE  /\ \A S : S \cap Span(a, n) = {} => Agree(f, Spoilt(f, a, n, k), S)
           /\ \A y \in Span(a, n) : Kind(Spoilt(f, a, n, k), y) = k
<1> DEFINE g == Spoilt(f, a, n, k)
<1>1. DOMAIN g = DOMAIN f \cup Span(a, n)
      /\ \A x \in DOMAIN g : g[x] = IF x \in Span(a, n) THEN Cell(k) ELSE f[x]
  BY DEF Spoilt
<1>2. Cell(k).k = k
  BY DEF Cell
<1> HIDE DEF g
<1>3. \A S : S \cap Span(a, n) = {} => Agree(f, g, S)
  BY <1>1 DEF Agree
<1>4. \A y \in Span(a, n) : Kind(g, y) = k
  BY <1>1, <1>2 DEF Kind
<1> QED BY <1>3, <1>4 DEF g

(* A write touches only its cells. *)
LEMMA FilledIs ==
    ASSUME NEW f, NEW a \in Nat, NEW n \in Nat, n > 0, NEW first, NEW g, g = Filled(f, a, n, first)
    PROVE  \A S : S \cap Span(a, n) = {} => Agree(f, g, S)
<1>1. a \notin Span(a + 1, n - 1) /\ Span(a + 1, n - 1) \subseteq Span(a, n) /\ a \in Span(a, n)
  BY DEF Span
<1>2. DOMAIN g = DOMAIN f \cup Span(a, n)
  BY DEF Filled
<1>3. \A x \in DOMAIN g : g[x] = CASE x = a -> first
                                   [] x \in Span(a + 1, n - 1) -> Cell("body")
                                   [] OTHER -> f[x]
  BY DEF Filled
<1>4. \A x \in DOMAIN f : x \notin Span(a, n) => g[x] = f[x]
  BY <1>1, <1>2, <1>3
<1> QED BY <1>2, <1>4 DEF Agree

(* The record, or the slot, that was written. *)
LEMMA FilledHolds ==
    ASSUME NEW f, NEW a \in Nat, NEW n \in Nat, n > 0, NEW first, NEW g, g = Filled(f, a, n, first)
    PROVE  /\ a \in DOMAIN g /\ g[a] = first
           /\ \A y \in Span(a + 1, n - 1) : Kind(g, y) = "body"
<1>1. a \notin Span(a + 1, n - 1) /\ Span(a + 1, n - 1) \subseteq Span(a, n) /\ a \in Span(a, n)
  BY DEF Span
<1>2. DOMAIN g = DOMAIN f \cup Span(a, n)
  BY DEF Filled
<1>3. \A x \in DOMAIN g : g[x] = CASE x = a -> first
                                   [] x \in Span(a + 1, n - 1) -> Cell("body")
                                   [] OTHER -> f[x]
  BY DEF Filled
<1>4. Cell("body").k = "body"
  BY DEF Cell
<1>5. g[a] = first
  BY <1>1, <1>2, <1>3
<1>6. \A x \in Span(a + 1, n - 1) : g[x] = Cell("body")
  BY <1>1, <1>2, <1>3
<1>7. \A y \in Span(a + 1, n - 1) : Kind(g, y) = "body"
  BY <1>1, <1>2, <1>4, <1>6 DEF Kind
<1> QED BY <1>1, <1>2, <1>5, <1>7

-----------------------------------------------------------------------------
(* The information area on the first lap.                                  *)

(* The slot behind those in use. *)
Free(f, l) == InfoBegin(l) + GoodSlots(f, l)

(* The slots in use are as many as one counts. *)
LEMMA GoodSlotsIs ==
    ASSUME NEW f, NEW l \in Logs, NEW n \in Nat, InfoBegin(l) + n <= InfoEnd(l),
           \A y \in InfoBegin(l) .. InfoBegin(l) + n - 1 : Kind(f, y) = "info",
           InfoBegin(l) + n < InfoEnd(l) => Kind(f, InfoBegin(l) + n) # "info"
    PROVE  GoodSlots(f, l) = n
<1>1. InfoBegin(l) \in Nat /\ InfoEnd(l) \in Nat
  BY AreaBounds
<1> DEFINE g == GoodSlots(f, l)
<1>2. /\ g \in Nat
      /\ g <= InfoEnd(l) - InfoBegin(l)
      /\ \A x \in InfoBegin(l) .. InfoBegin(l) + g - 1 : Kind(f, x) = "info"
      /\ InfoBegin(l) + g < InfoEnd(l) => Kind(f, InfoBegin(l) + g) # "info"
  BY GoodSlotsCount
<1> HIDE DEF g
<1>3. ~(g < n)
  <2> SUFFICES ASSUME g < n PROVE FALSE
    OBVIOUS
  <2>1. InfoBegin(l) + g \in InfoBegin(l) .. InfoBegin(l) + n - 1 /\ InfoBegin(l) + g < InfoEnd(l)
    BY <1>1, <1>2
  <2> QED BY <1>2, <2>1
<1>4. ~(n < g)
  <2> SUFFICES ASSUME n < g PROVE FALSE
    OBVIOUS
  <2>1. InfoBegin(l) + n \in InfoBegin(l) .. InfoBegin(l) + g - 1 /\ InfoBegin(l) + n < InfoEnd(l)
    BY <1>1, <1>2
  <2> QED BY <1>2, <2>1
<1> QED BY <1>2, <1>3, <1>4 DEF g

(* What the scan finds depends on the slots up to the first that is not    *)
(* in use.                                                                 *)
LEMMA FoundFrame ==
    ASSUME NEW f, NEW g, NEW l \in Logs, Agree(f, g, InfoBegin(l) .. Free(f, l) - 1),
           Free(f, l) < InfoEnd(l) => Kind(g, Free(f, l)) # "info"
    PROVE  GoodSlots(g, l) = GoodSlots(f, l) /\ Free(g, l) = Free(f, l) /\ Found(g, l) = Found(f, l)
<1>1. InfoBegin(l) \in Nat /\ InfoEnd(l) \in Nat
  BY AreaBounds
<1>2. /\ GoodSlots(f, l) \in Nat
      /\ GoodSlots(f, l) <= InfoEnd(l) - InfoBegin(l)
      /\ \A x \in InfoBegin(l) .. InfoBegin(l) + GoodSlots(f, l) - 1 : Kind(f, x) = "info"
  BY GoodSlotsCount
<1>3. \A x \in InfoBegin(l) .. InfoBegin(l) + GoodSlots(f, l) - 1 : Kind(g, x) = "info"
  <2>1. \A x \in InfoBegin(l) .. Free(f, l) - 1 : Kind(f, x) = Kind(g, x)
    BY AgreeKind
  <2>2. \A x \in InfoBegin(l) .. InfoBegin(l) + GoodSlots(f, l) - 1 : x \in InfoBegin(l) .. Free(f, l) - 1
    BY <1>1, <1>2 DEF Free
  <2> QED BY <1>2, <2>1, <2>2
<1>4. GoodSlots(g, l) = GoodSlots(f, l)
  BY <1>1, <1>2, <1>3, GoodSlotsIs DEF Free
<1>5. CASE GoodSlots(f, l) = 0
  BY <1>4, <1>5 DEF Found, Free
<1>6. CASE GoodSlots(f, l) # 0
  <2> DEFINE a == InfoBegin(l) + GoodSlots(f, l) - 1
  <2>1. a \in InfoBegin(l) .. Free(f, l) - 1
    BY <1>1, <1>2, <1>6 DEF Free
  <2>2. Kind(f, a) = "info"
    BY <1>2, <2>1 DEF Free
  <2>3. f[a] = g[a]
    BY <2>1, <2>2 DEF Agree, Kind
  <2>4. Found(f, l) = [total |-> f[a].total, n |-> f[a].n, addr |-> f[a].addr, size |-> f[a].size, sys |-> a]
    BY <1>6 DEF Found
  <2>5. Found(g, l) = [total |-> g[a].total, n |-> g[a].n, addr |-> g[a].addr, size |-> g[a].size, sys |-> a]
    BY <1>4, <1>6 DEF Found
  <2> QED BY <1>4, <2>3, <2>4, <2>5 DEF Free
<1> QED BY <1>5, <1>6

(* The free slot and those behind it in its sector are blank, the free one *)
(* torn at most until the start has looked at it; an empty log has used at *)
(* most the slot that a repair wrote.                                      *)
Slots(f, l, n, kinds) ==
    /\ Free(f, l) < InfoEnd(l)
    /\ \A y \in Free(f, l) + 1 .. InfoEnd(l) - 1 :
          Sector(y) = Sector(Free(f, l)) => Kind(f, y) = "blank"
    /\ Kind(f, Free(f, l)) \in kinds
    /\ Kind(f, Free(f, l)) = "torn" => GoodSlots(f, l) < n
    /\ Found(f, l).total = 0 =>
          /\ GoodSlots(f, l) <= 1
          /\ \A y \in Free(f, l) + 1 .. InfoEnd(l) - 1 : Kind(f, y) = "blank"

(* There is room for the saves that can still come. *)
Room(l, i) == End(l, i) + 2 * (MaxSaves - i.total) * SectorSize <= DataEnd(l)

(* The records of log l that i counts are there, their codes in 1..m. *)
Data(f, l, i, m) ==
    /\ Counts(l, i)
    /\ Chain(f, l, i, m)
    /\ Room(l, i)
    /\ i.total <= MaxSaves
    /\ DataBegin(l) <= End(l, i)

(* The place that a start has wiped to write back what it found. *)
Wiped(f, l, i) ==
    /\ \A y \in InfoBegin(l) .. InfoBegin(l) + SectorSize - 1 : Kind(f, y) = "blank"
    /\ i.total = 0 => \A y \in InfoBegin(l) .. InfoEnd(l) - 1 : Kind(f, y) = "blank"

(* The first lap: the bounds on saves keep both areas from being used      *)
(* twice, power does not fail during a repair, a torn slot shows its head  *)
(* and no write of a slot is found wrong.                                  *)
FirstLap ==
    /\ SectorSize >= 2
    /\ MaxSaves < InfoSectors * SectorSize
    /\ 2 * MaxSaves <= DataSectors
    /\ TornSlots \subseteq {"torn"}
    /\ "info" \notin BadAreas
    /\ BootCrashes = 0

(* The scan depends on the information area only. *)
LEMMA SlotsFrame ==
    ASSUME NEW f, NEW g, NEW l \in Logs, NEW n \in Nat, NEW u, "info" \notin u,
           Slots(f, l, n, u), Agree(f, g, InfoBegin(l) .. InfoEnd(l) - 1)
    PROVE  /\ GoodSlots(g, l) = GoodSlots(f, l) /\ Free(g, l) = Free(f, l) /\ Found(g, l) = Found(f, l)
           /\ Slots(g, l, n, u)
           /\ Kind(g, Free(f, l)) = Kind(f, Free(f, l))
<1>1. InfoBegin(l) \in Nat /\ InfoEnd(l) \in Nat /\ GoodSlots(f, l) \in Nat
  BY AreaBounds, GoodSlotsCount
<1>2. Free(f, l) \in Nat /\ Free(f, l) >= InfoBegin(l) /\ Free(f, l) < InfoEnd(l)
  BY <1>1 DEF Free, Slots
<1>3. \A y \in InfoBegin(l) .. InfoEnd(l) - 1 : Kind(f, y) = Kind(g, y)
  BY AgreeKind
<1>4. /\ Free(f, l) \in InfoBegin(l) .. InfoEnd(l) - 1
      /\ \A y \in Free(f, l) + 1 .. InfoEnd(l) - 1 : y \in InfoBegin(l) .. InfoEnd(l) - 1
      /\ \A y \in InfoBegin(l) .. Free(f, l) - 1 : y \in InfoBegin(l) .. InfoEnd(l) - 1
  BY <1>1, <1>2
<1>5. Agree(f, g, InfoBegin(l) .. Free(f, l) - 1)
  <2>1. InfoBegin(l) .. Free(f, l) - 1 \subseteq InfoBegin(l) .. InfoEnd(l) - 1
    BY <1>1, <1>2
  <2> QED BY <2>1, AgreeSubset
<1>6. Kind(g, Free(f, l)) = Kind(f, Free(f, l))
  BY <1>3, <1>4
<1>7. Kind(g, Free(f, l)) # "info"
  BY <1>6 DEF Slots
<1>8. GoodSlots(g, l) = GoodSlots(f, l) /\ Free(g, l) = Free(f, l) /\ Found(g, l) = Found(f, l)
  BY <1>5, <1>7, FoundFrame
<1>9. Slots(g, l, n, u)
  BY <1>3, <1>4, <1>6, <1>8 DEF Slots
<1> QED BY <1>6, <1>8, <1>9

(* The records depend on the written part of the data area only. *)
LEMMA DataFrame ==
    ASSUME NEW f, NEW g, NEW l \in Logs, NEW i, NEW j, NEW m \in Nat, NEW n \in Nat, m <= n,
           Data(f, l, i, m), SameNewest(i, j), Agree(f, g, DataBegin(l) .. End(l, i) - 1)
    PROVE  Data(g, l, j, n) /\ End(l, j) = End(l, i) /\ AllCodes(g, j) = AllCodes(f, i)
<1>1. Counts(l, j) /\ End(l, j) = End(l, i) /\ Chain(g, l, j, n) /\ AllCodes(g, j) = AllCodes(f, i)
  BY ChainFrame DEF Data
<1>2. j.total = i.total
  BY DEF SameNewest
<1> QED BY <1>1, <1>2 DEF Data, Room

(* Information names its own newest record. *)
LEMMA SameSelf == \A i : SameNewest(i, i)
BY DEF SameNewest

(* Nothing that is stored in log l changes when nothing changes before the *)
(* end of its newest record.                                               *)
LEMMA StoreFrame ==
    ASSUME NEW f, NEW g, NEW l \in Logs, NEW n \in Nat, NEW u, "info" \notin u, NEW m \in Nat,
           NEW k \in Nat, m <= k, Slots(f, l, n, u), Data(f, l, Found(f, l), m),
           Agree(f, g, InfoBegin(l) .. End(l, Found(f, l)) - 1)
    PROVE  /\ GoodSlots(g, l) = GoodSlots(f, l) /\ Free(g, l) = Free(f, l) /\ Found(g, l) = Found(f, l)
           /\ Slots(g, l, n, u)
           /\ Kind(g, Free(f, l)) = Kind(f, Free(f, l))
           /\ Data(g, l, Found(g, l), k)
           /\ AllCodes(g, Found(g, l)) = AllCodes(f, Found(f, l))
<1> DEFINE z == End(l, Found(f, l))
<1>1. InfoBegin(l) \in Nat /\ InfoEnd(l) \in Nat /\ DataBegin(l) = InfoEnd(l) /\ InfoBegin(l) <= InfoEnd(l)
  BY AreaBounds
<1>2. z \in Nat /\ DataBegin(l) <= z
  BY DEF Data, Counts
<1>3. Agree(f, g, InfoBegin(l) .. InfoEnd(l) - 1) /\ Agree(f, g, DataBegin(l) .. z - 1)
  <2>1. \A y \in InfoBegin(l) .. InfoEnd(l) - 1 : y \in InfoBegin(l) .. z - 1
    BY <1>1, <1>2
  <2>2. \A y \in DataBegin(l) .. z - 1 : y \in InfoBegin(l) .. z - 1
    BY <1>1, <1>2
  <2> QED BY <2>1, <2>2 DEF Agree
<1>4. /\ GoodSlots(g, l) = GoodSlots(f, l) /\ Free(g, l) = Free(f, l) /\ Found(g, l) = Found(f, l)
      /\ Slots(g, l, n, u) /\ Kind(g, Free(f, l)) = Kind(f, Free(f, l))
  BY <1>3, SlotsFrame
<1>5. Data(g, l, Found(f, l), k) /\ AllCodes(g, Found(f, l)) = AllCodes(f, Found(f, l))
  BY <1>3, SameSelf, DataFrame
<1> QED BY <1>4, <1>5

-----------------------------------------------------------------------------
(* The invariant of the first lap.                                         *)

Repairing(l) == boot.pc = "write" /\ boot.l = l

(* What a start would find of log l, or has found and is about to write    *)
(* back.                                                                   *)
Current(l) == IF Repairing(l) THEN info[l] ELSE Found(flash, l)

(* The start has not read the slots of log l yet. *)
Unseen(l) == ~On /\ ~(boot.pc # "off" /\ boot.l = "warn" /\ l = "opt")

FreeKinds(l) == IF Unseen(l) THEN {"blank", "torn"} ELSE {"blank"}

(* The saves whose records may be stored. *)
Known == IF save.pc = "idle" \/ save.ok THEN begun ELSE begun - 1

SlotPart(l) ==
    IF Repairing(l) THEN Wiped(flash, l, info[l]) /\ begun > 0
    ELSE Slots(flash, l, begun, FreeKinds(l)) /\ GoodSlots(flash, l) <= Known

DataPart(l) == Data(flash, l, Current(l), Known)

(* OptLogInfo says what the flash says, *)
Settled(f, l, i) == SameNewest(Found(f, l), i) /\ (i.total > 0 => i.sys = Found(f, l).sys)

(* or is being brought up to the record that is being saved. *)
Updating(l) ==
    LET old == Found(flash, l) IN
    /\ info[l].addr = save.addr
    /\ save.pc = "size" => (old.total > 0 => info[l].size = old.size)
    /\ save.pc # "size" => info[l].size = save.size
    /\ save.pc \in {"size", "total"} =>
          info[l].total = old.total /\ (old.total > 0 => info[l].sys = old.sys)
    /\ save.pc \in {"slotahead", "slot", "slot2"} => info[l].total = old.total + 1
    /\ save.pc \in {"slotahead", "slot"} =>
          /\ save.slot = IF old.total = 0 THEN InfoBegin(l) ELSE Free(flash, l)
          /\ info[l].sys = save.slot
    /\ save.pc = "slot" =>
          \A y \in save.slot + 1 .. InfoEnd(l) - 1 :
              Sector(y) = Sector(save.slot + 1) => Kind(flash, y) = "blank"
    /\ save.pc = "slot2" =>
          old.total = 0 /\ GoodSlots(flash, l) = 1 /\ save.slot = Free(flash, l)

InUpdate(l) == save.l = l /\ save.pc \in {"size", "total", "slotahead", "slot", "slot2"}

RamPart(l) == ~Unseen(l) => IF InUpdate(l) THEN Updating(l) ELSE Settled(flash, l, info[l])

RepairPart(l) == boot.pc = "erase" /\ boot.l = l =>
    info[l] = Found(flash, l) /\ Kind(flash, Free(flash, l)) = "torn"

(* The new record is put behind the newest one. *)
Writing(l) ==
    LET old == Found(flash, l) IN
    /\ save.size \in 1..SectorSize
    /\ End(l, old) <= save.addr
    /\ save.addr <= End(l, old) + SectorSize
    /\ save.pc \in {"ahead", "probe"} => save.addr = End(l, old)
    /\ save.pc \notin {"ahead", "probe", "write"} =>
         /\ Read1Log(flash, save)
         /\ flash[save.addr].c = save.c
         /\ old.total > 0 => flash[save.addr].addr = old.addr /\ flash[save.addr].size = old.size

WritePart(l) == save.l = l /\ save.pc \notin {"idle", "post"} => Writing(l)

OkPart(l) == save.l = l /\ save.ok =>
    Found(flash, l).total > 0 /\ HeadOf(flash, Found(flash, l)).c = save.c

LogInv(l) ==
    SlotPart(l) /\ DataPart(l) /\ RamPart(l) /\ RepairPart(l) /\ WritePart(l) /\ OkPart(l)

LapInv ==
    /\ comm_stat = 0
    /\ boot.try = 0
    /\ On \/ save = NoSave
    /\ save.ok => save.pc = "post"
    /\ save.pc # "idle" => save.c = begun /\ begun > 0
    /\ \A l \in Logs : LogInv(l)

(* The records of log l are what they were. *)
KeptAt(l) == AllCodes(flash, Current(l))' = AllCodes(flash, Current(l))

(* While saves are left there are two more sectors behind the records. *)
LEMMA RoomFacts ==
    ASSUME NEW f, NEW l \in Logs, NEW i, NEW m, Data(f, l, i, m)
    PROVE  /\ End(l, i) \in Nat /\ DataBegin(l) <= End(l, i) /\ End(l, i) <= DataEnd(l)
           /\ (\E k \in Nat : i.total + 1 + k = MaxSaves) => End(l, i) + 2 * SectorSize <= DataEnd(l)
<1>1. /\ i.total \in Nat /\ End(l, i) \in Nat /\ i.total <= MaxSaves /\ DataBegin(l) <= End(l, i)
      /\ End(l, i) + 2 * (MaxSaves - i.total) * SectorSize <= DataEnd(l)
  BY DEF Data, Counts, Room
<1>2. DataEnd(l) \in Nat /\ SectorSize \in Nat /\ MaxSaves \in Nat
  BY AreaBounds, FlashLogAssumption
<1> DEFINE d == MaxSaves - i.total
<1>3. d \in Nat
  BY <1>1, <1>2
<1>4. ASSUME NEW k \in Nat, i.total + 1 + k = MaxSaves PROVE d >= 1
  BY <1>1, <1>2, <1>4
<1>5. End(l, i) + 2 * d * SectorSize <= DataEnd(l)
  BY <1>1
<1> HIDE DEF d
<1>6. 2 * d * SectorSize \in Nat /\ (d >= 1 => 2 * d * SectorSize >= 2 * SectorSize)
  <2>1. d * SectorSize \in Nat /\ 2 * d * SectorSize = 2 * (d * SectorSize)
    BY <1>2, <1>3
  <2>2. ASSUME d >= 1 PROVE d * SectorSize >= SectorSize
    <3>1. d - 1 \in Nat /\ (d - 1) * SectorSize \in Nat /\ d * SectorSize = (d - 1) * SectorSize + SectorSize
      BY <1>2, <1>3, <2>2
    <3> QED BY <1>2, <2>1, <3>1
  <2> QED BY <1>2, <2>1, <2>2
<1>7. End(l, i) <= DataEnd(l)
  BY <1>1, <1>2, <1>5, <1>6
<1>8. d >= 1 => End(l, i) + 2 * SectorSize <= DataEnd(l)
  BY <1>1, <1>2, <1>5, <1>6
<1> QED BY <1>1, <1>4, <1>7, <1>8

Away(l) == save.l # l \/ save.pc = "idle"

(* While the program runs there is no repair. *)
LEMMA OnFacts ==
    ASSUME On, NEW l
    PROVE  ~Repairing(l) /\ ~Unseen(l) /\ FreeKinds(l) = {"blank"} /\ Current(l) = Found(flash, l)
BY DEF On, Repairing, Unseen, Current, FreeKinds

(* A step that changes nothing before the end of log l's newest record     *)
(* keeps what is stored of it.                                             *)
LEMMA LogFrame ==
    ASSUME NEW l \in Logs, SlotPart(l), DataPart(l), ~Repairing(l), ~Repairing(l)',
           Agree(flash, flash', InfoBegin(l) .. End(l, Found(flash, l)) - 1),
           Known \in Nat, Known' \in Nat, Known <= Known', begun \in Nat, begun' \in Nat, begun <= begun',
           FreeKinds(l) \subseteq FreeKinds(l)'
    PROVE  /\ SlotPart(l)' /\ DataPart(l)' /\ KeptAt(l)
           /\ Found(flash', l) = Found(flash, l) /\ GoodSlots(flash', l) = GoodSlots(flash, l)
           /\ Free(flash', l) = Free(flash, l)
           /\ Kind(flash', Free(flash, l)) = Kind(flash, Free(flash, l))
<1>1. Current(l) = Found(flash, l) /\ Current(l)' = Found(flash', l)
  BY DEF Current
<1>2. Slots(flash, l, begun, FreeKinds(l)) /\ GoodSlots(flash, l) <= Known
  BY DEF SlotPart
<1>3. Data(flash, l, Found(flash, l), Known)
  BY <1>1 DEF DataPart
<1>4. "info" \notin FreeKinds(l)
  BY DEF FreeKinds
<1> DEFINE u == FreeKinds(l)
<1> HIDE DEF u
<1>5. "info" \notin u /\ Slots(flash, l, begun, u)
  BY <1>2, <1>4 DEF u
<1>6. /\ GoodSlots(flash', l) = GoodSlots(flash, l) /\ Free(flash', l) = Free(flash, l)
      /\ Found(flash', l) = Found(flash, l) /\ Slots(flash', l, begun, u)
      /\ Kind(flash', Free(flash, l)) = Kind(flash, Free(flash, l))
      /\ Data(flash', l, Found(flash', l), Known')
      /\ AllCodes(flash', Found(flash', l)) = AllCodes(flash, Found(flash, l))
  BY <1>3, <1>5, StoreFrame
<1>7. GoodSlots(flash', l) \in Nat
  BY GoodSlotsCount
<1>8. Slots(flash', l, begun', FreeKinds(l)')
  BY <1>6, <1>7 DEF Slots, u
<1> QED BY <1>1, <1>2, <1>6, <1>7, <1>8 DEF SlotPart, DataPart, KeptAt

(* A save of one log leaves the other as it is. *)
LEMMA AwayLog ==
    ASSUME NEW l \in Logs, LogInv(l), On, On', Away(l), Away(l)', info'[l] = info[l],
           Agree(flash, flash', InfoBegin(l) .. DataEnd(l) - 1),
           Known \in Nat, Known' \in Nat, Known <= Known', begun \in Nat, begun' \in Nat, begun <= begun',
           save.ok => save.pc = "post", save'.ok => save'.pc = "post"
    PROVE  LogInv(l)' /\ KeptAt(l)
<1>1. /\ ~Repairing(l) /\ ~Unseen(l) /\ FreeKinds(l) = {"blank"}
      /\ ~Repairing(l)' /\ ~Unseen(l)' /\ FreeKinds(l)' = {"blank"}
  BY DEF On, Repairing, Unseen, FreeKinds
<1>2. Data(flash, l, Found(flash, l), Known)
  BY <1>1, OnFacts DEF LogInv, DataPart
<1>3. Agree(flash, flash', InfoBegin(l) .. End(l, Found(flash, l)) - 1)
  <2>1. /\ End(l, Found(flash, l)) \in Nat /\ End(l, Found(flash, l)) <= DataEnd(l)
        /\ InfoBegin(l) \in Nat /\ DataEnd(l) \in Nat
    BY <1>2, RoomFacts, AreaBounds
  <2>2. InfoBegin(l) .. End(l, Found(flash, l)) - 1 \subseteq InfoBegin(l) .. DataEnd(l) - 1
    BY <2>1
  <2> QED BY <2>2, AgreeSubset
<1>4. /\ SlotPart(l)' /\ DataPart(l)' /\ KeptAt(l) /\ Found(flash', l) = Found(flash, l)
  BY <1>1, <1>3, LogFrame DEF LogInv
<1>5. ~InUpdate(l) /\ ~InUpdate(l)'
  BY DEF Away, InUpdate
<1>6. RamPart(l)'
  <2>1. Settled(flash, l, info[l])
    BY <1>1, <1>5 DEF LogInv, RamPart
  <2>2. Settled(flash', l, info'[l])
    BY <1>4, <2>1 DEF Settled
  <2> QED BY <1>5, <2>2 DEF RamPart
<1>7. RepairPart(l)' /\ WritePart(l)' /\ OkPart(l)'
  BY DEF On, Away, RepairPart, WritePart, OkPart
<1> QED BY <1>4, <1>6, <1>7 DEF LogInv

-----------------------------------------------------------------------------
(* Where a save may change the flash.                                      *)

(* A sector of one log holds no address of the other. *)
LEMMA SectorOfLog ==
    ASSUME NEW l \in Logs, NEW k \in Logs, k # l, NEW a \in Nat, InfoBegin(l) <= a, a < DataEnd(l)
    PROVE  \A y \in InfoBegin(k) .. DataEnd(k) - 1 : Sector(y) # Sector(a) /\ y # a
<1>1. /\ DataEnd("opt") \in Nat /\ Aligned(DataEnd("opt")) /\ InfoBegin("warn") = DataEnd("opt")
      /\ InfoBegin(k) \in Nat /\ DataEnd(k) \in Nat
  BY Areas DEF Logs
<1> SUFFICES ASSUME NEW y \in InfoBegin(k) .. DataEnd(k) - 1 PROVE Sector(y) # Sector(a) /\ y # a
  OBVIOUS
<1>2. y \in Nat /\ Sector(y) \in Nat /\ Sector(a) \in Nat /\ Sector(DataEnd("opt")) \in Nat
  BY <1>1, SectorBounds
<1>3. CASE l = "opt" /\ k = "warn"
  <2>1. a < DataEnd("opt") /\ DataEnd("opt") <= y
    BY <1>1, <1>3
  <2>2. Sector(a) < Sector(DataEnd("opt")) /\ Sector(DataEnd("opt")) <= Sector(y)
    BY <1>1, <1>2, <2>1, SectorOrder
  <2> QED BY <1>2, <2>1, <2>2, <1>1
<1>4. CASE l = "warn" /\ k = "opt"
  <2>1. y < DataEnd("opt") /\ DataEnd("opt") <= a
    BY <1>1, <1>4
  <2>2. Sector(y) < Sector(DataEnd("opt")) /\ Sector(DataEnd("opt")) <= Sector(a)
    BY <1>1, <1>2, <2>1, SectorOrder
  <2> QED BY <1>2, <2>1, <2>2, <1>1
<1> QED BY <1>3, <1>4 DEF Logs

(* The addresses of a sector. *)
LEMMA SectorSpan ==
    ASSUME NEW a \in Nat
    PROVE  \A y \in Span(Sector(a) * SectorSize, SectorSize) : Sector(y) = Sector(a)
<1> SUFFICES ASSUME NEW y \in Span(Sector(a) * SectorSize, SectorSize) PROVE Sector(y) = Sector(a)
  OBVIOUS
<1> DEFINE s == Sector(a)
<1>1. s \in Nat /\ s * SectorSize \in Nat
  BY SectorBounds, Multiples
<1>2. y \in Nat /\ s * SectorSize <= y /\ y < s * SectorSize + SectorSize
  BY <1>1, Multiples DEF Span
<1>3. Sector(y) \in Nat /\ Sector(y) * SectorSize <= y /\ y < Sector(y) * SectorSize + SectorSize
  BY <1>2, SectorBounds
<1>4. Sector(y) * SectorSize \in Nat
  BY <1>3, Multiples
<1> HIDE DEF s
<1>5. ~(Sector(y) < s)
  BY <1>1, <1>2, <1>3, <1>4, Multiples
<1>6. ~(s < Sector(y))
  BY <1>1, <1>2, <1>3, <1>4, Multiples
<1> QED BY <1>1, <1>3, <1>5, <1>6 DEF s

(* f and g differ at most in the sector of address a. *)
InSector(f, g, a) == Agree(f, g, {y \in Nat : Sector(y) # Sector(a)})

(* f and g differ at most at n addresses from a on. *)
InSpan(f, g, a, n) == Agree(f, g, {y \in Nat : y \notin Span(a, n)})

(* An erasure, done or begun, changes one sector. *)
LEMMA ErasureStays ==
    ASSUME NEW f, NEW a \in Nat
    PROVE  /\ InSector(f, f, a)
           /\ InSector(f, Erased(f, a), a)
           /\ InSector(f, Spoilt(f, Sector(a) * SectorSize, SectorSize, "torn"), a)
<1> DEFINE S == {y \in Nat : Sector(y) # Sector(a)}
<1>1. Agree(f, f, S)
  BY DEF Agree
<1>2. Agree(f, Erased(f, a), S)
  BY ErasedIs
<1>3. S \cap Span(Sector(a) * SectorSize, SectorSize) = {}
  BY SectorSpan
<1>4. Agree(f, Spoilt(f, Sector(a) * SectorSize, SectorSize, "torn"), S)
  BY <1>3, SpoiltIs
<1> QED BY <1>1, <1>2, <1>4 DEF InSector

(* A write, whole or cut short, stays within its cells. *)
LEMMA WriteStays ==
    ASSUME NEW f, NEW a \in Nat, NEW n \in Nat, n > 0, NEW first, NEW k
    PROVE  /\ InSpan(f, Filled(f, a, n, first), a, n)
           /\ InSpan(f, Spoilt(f, a, n, k), a, n)
<1> DEFINE S == {y \in Nat : y \notin Span(a, n)}
<1>1. S \cap Span(a, n) = {}
  OBVIOUS
<1>2. Agree(f, Filled(f, a, n, first), S) /\ Agree(f, Spoilt(f, a, n, k), S)
  BY <1>1, FilledIs, SpoiltIs
<1> QED BY <1>2 DEF InSpan

(* What holds of the log that is being saved to. *)
SaveFacts(l, old) ==
    /\ l \in Logs /\ save.l = l /\ old = Found(flash, l)
    /\ begun \in Nat /\ begun > 0 /\ begun <= MaxSaves /\ save.c = begun /\ ~save.ok /\ Known = begun - 1
    /\ Slots(flash, l, begun, {"blank"}) /\ GoodSlots(flash, l) \in Nat /\ GoodSlots(flash, l) <= begun - 1
    /\ Free(flash, l) \in Nat /\ InfoBegin(l) <= Free(flash, l) /\ Free(flash, l) + 1 < InfoEnd(l)
    /\ Data(flash, l, old, begun - 1)
    /\ old.total \in Nat /\ old.total + 1 <= begun
    /\ End(l, old) \in Nat /\ DataBegin(l) <= End(l, old) /\ End(l, old) + 2 * SectorSize <= DataEnd(l)
    /\ Writing(l)
    /\ save.addr \in Nat /\ save.size \in 1..SectorSize
    /\ End(l, old) <= save.addr /\ save.addr <= End(l, old) + SectorSize
    /\ IF InUpdate(l) THEN Updating(l) ELSE Settled(flash, l, info[l])

(* What a save under way can rely on. *)
LEMMA SaveHolds ==
    ASSUME FirstLap, TypeInv, LapInv, On, save.pc \notin {"idle", "post"}
    PROVE  SaveFacts(save.l, Found(flash, save.l))
<1> DEFINE l == save.l
           old == Found(flash, l)
<1>1. l \in Logs /\ save.addr \in Nat /\ LogInv(l)
  BY SavePlaceFacts DEF LapInv
<1>2. begun \in Nat /\ begun > 0 /\ begun <= MaxSaves /\ save.c = begun /\ ~save.ok /\ Known = begun - 1
      /\ MaxSaves \in Nat
  BY FlashLogAssumption DEF TypeInv, LapInv, Known
<1>3. ~Repairing(l) /\ ~Unseen(l) /\ FreeKinds(l) = {"blank"} /\ Current(l) = old
  BY OnFacts
<1>4. Slots(flash, l, begun, {"blank"}) /\ GoodSlots(flash, l) \in Nat /\ GoodSlots(flash, l) <= begun - 1
  BY <1>1, <1>2, <1>3, GoodSlotsCount DEF LogInv, SlotPart
<1>5. Data(flash, l, old, begun - 1)
  BY <1>1, <1>2, <1>3 DEF LogInv, DataPart
<1>6. Writing(l)
  BY <1>1 DEF LogInv, WritePart
<1>7. IF InUpdate(l) THEN Updating(l) ELSE Settled(flash, l, info[l])
  BY <1>1, <1>3 DEF LogInv, RamPart
<1>8. Free(flash, l) \in Nat /\ InfoBegin(l) <= Free(flash, l) /\ Free(flash, l) + 1 < InfoEnd(l)
  <2>1. InfoBegin(l) \in Nat /\ InfoEnd(l) = InfoBegin(l) + InfoSectors * SectorSize
        /\ InfoSectors * SectorSize \in Nat
    BY <1>1, AreaBounds, FlashLogAssumption DEF InfoEnd, InfoBegin
  <2>2. MaxSaves < InfoSectors * SectorSize
    BY DEF FirstLap
  <2> QED BY <1>2, <1>4, <2>1, <2>2 DEF Free
<1>9. old.total \in Nat /\ old.total + 1 <= begun
  <2>1. Counted \in Nat /\ old.total \in 0..Counted /\ info[l].total \in 0..Counted
    <3>1. Counted \in Nat /\ FlashType(flash, Counted) /\ info[l] \in InfoType(Counted)
      BY <1>1 DEF TypeInv
    <3>2. old \in InfoType(Counted)
      BY <1>1, <3>1, FoundTyped
    <3> QED BY <3>1, <3>2 DEF InfoType
  <2>2. CASE save.pc \in Early
    BY <1>2, <2>1, <2>2 DEF Counted
  <2>3. CASE save.pc \notin Early
    <3>1. save.pc \in {"slotahead", "slot", "slot2"}
      BY <2>3 DEF TypeInv, SaveType, Early
    <3>2. info[l].total = old.total + 1
      BY <1>7, <3>1 DEF InUpdate, Updating
    <3> QED BY <1>2, <2>1, <2>3, <3>2 DEF Counted
  <2> QED BY <2>2, <2>3
<1>10. End(l, old) \in Nat /\ DataBegin(l) <= End(l, old) /\ End(l, old) + 2 * SectorSize <= DataEnd(l)
  <2>1. MaxSaves - old.total - 1 \in Nat /\ old.total + 1 + (MaxSaves - old.total - 1) = MaxSaves
    BY <1>2, <1>9
  <2> HIDE DEF old
  <2>2. \E k \in Nat : old.total + 1 + k = MaxSaves
    BY <2>1
  <2> QED BY <1>1, <1>5, <2>2, RoomFacts
<1>11. save.size \in 1..SectorSize /\ End(l, old) <= save.addr /\ save.addr <= End(l, old) + SectorSize
  BY <1>6 DEF Writing
<1> QED BY <1>1, <1>2, <1>4, <1>5, <1>6, <1>7, <1>8, <1>9, <1>10, <1>11 DEF SaveFacts

(* A change in a sector behind the newest record of log l. *)
LEMMA BehindSector ==
    ASSUME NEW l \in Logs, NEW f, NEW g, NEW z \in Nat, NEW c \in Nat, NEW a \in Nat,
           z <= c, InfoBegin(l) <= c, Sector(c) < Sector(a), a < DataEnd(l), InSector(f, g, a)
    PROVE  /\ Agree(f, g, InfoBegin(l) .. z - 1)
           /\ \A k \in Logs : k # l => Agree(f, g, InfoBegin(k) .. DataEnd(k) - 1)
<1>1. InfoBegin(l) \in Nat /\ Sector(a) \in Nat /\ Sector(c) \in Nat
  BY AreaBounds, SectorBounds
<1>2. InfoBegin(l) .. z - 1 \subseteq {y \in Nat : Sector(y) # Sector(a)}
  <2> SUFFICES ASSUME NEW y \in InfoBegin(l) .. z - 1
               PROVE  y \in Nat /\ Sector(y) # Sector(a)
    OBVIOUS
  <2>1. y \in Nat /\ y <= c
    BY <1>1
  <2>2. Sector(y) \in Nat /\ Sector(y) <= Sector(c)
    BY <2>1, SectorBounds, SectorOrder
  <2> QED BY <1>1, <2>1, <2>2
<1>3. InfoBegin(l) <= a
  <2>1. ~(a <= c)
    BY <1>1, SectorOrder
  <2> QED BY <1>1, <2>1
<1>4. ASSUME NEW k \in Logs, k # l
      PROVE  InfoBegin(k) .. DataEnd(k) - 1 \subseteq {y \in Nat : Sector(y) # Sector(a)}
  <2>1. \A y \in InfoBegin(k) .. DataEnd(k) - 1 : Sector(y) # Sector(a)
    BY <1>3, <1>4, SectorOfLog
  <2>2. InfoBegin(k) \in Nat /\ DataEnd(k) \in Nat
    BY AreaBounds
  <2> QED BY <2>1, <2>2
<1>5. Agree(f, g, {y \in Nat : Sector(y) # Sector(a)})
  BY DEF InSector
<1> QED BY <1>2, <1>4, <1>5, AgreeSubset

(* A change at addresses behind the newest record of log l. *)
LEMMA BehindSpan ==
    ASSUME NEW l \in Logs, NEW f, NEW g, NEW z \in Nat, NEW a \in Nat, NEW n \in Nat,
           z <= a, InfoBegin(l) <= a, a + n <= DataEnd(l), InSpan(f, g, a, n)
    PROVE  /\ Agree(f, g, InfoBegin(l) .. z - 1)
           /\ \A k \in Logs : k # l => Agree(f, g, InfoBegin(k) .. DataEnd(k) - 1)
<1>1. InfoBegin(l) \in Nat /\ DataEnd(l) \in Nat
  BY AreaBounds
<1>2. InfoBegin(l) .. z - 1 \subseteq {y \in Nat : y \notin Span(a, n)}
  BY <1>1 DEF Span
<1>3. ASSUME NEW k \in Logs, k # l
      PROVE  InfoBegin(k) .. DataEnd(k) - 1 \subseteq {y \in Nat : y \notin Span(a, n)}
  <2> SUFFICES ASSUME NEW y \in InfoBegin(k) .. DataEnd(k) - 1, y \in Span(a, n) PROVE FALSE
    BY <1>1, AreaBounds
  <2>1. y \in Nat /\ InfoBegin(l) <= y /\ y < DataEnd(l)
    BY <1>1 DEF Span
  <2> QED BY <1>3, <2>1, SectorOfLog
<1>4. Agree(f, g, {y \in Nat : y \notin Span(a, n)})
  BY DEF InSpan
<1> QED BY <1>2, <1>3, <1>4, AgreeSubset

-----------------------------------------------------------------------------
(* The steps of a save.                                                    *)

(* A step of the save that changes the flash at most behind the newest     *)
(* record keeps everything but what it does to its own record.             *)
LEMMA DataStep ==
    ASSUME FirstLap, TypeInv, LapInv, On, boot' = boot, save.pc \notin {"idle", "post"},
           save'.l = save.l, begun' = begun, ~save'.ok, save'.pc # "idle",
           \A k \in Logs : k # save.l => info'[k] = info[k],
           Agree(flash, flash', InfoBegin(save.l) .. End(save.l, Found(flash, save.l)) - 1),
           \A k \in Logs : k # save.l => Agree(flash, flash', InfoBegin(k) .. DataEnd(k) - 1)
    PROVE  /\ \A k \in Logs : k # save.l => LogInv(k)'
           /\ \A k \in Logs : KeptAt(k)
           /\ SlotPart(save.l)' /\ DataPart(save.l)' /\ RepairPart(save.l)' /\ OkPart(save.l)'
           /\ Found(flash', save.l) = Found(flash, save.l)
           /\ GoodSlots(flash', save.l) = GoodSlots(flash, save.l)
           /\ Free(flash', save.l) = Free(flash, save.l)
           /\ On' /\ ~Unseen(save.l)'
<1> DEFINE l == save.l
           old == Found(flash, l)
<1>1. SaveFacts(l, old)
  BY SaveHolds
<1>2. l \in Logs /\ begun \in Nat /\ Known = begun - 1 /\ Known \in Nat
  BY <1>1 DEF SaveFacts
<1>3. Known' = Known /\ On'
  BY <1>1 DEF Known, On, SaveFacts
<1>4. ASSUME NEW k \in Logs, k # l PROVE LogInv(k)' /\ KeptAt(k)
  <2>1. LogInv(k) /\ Away(k) /\ Away(k)'
    BY <1>4 DEF LapInv, Away
  <2>2. save.ok => save.pc = "post"
    BY DEF LapInv
  <2> QED BY <1>2, <1>3, <1>4, <2>1, <2>2, AwayLog
<1>5. LogInv(l)
  BY <1>2 DEF LapInv
<1>6. ~Repairing(l) /\ ~Repairing(l)' /\ FreeKinds(l)' = FreeKinds(l) /\ ~Unseen(l)'
  BY <1>3 DEF On, Repairing, FreeKinds, Unseen
<1>7. /\ SlotPart(l)' /\ DataPart(l)' /\ KeptAt(l)
      /\ Found(flash', l) = Found(flash, l) /\ GoodSlots(flash', l) = GoodSlots(flash, l)
      /\ Free(flash', l) = Free(flash, l)
  BY <1>2, <1>3, <1>5, <1>6, LogFrame DEF LogInv
<1>8. RepairPart(l)' /\ OkPart(l)'
  BY <1>3 DEF RepairPart, OkPart, On
<1> QED BY <1>3, <1>4, <1>6, <1>7, <1>8

(* What is left to show of such a step. *)
LEMMA DataStepEnds ==
    ASSUME TypeInv, LapInv, On, boot' = boot, comm_stat' = comm_stat, save.pc \notin {"idle", "post"},
           save'.l = save.l, begun' = begun, ~save'.ok, save'.pc # "idle", save'.c = save.c,
           \A k \in Logs : k # save.l => LogInv(k)', LogInv(save.l)'
    PROVE  LapInv'
<1>1. save.l \in Logs
  BY SavePlaceFacts
<1>2. \A l \in Logs : LogInv(l)'
  BY <1>1
<1>3. comm_stat' = 0 /\ boot'.try = 0 /\ On' /\ (save'.pc # "idle" => save'.c = begun' /\ begun' > 0)
  BY DEF LapInv, On
<1> QED BY <1>2, <1>3 DEF LapInv

(* Erasing ahead (lines 356-360) meets no record. *)
LEMMA LapEraseAhead ==
    ASSUME FirstLap, TypeInv, LapInv, EraseAhead
    PROVE  LapInv' /\ \A k \in Logs : KeptAt(k)
<1> DEFINE l == save.l
           old == Found(flash, l)
           a == save.addr + save.size
<1>0. /\ On /\ save.pc = "ahead" /\ save' = [save EXCEPT !.pc = "probe"]
      /\ flash' = (IF Sector(a) # Sector(save.addr) THEN Erased(flash, a) ELSE flash)
      /\ info' = info /\ boot' = boot /\ begun' = begun /\ comm_stat' = comm_stat
  BY DEF EraseAhead, At
<1>1. SaveFacts(l, old)
  BY <1>0, SaveHolds
<1>2. /\ save'.pc = "probe" /\ save'.l = l /\ save'.size = save.size /\ save'.addr = save.addr
      /\ save'.c = save.c /\ ~save'.ok
  BY <1>0, <1>1 DEF TypeInv, SaveType, SaveFacts
<1>3. /\ Agree(flash, flash', InfoBegin(l) .. End(l, old) - 1)
      /\ \A k \in Logs : k # l => Agree(flash, flash', InfoBegin(k) .. DataEnd(k) - 1)
  <2>1. CASE Sector(a) = Sector(save.addr)
    <3>1. flash' = flash
      BY <1>0, <2>1
    <3> QED BY <3>1 DEF Agree
  <2>2. CASE Sector(a) # Sector(save.addr)
    <3>1. /\ l \in Logs /\ save.addr \in Nat /\ save.size \in Nat /\ End(l, old) \in Nat
          /\ SectorSize \in Nat /\ InfoBegin(l) \in Nat /\ DataBegin(l) \in Nat
          /\ InfoBegin(l) <= DataBegin(l) /\ SectorSize > 0 /\ DataEnd(l) \in Nat
      BY <1>1, AreaBounds DEF SaveFacts
    <3>2. a \in Nat /\ End(l, old) <= save.addr /\ save.addr <= a /\ InfoBegin(l) <= save.addr
      BY <1>1, <3>1 DEF SaveFacts
    <3>3. a < DataEnd(l)
      <4>1. save.addr = End(l, old) /\ save.size <= SectorSize /\ End(l, old) + 2 * SectorSize <= DataEnd(l)
        BY <1>0, <1>1 DEF SaveFacts, Writing
      <4> QED BY <3>1, <4>1
    <3>4. Sector(save.addr) < Sector(a)
      <4>1. Sector(save.addr) \in Nat /\ Sector(a) \in Nat /\ Sector(save.addr) <= Sector(a)
        BY <3>1, <3>2, SectorBounds, SectorOrder
      <4> QED BY <2>2, <4>1
    <3>5. InSector(flash, flash', a)
      BY <1>0, <2>2, <3>2, ErasureStays
    <3> HIDE DEF a, old
    <3> QED BY <3>1, <3>2, <3>3, <3>4, <3>5, BehindSector
  <2> QED BY <2>1, <2>2
<1>4. /\ \A k \in Logs : k # l => LogInv(k)'
      /\ \A k \in Logs : KeptAt(k)
      /\ SlotPart(l)' /\ DataPart(l)' /\ RepairPart(l)' /\ OkPart(l)'
      /\ Found(flash', l) = old /\ ~Unseen(l)'
  BY <1>0, <1>2, <1>3, DataStep
<1>5. RamPart(l)'
  <2>1. Settled(flash, l, info[l]) /\ ~InUpdate(l)'
    BY <1>0, <1>1, <1>2 DEF SaveFacts, InUpdate
  <2> QED BY <1>0, <1>4, <2>1 DEF RamPart, Settled
<1>6. WritePart(l)'
  <2>1. Writing(l)
    BY <1>1 DEF SaveFacts
  <2> QED BY <1>0, <1>2, <1>4, <2>1 DEF WritePart, Writing
<1>7. LogInv(l)'
  BY <1>4, <1>5, <1>6 DEF LogInv
<1> QED BY <1>0, <1>2, <1>4, <1>7, DataStepEnds

(* The skip of a used sector (lines 362-372) stays in the area. *)
LEMMA LapProbe ==
    ASSUME FirstLap, TypeInv, LapInv, Probe
    PROVE  LapInv' /\ \A k \in Logs : KeptAt(k)
<1> DEFINE l == save.l
           old == Found(flash, l)
           a == save.addr + SectorSize
<1>0. /\ On /\ save.pc = "probe"
      /\ \/ save' = [save EXCEPT !.pc = "write"] /\ flash' = flash
         \/ save' = [save EXCEPT !.pc = "write", !.addr = @ + SectorSize] /\ flash' = Erased(flash, a)
      /\ info' = info /\ boot' = boot /\ begun' = begun /\ comm_stat' = comm_stat
  BY DEF Probe, At
<1>1. SaveFacts(l, old)
  BY <1>0, SaveHolds
<1>p. /\ l \in Logs /\ save.addr \in Nat /\ save.size \in Nat /\ End(l, old) \in Nat
      /\ SectorSize \in Nat /\ InfoBegin(l) \in Nat /\ DataBegin(l) \in Nat
      /\ InfoBegin(l) <= DataBegin(l) /\ SectorSize > 0 /\ DataEnd(l) \in Nat
      /\ save.addr = End(l, old) /\ End(l, old) + 2 * SectorSize <= DataEnd(l)
      /\ DataBegin(l) <= End(l, old)
  BY <1>0, <1>1, AreaBounds DEF SaveFacts, Writing
<1>2. /\ save'.pc = "write" /\ save'.l = l /\ save'.size = save.size /\ save'.addr \in {save.addr, a}
      /\ save'.c = save.c /\ ~save'.ok
  BY <1>0, <1>1 DEF TypeInv, SaveType, SaveFacts
<1>3. /\ Agree(flash, flash', InfoBegin(l) .. End(l, old) - 1)
      /\ \A k \in Logs : k # l => Agree(flash, flash', InfoBegin(k) .. DataEnd(k) - 1)
  <2>1. CASE flash' = flash
    BY <2>1 DEF Agree
  <2>2. CASE flash' = Erased(flash, a)
    <3>2. a \in Nat /\ InfoBegin(l) <= save.addr /\ a < DataEnd(l) /\ End(l, old) <= save.addr
      BY <1>p
    <3>4. Sector(save.addr) < Sector(a)
      BY <1>p, SectorOrder
    <3>5. InSector(flash, flash', a)
      BY <2>2, <3>2, ErasureStays
    <3> HIDE DEF a, old
    <3> QED BY <1>p, <3>2, <3>4, <3>5, BehindSector
  <2> QED BY <1>0, <2>1, <2>2
<1>4. /\ \A k \in Logs : k # l => LogInv(k)'
      /\ \A k \in Logs : KeptAt(k)
      /\ SlotPart(l)' /\ DataPart(l)' /\ RepairPart(l)' /\ OkPart(l)'
      /\ Found(flash', l) = old /\ ~Unseen(l)'
  BY <1>0, <1>2, <1>3, DataStep
<1>5. RamPart(l)'
  <2>1. Settled(flash, l, info[l]) /\ ~InUpdate(l)'
    BY <1>0, <1>1, <1>2 DEF SaveFacts, InUpdate
  <2>2. Settled(flash', l, info'[l])
    BY <1>0, <1>4, <2>1 DEF Settled
  <2> QED BY <1>2, <1>4, <2>1, <2>2 DEF RamPart
<1>6. WritePart(l)'
  <2>1. save.size \in 1..SectorSize
    BY <1>1 DEF SaveFacts
  <2>2. End(l, old) <= save'.addr /\ save'.addr <= End(l, old) + SectorSize
    BY <1>p, <1>2
  <2> QED BY <1>0, <1>2, <1>4, <2>1, <2>2 DEF WritePart, Writing
<1>7. LogInv(l)'
  BY <1>4, <1>5, <1>6 DEF LogInv
<1> QED BY <1>0, <1>2, <1>4, <1>7, DataStepEnds

(* The record is written behind the chain (lines 374-411), good or bad. *)
LEMMA LapWriteRecord ==
    ASSUME FirstLap, TypeInv, LapInv, WriteRecord
    PROVE  LapInv' /\ \A k \in Logs : KeptAt(k)
<1>0. /\ On /\ save.pc = "write"
      /\ info' = info /\ boot' = boot /\ begun' = begun /\ comm_stat' = comm_stat
  BY DEF WriteRecord, At
<1>1. SaveFacts(save.l, Found(flash, save.l))
  BY <1>0, SaveHolds
<1> DEFINE l == save.l
           old == Found(flash, l)
           first == Record(save, info[l])
<1>p. /\ l \in Logs /\ save.addr \in Nat /\ save.size \in Nat /\ save.size > 0 /\ End(l, old) \in Nat
      /\ SectorSize \in Nat /\ InfoBegin(l) \in Nat /\ DataBegin(l) \in Nat /\ save.size <= SectorSize
      /\ InfoBegin(l) <= DataBegin(l) /\ SectorSize > 0 /\ DataEnd(l) \in Nat
      /\ End(l, old) <= save.addr /\ save.addr <= End(l, old) + SectorSize
      /\ End(l, old) + 2 * SectorSize <= DataEnd(l) /\ DataBegin(l) <= End(l, old)
  BY <1>1, AreaBounds DEF SaveFacts
<1>f. first.k = "log" /\ first.len = save.size /\ first.c = save.c
      /\ first.addr = info[l].addr /\ first.size = info[l].size
  BY DEF Record, Cell
<1>2. PICK ok \in BOOLEAN : /\ WriteDataBuff("data", save.addr, save.size, first, ok)
                            /\ save' = [save EXCEPT !.pc = IF ok THEN "addr" ELSE "post"]
  BY DEF WriteRecord
<1> HIDE DEF first
<1>3. \/ ok /\ flash' = Filled(flash, save.addr, save.size, first)
      \/ ~ok /\ flash' = Spoilt(flash, save.addr, save.size, "torn")
  <2>1. CASE AllBlank(flash, save.addr, save.size)
    BY <1>2, <2>1 DEF WriteDataBuff
  <2>2. CASE ~AllBlank(flash, save.addr, save.size)
    <3>1. flash' = Spoilt(flash, save.addr, save.size, "torn") /\ ok = (flash'[save.addr] = first)
      BY <1>2, <1>f, <2>2 DEF WriteDataBuff, Overwritten
    <3>2. save.addr \in Span(save.addr, save.size)
      BY <1>p DEF Span
    <3>3. flash'[save.addr] = Cell("torn")
      BY <3>1, <3>2 DEF Spoilt
    <3>4. Cell("torn").k = "torn"
      BY DEF Cell
    <3>5. flash'[save.addr] # first
      BY <1>f, <3>3, <3>4
    <3> QED BY <3>1, <3>5
  <2> QED BY <2>1, <2>2
<1>4. InSpan(flash, flash', save.addr, save.size)
  BY <1>p, <1>3, WriteStays
<1>5. /\ Agree(flash, flash', InfoBegin(l) .. End(l, old) - 1)
      /\ \A k \in Logs : k # l => Agree(flash, flash', InfoBegin(k) .. DataEnd(k) - 1)
  <2>1. InfoBegin(l) <= save.addr /\ save.addr + save.size <= DataEnd(l)
    BY <1>p
  <2> HIDE DEF old
  <2> QED BY <1>p, <1>4, <2>1, BehindSpan
<1>6. /\ save'.pc = (IF ok THEN "addr" ELSE "post") /\ save'.l = l /\ save'.size = save.size
      /\ save'.addr = save.addr /\ save'.c = save.c /\ ~save'.ok
  BY <1>1, <1>2 DEF TypeInv, SaveType, SaveFacts
<1>7. /\ \A k \in Logs : k # l => LogInv(k)'
      /\ \A k \in Logs : KeptAt(k)
      /\ SlotPart(l)' /\ DataPart(l)' /\ RepairPart(l)' /\ OkPart(l)'
      /\ Found(flash', l) = old /\ ~Unseen(l)'
  BY <1>0, <1>5, <1>6, DataStep
<1>s. Settled(flash, l, info[l])
  BY <1>0, <1>1 DEF SaveFacts, InUpdate
<1>8. RamPart(l)'
  <2>1. ~InUpdate(l)'
    BY <1>6 DEF InUpdate
  <2>2. Settled(flash', l, info'[l])
    BY <1>0, <1>7, <1>s DEF Settled
  <2> QED BY <1>6, <1>7, <2>1, <2>2 DEF RamPart
<1>9. WritePart(l)'
  <2>1. CASE ~ok
    BY <1>6, <2>1 DEF WritePart
  <2>2. CASE ok
    <3>0. flash' = Filled(flash, save.addr, save.size, first)
      BY <1>3, <2>2
    <3>1. /\ save.addr \in DOMAIN flash' /\ flash'[save.addr] = first
          /\ \A y \in Span(save.addr + 1, save.size - 1) : Kind(flash', y) = "body"
      <4> DEFINE a == save.addr
                 n == save.size
      <4>1. a \in Nat /\ n \in Nat /\ n > 0
        BY <1>p
      <4> HIDE DEF a, n
      <4>2. flash' = Filled(flash, a, n, first)
        BY <3>0 DEF a, n
      <4>3. /\ a \in DOMAIN flash' /\ flash'[a] = first
            /\ \A y \in Span(a + 1, n - 1) : Kind(flash', y) = "body"
        BY <4>1, <4>2, FilledHolds
      <4> QED BY <4>3 DEF a, n
    <3>2. Read1Log(flash', save')
      BY <1>p, <1>f, <1>6, <3>1 DEF Read1Log, Kind
    <3>3. old.total > 0 => first.addr = old.addr /\ first.size = old.size
      BY <1>f, <1>s DEF Settled, SameNewest
    <3>4. save.size \in 1..SectorSize
      BY <1>1 DEF SaveFacts
    <3>5. Writing(l)'
      BY <1>p, <1>f, <1>6, <1>7, <2>2, <3>1, <3>2, <3>3, <3>4 DEF Writing
    <3> QED BY <3>5 DEF WritePart
  <2> QED BY <2>1, <2>2
<1>10. LogInv(l)'
  BY <1>7, <1>8, <1>9 DEF LogInv
<1> QED BY <1>0, <1>6, <1>7, <1>10, DataStepEnds

(* The steps that only set OptLogInfo leave the flash alone. *)
LEMMA InfoStep ==
    ASSUME FirstLap, TypeInv, LapInv, On, boot' = boot, save.pc \notin {"idle", "post"},
           save'.l = save.l, begun' = begun, ~save'.ok, save'.pc # "idle",
           \A k \in Logs : k # save.l => info'[k] = info[k], flash' = flash
    PROVE  /\ \A k \in Logs : k # save.l => LogInv(k)'
           /\ \A k \in Logs : KeptAt(k)
           /\ SlotPart(save.l)' /\ DataPart(save.l)' /\ RepairPart(save.l)' /\ OkPart(save.l)'
           /\ ~Unseen(save.l)'
<1>1. \A S : Agree(flash, flash', S)
  BY DEF Agree
<1> QED BY <1>1, DataStep

(* The first assignment of the update (lines 414-417) is in RAM only. *)
LEMMA LapSetAddress ==
    ASSUME FirstLap, TypeInv, LapInv, SetAddress
    PROVE  LapInv' /\ \A k \in Logs : KeptAt(k)
<1>0. /\ On /\ save.pc = "addr" /\ info' = [info EXCEPT ![save.l].addr = save.addr]
      /\ save' = [save EXCEPT !.pc = "size"]
      /\ flash' = flash /\ boot' = boot /\ begun' = begun /\ comm_stat' = comm_stat
  BY DEF SetAddress, At
<1> DEFINE l == save.l
           old == Found(flash, l)
<1>1. SaveFacts(l, old)
  BY <1>0, SaveHolds
<1>i. l \in Logs /\ info \in [Logs -> InfoType(Counted)]
  BY <1>1 DEF TypeInv, SaveFacts
<1>2. /\ save'.pc = "size" /\ save'.l = l /\ save'.size = save.size /\ save'.addr = save.addr
      /\ save'.c = save.c /\ ~save'.ok
  BY <1>0, <1>1 DEF TypeInv, SaveType, SaveFacts
<1>3. /\ info'[l].addr = save.addr /\ info'[l].size = info[l].size /\ info'[l].total = info[l].total
      /\ info'[l].sys = info[l].sys /\ \A k \in Logs : k # l => info'[k] = info[k]
  BY <1>0, <1>i DEF InfoType
<1>4. /\ \A k \in Logs : k # l => LogInv(k)'
      /\ \A k \in Logs : KeptAt(k)
      /\ SlotPart(l)' /\ DataPart(l)' /\ RepairPart(l)' /\ OkPart(l)' /\ ~Unseen(l)'
  BY <1>0, <1>2, <1>3, InfoStep
<1>5. RamPart(l)'
  <2>1. Settled(flash, l, info[l]) /\ InUpdate(l)'
    BY <1>0, <1>1, <1>2 DEF SaveFacts, InUpdate
  <2>2. Updating(l)'
    BY <1>0, <1>2, <1>3, <2>1 DEF Updating, Settled, SameNewest
  <2> QED BY <2>1, <2>2 DEF RamPart
<1>6. WritePart(l)'
  <2>1. Writing(l)
    BY <1>1 DEF SaveFacts
  <2>2. Read1Log(flash', save') = Read1Log(flash, save)
    BY <1>0, <1>2 DEF Read1Log
  <2> QED BY <1>0, <1>2, <2>1, <2>2 DEF WritePart, Writing
<1>7. LogInv(l)'
  BY <1>4, <1>5, <1>6 DEF LogInv
<1> QED BY <1>0, <1>2, <1>4, <1>7, DataStepEnds

(* The second assignment (lines 418-419) is in RAM only. *)
LEMMA LapSetSize ==
    ASSUME FirstLap, TypeInv, LapInv, SetSize
    PROVE  LapInv' /\ \A k \in Logs : KeptAt(k)
<1>0. /\ On /\ save.pc = "size" /\ info' = [info EXCEPT ![save.l].n = save.n, ![save.l].size = save.size]
      /\ save' = [save EXCEPT !.pc = "total"]
      /\ flash' = flash /\ boot' = boot /\ begun' = begun /\ comm_stat' = comm_stat
  BY DEF SetSize, At
<1> DEFINE l == save.l
           old == Found(flash, l)
<1>1. SaveFacts(l, old)
  BY <1>0, SaveHolds
<1>i. l \in Logs /\ info \in [Logs -> InfoType(Counted)]
  BY <1>1 DEF TypeInv, SaveFacts
<1>2. /\ save'.pc = "total" /\ save'.l = l /\ save'.size = save.size /\ save'.addr = save.addr
      /\ save'.c = save.c /\ ~save'.ok
  BY <1>0, <1>1 DEF TypeInv, SaveType, SaveFacts
<1>3. /\ info'[l].addr = info[l].addr /\ info'[l].size = save.size /\ info'[l].total = info[l].total
      /\ info'[l].sys = info[l].sys /\ \A k \in Logs : k # l => info'[k] = info[k]
  BY <1>0, <1>i DEF InfoType
<1>4. /\ \A k \in Logs : k # l => LogInv(k)'
      /\ \A k \in Logs : KeptAt(k)
      /\ SlotPart(l)' /\ DataPart(l)' /\ RepairPart(l)' /\ OkPart(l)' /\ ~Unseen(l)'
  BY <1>0, <1>2, <1>3, InfoStep
<1>5. RamPart(l)'
  <2>1. Updating(l) /\ InUpdate(l)'
    BY <1>0, <1>1, <1>2 DEF SaveFacts, InUpdate
  <2>2. Updating(l)'
    BY <1>0, <1>2, <1>3, <2>1 DEF Updating
  <2> QED BY <2>1, <2>2 DEF RamPart
<1>6. WritePart(l)'
  <2>1. Writing(l)
    BY <1>1 DEF SaveFacts
  <2>2. Read1Log(flash', save') = Read1Log(flash, save)
    BY <1>0, <1>2 DEF Read1Log
  <2> QED BY <1>0, <1>2, <2>1, <2>2 DEF WritePart, Writing
<1>7. LogInv(l)'
  BY <1>4, <1>5, <1>6 DEF LogInv
<1> QED BY <1>0, <1>2, <1>4, <1>7, DataStepEnds

(* The count and the next slot (lines 420-427) are in RAM only. *)
LEMMA LapSetTotal ==
    ASSUME FirstLap, TypeInv, LapInv, SetTotal
    PROVE  LapInv' /\ \A k \in Logs : KeptAt(k)
<1> DEFINE l == save.l
           old == Found(flash, l)
           slot == NewSlot(info[l], l)
<1>0. /\ On /\ save.pc = "total" /\ info' = [info EXCEPT ![l].total = @ + 1, ![l].sys = slot]
      /\ save' = [save EXCEPT !.pc = "slotahead", !.slot = slot]
      /\ flash' = flash /\ boot' = boot /\ begun' = begun /\ comm_stat' = comm_stat
  BY DEF SetTotal, At
<1>1. SaveFacts(l, old)
  BY <1>0, SaveHolds
<1>i. l \in Logs /\ info \in [Logs -> InfoType(Counted)]
  BY <1>1 DEF TypeInv, SaveFacts
<1>u. Updating(l)
  BY <1>0, <1>1 DEF SaveFacts, InUpdate
<1>s. slot = IF old.total = 0 THEN InfoBegin(l) ELSE Free(flash, l)
  <2>1. info[l].total = old.total /\ (old.total > 0 => info[l].sys = old.sys) /\ old.total \in Nat
    BY <1>0, <1>1, <1>u DEF Updating, SaveFacts
  <2>2. CASE old.total = 0
    BY <2>1, <2>2 DEF NewSlot
  <2>3. CASE old.total # 0
    <3>1. GoodSlots(flash, l) # 0
      BY <2>3 DEF Found
    <3>2. old.sys = InfoBegin(l) + GoodSlots(flash, l) - 1
      BY <3>1 DEF Found
    <3>3. /\ InfoBegin(l) \in Nat /\ GoodSlots(flash, l) \in Nat /\ InfoEnd(l) \in Nat
          /\ Free(flash, l) + 1 < InfoEnd(l)
      BY <1>1, AreaBounds DEF SaveFacts
    <3>4. old.sys + 1 = Free(flash, l) /\ ~(old.sys + 1 >= InfoEnd(l))
      BY <3>2, <3>3 DEF Free
    <3>5. info[l].sys = old.sys
      BY <2>1, <2>3
    <3> HIDE DEF old
    <3> QED BY <2>1, <2>3, <3>4, <3>5 DEF NewSlot
  <2> QED BY <2>2, <2>3
<1> HIDE DEF slot
<1>2. /\ save'.pc = "slotahead" /\ save'.l = l /\ save'.size = save.size /\ save'.addr = save.addr
      /\ save'.c = save.c /\ ~save'.ok /\ save'.slot = slot
  BY <1>0, <1>1 DEF TypeInv, SaveType, SaveFacts
<1>3. /\ info'[l].addr = info[l].addr /\ info'[l].size = info[l].size /\ info'[l].total = info[l].total + 1
      /\ info'[l].sys = slot /\ \A k \in Logs : k # l => info'[k] = info[k]
  BY <1>0, <1>i DEF InfoType
<1>4. /\ \A k \in Logs : k # l => LogInv(k)'
      /\ \A k \in Logs : KeptAt(k)
      /\ SlotPart(l)' /\ DataPart(l)' /\ RepairPart(l)' /\ OkPart(l)' /\ ~Unseen(l)'
  BY <1>0, <1>2, <1>3, InfoStep
<1>5. RamPart(l)'
  <2>1. InUpdate(l)'
    BY <1>2 DEF InUpdate
  <2>2. Updating(l)'
    BY <1>0, <1>2, <1>3, <1>u, <1>s DEF Updating
  <2> QED BY <2>1, <2>2 DEF RamPart
<1>6. WritePart(l)'
  <2>1. Writing(l)
    BY <1>1 DEF SaveFacts
  <2>2. Read1Log(flash', save') = Read1Log(flash, save)
    BY <1>0, <1>2 DEF Read1Log
  <2> QED BY <1>0, <1>2, <2>1, <2>2 DEF WritePart, Writing
<1>7. LogInv(l)'
  BY <1>4, <1>5, <1>6 DEF LogInv
<1> QED BY <1>0, <1>2, <1>4, <1>7, DataStepEnds

(* The first slot is not the last of its sector. *)
LEMMA FirstSector ==
    ASSUME FirstLap, NEW l \in Logs
    PROVE  /\ \A y \in InfoBegin(l) .. InfoBegin(l) + SectorSize - 1 : Sector(y) = Sector(InfoBegin(l))
           /\ Sector(InfoBegin(l) + 1) = Sector(InfoBegin(l))
           /\ \A y \in InfoEnd(l) .. DataEnd(l) - 1 : Sector(y) # Sector(InfoBegin(l))
<1> DEFINE b == InfoBegin(l)
<1>1. b \in Nat /\ Aligned(b) /\ SectorSize \in Nat /\ SectorSize >= 2 /\ InfoEnd(l) \in Nat /\ Aligned(InfoEnd(l))
      /\ b < InfoEnd(l)
  BY Areas, Multiples DEF FirstLap
<1>2. Sector(b) \in Nat /\ Sector(b) * SectorSize = b
  <2>1. Sector(b) \in Nat /\ Sector(b) * SectorSize \in Nat /\ Sector(b) * SectorSize <= b
    BY <1>1, SectorBounds, Multiples
  <2>2. Sector(b) * SectorSize >= b
    BY <1>1, SectorOrder
  <2> QED BY <1>1, <2>1, <2>2
<1>3. \A y \in Span(b, SectorSize) : Sector(y) = Sector(b)
  BY <1>1, <1>2, SectorSpan
<1>4. \A y \in InfoEnd(l) .. DataEnd(l) - 1 : Sector(y) # Sector(b)
  <2> SUFFICES ASSUME NEW y \in InfoEnd(l) .. DataEnd(l) - 1 PROVE Sector(y) # Sector(b)
    OBVIOUS
  <2>1. DataEnd(l) \in Nat
    BY AreaBounds
  <2>2. y \in Nat /\ InfoEnd(l) <= y
    BY <1>1, <2>1
  <2>3. Sector(b) < Sector(InfoEnd(l)) /\ Sector(InfoEnd(l)) <= Sector(y)
    BY <1>1, <2>2, SectorOrder
  <2>4. Sector(InfoEnd(l)) \in Nat /\ Sector(y) \in Nat
    BY <1>1, <2>2, SectorBounds
  <2> QED BY <1>2, <2>3, <2>4
<1> HIDE DEF b
<1>5. \A y \in b .. b + SectorSize - 1 : y \in Span(b, SectorSize)
  BY <1>1 DEF Span
<1>6. b + 1 \in b .. b + SectorSize - 1
  BY <1>1
<1> QED BY <1>3, <1>4, <1>5, <1>6 DEF b

(* Changes in the sector behind that of the free slot. *)
LEMMA SlotsAhead ==
    ASSUME NEW l \in Logs, NEW f, NEW g, NEW n \in Nat, NEW m \in Nat,
           Slots(f, l, n, {"blank"}), Data(f, l, Found(f, l), m), Found(f, l).total # 0,
           Free(f, l) + 1 < InfoEnd(l), Sector(Free(f, l) + 1) # Sector(Free(f, l)),
           InSector(f, g, Free(f, l) + 1)
    PROVE  /\ GoodSlots(g, l) = GoodSlots(f, l) /\ Free(g, l) = Free(f, l) /\ Found(g, l) = Found(f, l)
           /\ Slots(g, l, n, {"blank"})
           /\ Data(g, l, Found(g, l), m)
           /\ AllCodes(g, Found(g, l)) = AllCodes(f, Found(f, l))
           /\ Agree(f, g, InfoEnd(l) .. DataEnd(l) - 1)
           /\ \A k \in Logs : k # l => Agree(f, g, InfoBegin(k) .. DataEnd(k) - 1)
<1> DEFINE x == Free(f, l)
           a == Free(f, l) + 1
<1>1. /\ x \in Nat /\ InfoBegin(l) <= x /\ a \in Nat /\ InfoBegin(l) <= a /\ a < InfoEnd(l)
      /\ InfoBegin(l) \in Nat /\ InfoEnd(l) \in Nat /\ DataEnd(l) \in Nat /\ InfoEnd(l) < DataEnd(l)
      /\ DataBegin(l) = InfoEnd(l)
  BY AreaBounds, GoodSlotsCount DEF Free
<1>2. Agree(f, g, {y \in Nat : Sector(y) # Sector(a)})
  BY DEF InSector
<1>3. Sector(x) \in Nat /\ Sector(a) \in Nat /\ Sector(x) < Sector(a)
  <2>1. Sector(x) \in Nat /\ Sector(a) \in Nat /\ Sector(x) <= Sector(a)
    BY <1>1, SectorBounds, SectorOrder
  <2> QED BY <2>1
<1>4. Agree(f, g, InfoBegin(l) .. x)
  <2>1. InfoBegin(l) .. x \subseteq {y \in Nat : Sector(y) # Sector(a)}
    <3> SUFFICES ASSUME NEW y \in InfoBegin(l) .. x PROVE y \in Nat /\ Sector(y) # Sector(a)
      OBVIOUS
    <3>1. y \in Nat /\ y <= x
      BY <1>1
    <3>2. Sector(y) \in Nat /\ Sector(y) <= Sector(x)
      BY <1>1, <3>1, SectorBounds, SectorOrder
    <3> QED BY <1>3, <3>1, <3>2
  <2> QED BY <1>2, <2>1, AgreeSubset
<1>5. Agree(f, g, InfoEnd(l) .. DataEnd(l) - 1)
  <2>1. InfoEnd(l) .. DataEnd(l) - 1 \subseteq {y \in Nat : Sector(y) # Sector(a)}
    <3> SUFFICES ASSUME NEW y \in InfoEnd(l) .. DataEnd(l) - 1 PROVE y \in Nat /\ Sector(y) # Sector(a)
      OBVIOUS
    <3>1. y \in Nat /\ InfoEnd(l) <= y /\ Aligned(InfoEnd(l))
      BY <1>1, Areas
    <3>2. Sector(y) \in Nat /\ Sector(InfoEnd(l)) \in Nat
      BY <1>1, <3>1, SectorBounds
    <3>3. Sector(a) < Sector(InfoEnd(l)) /\ Sector(InfoEnd(l)) <= Sector(y)
      BY <1>1, <3>1, SectorOrder
    <3> QED BY <1>3, <3>1, <3>2, <3>3
  <2> QED BY <1>2, <2>1, AgreeSubset
<1>6. ASSUME NEW k \in Logs, k # l PROVE Agree(f, g, InfoBegin(k) .. DataEnd(k) - 1)
  <2>1. a < DataEnd(l)
    BY <1>1
  <2>2. \A y \in InfoBegin(k) .. DataEnd(k) - 1 : Sector(y) # Sector(a)
    BY <1>1, <1>6, <2>1, SectorOfLog
  <2>3. InfoBegin(k) \in Nat /\ DataEnd(k) \in Nat
    BY AreaBounds
  <2>4. InfoBegin(k) .. DataEnd(k) - 1 \subseteq {y \in Nat : Sector(y) # Sector(a)}
    BY <2>2, <2>3
  <2> QED BY <1>2, <2>4, AgreeSubset
<1>7. Kind(g, x) = Kind(f, x) /\ Kind(f, x) = "blank"
  <2>1. x \in InfoBegin(l) .. x
    BY <1>1
  <2>2. Kind(g, x) = Kind(f, x)
    BY <1>4, <2>1 DEF Agree, Kind
  <2> QED BY <2>2 DEF Slots
<1>8. GoodSlots(g, l) = GoodSlots(f, l) /\ Free(g, l) = Free(f, l) /\ Found(g, l) = Found(f, l)
  <2>1. Agree(f, g, InfoBegin(l) .. Free(f, l) - 1)
    <3>1. InfoBegin(l) .. Free(f, l) - 1 \subseteq InfoBegin(l) .. x
      BY <1>1
    <3> QED BY <1>4, <3>1, AgreeSubset
  <2> QED BY <1>7, <2>1, FoundFrame
<1>9. Slots(g, l, n, {"blank"})
  <2>1. ASSUME NEW y \in x + 1 .. InfoEnd(l) - 1, Sector(y) = Sector(x) PROVE Kind(g, y) = "blank"
    <3>1. y \in {w \in Nat : Sector(w) # Sector(a)}
      BY <1>1, <1>3, <2>1
    <3>2. Kind(g, y) = Kind(f, y)
      BY <1>2, <3>1, AgreeKind
    <3> QED BY <2>1, <3>2 DEF Slots
  <2> QED BY <1>7, <1>8, <2>1 DEF Slots
<1>10. Data(g, l, Found(f, l), m) /\ AllCodes(g, Found(f, l)) = AllCodes(f, Found(f, l))
  <2>1. End(l, Found(f, l)) \in Nat /\ End(l, Found(f, l)) <= DataEnd(l)
    BY RoomFacts
  <2>2. DataBegin(l) .. End(l, Found(f, l)) - 1 \subseteq InfoEnd(l) .. DataEnd(l) - 1
    BY <1>1, <2>1
  <2>3. Agree(f, g, DataBegin(l) .. End(l, Found(f, l)) - 1)
    BY <1>5, <2>2, AgreeSubset
  <2> QED BY <2>3, SameSelf, DataFrame
<1> QED BY <1>5, <1>6, <1>8, <1>9, <1>10

(* A step that stays within one log keeps the other one. *)
LEMMA OthersKept ==
    ASSUME FirstLap, TypeInv, LapInv, On, boot' = boot, save.pc \notin {"idle", "post"},
           save'.l = save.l, begun' = begun, save'.ok => save'.pc = "post", save'.pc # "idle",
           \A k \in Logs : k # save.l => info'[k] = info[k],
           \A k \in Logs : k # save.l => Agree(flash, flash', InfoBegin(k) .. DataEnd(k) - 1)
    PROVE  \A k \in Logs : k # save.l => LogInv(k)' /\ KeptAt(k)
<1> SUFFICES ASSUME NEW k \in Logs, k # save.l PROVE LogInv(k)' /\ KeptAt(k)
  OBVIOUS
<1>1. begun \in Nat /\ begun > 0 /\ ~save.ok /\ Known = begun - 1
  BY SaveHolds DEF SaveFacts
<1>2. Known \in Nat /\ Known' \in Nat /\ Known <= Known' /\ On'
  BY <1>1 DEF Known, On
<1>3. LogInv(k) /\ Away(k) /\ Away(k)'
  BY DEF LapInv, Away
<1> QED BY <1>1, <1>2, <1>3, AwayLog

(* A slot at the end of its sector is not the first of the log. *)
LEMMA SlotNotLast ==
    ASSUME FirstLap, TypeInv, LapInv, On, save.pc = "slotahead",
           Sector(save.slot + 1) # Sector(save.slot)
    PROVE  Found(flash, save.l).total # 0 /\ save.slot = Free(flash, save.l)
<1>1. SaveFacts(save.l, Found(flash, save.l))
  BY SaveHolds
<1>2. save.l \in Logs /\ Updating(save.l)
  BY <1>1 DEF SaveFacts, InUpdate
<1>3. Sector(InfoBegin(save.l) + 1) = Sector(InfoBegin(save.l))
  BY <1>2, FirstSector
<1> QED BY <1>2, <1>3 DEF Updating

(* Erasing the next sector of slots (lines 471-476) meets no good slot. *)
LEMMA LapEraseSlotsAhead ==
    ASSUME FirstLap, TypeInv, LapInv, EraseSlotsAhead
    PROVE  LapInv' /\ \A k \in Logs : KeptAt(k)
<1> DEFINE l == save.l
           old == Found(flash, l)
<1>0. /\ On /\ save.pc = "slotahead" /\ save' = [save EXCEPT !.pc = "slot"]
      /\ flash' = (IF Sector(save.slot + 1) # Sector(save.slot) THEN Erased(flash, save.slot + 1) ELSE flash)
      /\ info' = info /\ boot' = boot /\ begun' = begun /\ comm_stat' = comm_stat
  BY DEF EraseSlotsAhead, At
<1>1. SaveFacts(l, old)
  BY <1>0, SaveHolds
<1>p. /\ l \in Logs /\ begun \in Nat /\ begun > 0 /\ ~save.ok /\ Known = begun - 1 /\ save.l = l
      /\ Slots(flash, l, begun, {"blank"}) /\ GoodSlots(flash, l) \in Nat /\ GoodSlots(flash, l) <= begun - 1
      /\ Free(flash, l) \in Nat /\ InfoBegin(l) <= Free(flash, l) /\ Free(flash, l) + 1 < InfoEnd(l)
      /\ Data(flash, l, old, begun - 1) /\ Writing(l) /\ save.addr \in Nat
      /\ End(l, old) <= save.addr /\ DataBegin(l) <= End(l, old) /\ End(l, old) \in Nat
  BY <1>1 DEF SaveFacts
<1>u. Updating(l) /\ save.slot = IF old.total = 0 THEN InfoBegin(l) ELSE Free(flash, l)
  BY <1>0, <1>1 DEF SaveFacts, InUpdate, Updating
<1>2. /\ save'.pc = "slot" /\ save'.l = l /\ save'.size = save.size /\ save'.addr = save.addr
      /\ save'.c = save.c /\ ~save'.ok /\ save'.slot = save.slot
  BY <1>0, <1>1 DEF TypeInv, SaveType, SaveFacts
<1>3. /\ GoodSlots(flash', l) = GoodSlots(flash, l) /\ Free(flash', l) = Free(flash, l)
      /\ Found(flash', l) = old
      /\ Slots(flash', l, begun, {"blank"})
      /\ Data(flash', l, Found(flash', l), begun - 1)
      /\ AllCodes(flash', Found(flash', l)) = AllCodes(flash, old)
      /\ Agree(flash, flash', InfoEnd(l) .. DataEnd(l) - 1)
      /\ \A k \in Logs : k # l => Agree(flash, flash', InfoBegin(k) .. DataEnd(k) - 1)
      /\ \A y \in save.slot + 1 .. InfoEnd(l) - 1 : Sector(y) = Sector(save.slot + 1) => Kind(flash', y) = "blank"
  <2>1. CASE Sector(save.slot + 1) # Sector(save.slot)
    <3>1. flash' = Erased(flash, save.slot + 1) /\ old.total # 0 /\ save.slot = Free(flash, l)
      BY <1>0, <2>1, SlotNotLast
    <3>2. save.slot + 1 \in Nat
      BY <1>p, <3>1
    <3>3. InSector(flash, flash', save.slot + 1)
      BY <3>1, <3>2, ErasureStays
    <3>4. begun - 1 \in Nat
      BY <1>p
    <3>5. \A y : Sector(y) = Sector(save.slot + 1) => Kind(flash', y) = "blank"
      BY <3>1, ErasedIs
    <3>6. InSector(flash, flash', Free(flash, l) + 1) /\ Sector(Free(flash, l) + 1) # Sector(Free(flash, l))
      BY <2>1, <3>1, <3>3
    <3> QED BY <1>p, <3>1, <3>4, <3>5, <3>6, SlotsAhead
  <2>2. CASE Sector(save.slot + 1) = Sector(save.slot)
    <3>1. flash' = flash
      BY <1>0, <2>2
    <3>2. ASSUME NEW y \in save.slot + 1 .. InfoEnd(l) - 1, Sector(y) = Sector(save.slot + 1)
          PROVE  Kind(flash, y) = "blank"
      <4>0. InfoBegin(l) \in Nat /\ InfoEnd(l) \in Nat /\ Free(flash, l) = InfoBegin(l) + GoodSlots(flash, l)
        BY <1>p, AreaBounds DEF Free
      <4>1. CASE save.slot = Free(flash, l)
        BY <1>p, <2>2, <3>2, <4>1 DEF Slots
      <4>2. CASE save.slot # Free(flash, l)
        <5>1. old.total = 0 /\ save.slot = InfoBegin(l)
          BY <1>u, <4>2
        <5>2. GoodSlots(flash, l) <= 1 /\ Kind(flash, Free(flash, l)) = "blank"
              /\ \A w \in Free(flash, l) + 1 .. InfoEnd(l) - 1 : Kind(flash, w) = "blank"
          BY <1>p, <5>1 DEF Slots
        <5>3. y = Free(flash, l) \/ y \in Free(flash, l) + 1 .. InfoEnd(l) - 1
          BY <1>p, <4>0, <4>2, <5>1, <5>2
        <5> QED BY <5>2, <5>3
      <4> QED BY <4>1, <4>2
    <3>3. \A S : Agree(flash, flash', S)
      BY <3>1 DEF Agree
    <3> QED BY <1>p, <3>1, <3>2, <3>3
  <2> QED BY <2>1, <2>2
<1>4. \A k \in Logs : k # l => LogInv(k)' /\ KeptAt(k)
  BY <1>0, <1>2, <1>3, OthersKept
<1>5. /\ ~Repairing(l) /\ Current(l) = Found(flash, l)
      /\ ~Repairing(l)' /\ ~Unseen(l)' /\ FreeKinds(l)' = {"blank"} /\ Current(l)' = Found(flash', l)
      /\ Known' = begun - 1
  BY <1>0, <1>p, <1>2 DEF On, Repairing, Unseen, FreeKinds, Current, Known
<1>6. SlotPart(l)' /\ DataPart(l)' /\ KeptAt(l)
  BY <1>0, <1>p, <1>2, <1>3, <1>5 DEF SlotPart, DataPart, KeptAt
<1>7. RamPart(l)'
  <2>1. InUpdate(l)'
    BY <1>2 DEF InUpdate
  <2>2. Updating(l)'
    BY <1>0, <1>2, <1>3, <1>u DEF Updating
  <2> QED BY <2>1, <2>2 DEF RamPart
<1>8. WritePart(l)'
  <2>1. Read1Log(flash', save') /\ flash'[save.addr] = flash[save.addr]
    <3>1. save.addr \in Nat /\ save.size \in Nat /\ save.size > 0 /\ save.addr + save.size <= DataEnd(l)
          /\ DataBegin(l) <= save.addr /\ DataBegin(l) = InfoEnd(l) /\ DataEnd(l) \in Nat /\ InfoEnd(l) \in Nat
      BY <1>p, <1>1, AreaBounds DEF SaveFacts
    <3>2. Read1Log(flash, save)
      BY <1>0, <1>p DEF Writing
    <3>3. save.addr \in InfoEnd(l) .. DataEnd(l) - 1
          /\ Span(save.addr + 1, save.size - 1) \subseteq InfoEnd(l) .. DataEnd(l) - 1
      BY <3>1 DEF Span
    <3>4. flash'[save.addr] = flash[save.addr] /\ Kind(flash', save.addr) = Kind(flash, save.addr)
      BY <1>3, <3>2, <3>3 DEF Agree, Kind, Read1Log
    <3>5. \A y \in Span(save.addr + 1, save.size - 1) : Kind(flash', y) = Kind(flash, y)
      BY <1>3, <3>3 DEF Agree, Kind
    <3> QED BY <1>2, <3>2, <3>4, <3>5 DEF Read1Log
  <2> QED BY <1>0, <1>p, <1>2, <1>3, <2>1 DEF WritePart, Writing
<1>9. RepairPart(l)' /\ OkPart(l)'
  BY <1>0, <1>2 DEF RepairPart, OkPart, On
<1>10. LogInv(l)'
  BY <1>6, <1>7, <1>8, <1>9 DEF LogInv
<1>11. \A k \in Logs : k # l => LogInv(k)'
  BY <1>4
<1>12. LapInv'
  BY <1>0, <1>2, <1>10, <1>11, DataStepEnds
<1> QED BY <1>4, <1>6, <1>12, <1>p

(* Slot a was written with what i says. *)
Names(j, i, a) ==
    j.total = i.total /\ j.n = i.n /\ j.addr = i.addr /\ j.size = i.size /\ j.sys = a

(* The free slot is written. *)
LEMMA SlotFilled ==
    ASSUME NEW f, NEW g, NEW l \in Logs, NEW i, NEW n \in Nat, g = Filled(f, Free(f, l), 1, InfoSlot(i)),
           Free(f, l) + 1 < InfoEnd(l),
           i.total = 0 => /\ GoodSlots(f, l) = 0
                          /\ \A y \in Free(f, l) + 1 .. InfoEnd(l) - 1 : Kind(f, y) = "blank",
           \A y \in Free(f, l) + 1 .. InfoEnd(l) - 1 :
              Sector(y) = Sector(Free(f, l) + 1) => Kind(f, y) = "blank"
    PROVE  /\ GoodSlots(g, l) = GoodSlots(f, l) + 1
           /\ Names(Found(g, l), i, Free(f, l))
           /\ Slots(g, l, n, {"blank"})
           /\ InSpan(f, g, Free(f, l), 1)
<1> DEFINE x == Free(f, l)
           c == InfoSlot(i)
<1>1. /\ InfoBegin(l) \in Nat /\ InfoEnd(l) \in Nat /\ GoodSlots(f, l) \in Nat
      /\ \A y \in InfoBegin(l) .. InfoBegin(l) + GoodSlots(f, l) - 1 : Kind(f, y) = "info"
  BY AreaBounds, GoodSlotsCount
<1>2. x \in Nat /\ InfoBegin(l) <= x /\ x = InfoBegin(l) + GoodSlots(f, l)
  BY <1>1 DEF Free
<1>3. c.k = "info" /\ c.total = i.total /\ c.n = i.n /\ c.addr = i.addr /\ c.size = i.size
  BY DEF InfoSlot, Cell
<1>x. g = Filled(f, x, 1, c) /\ x + 1 < InfoEnd(l)
      /\ (i.total = 0 => /\ GoodSlots(f, l) = 0
                         /\ \A y \in x + 1 .. InfoEnd(l) - 1 : Kind(f, y) = "blank")
      /\ \A y \in x + 1 .. InfoEnd(l) - 1 : Sector(y) = Sector(x + 1) => Kind(f, y) = "blank"
  OBVIOUS
<1> HIDE DEF x, c
<1>4. x \in DOMAIN g /\ g[x] = c /\ InSpan(f, g, x, 1)
  <2>1. x \in DOMAIN g /\ g[x] = c
    <3>1. x \in Span(x, 1) /\ x \notin Span(x + 1, 1 - 1)
      BY <1>2 DEF Span
    <3>2. x \in DOMAIN Filled(f, x, 1, c) /\ Filled(f, x, 1, c)[x] = c
      BY <3>1 DEF Filled
    <3> QED BY <1>x, <3>2
  <2>2. InSpan(f, Filled(f, x, 1, c), x, 1)
    <3> DEFINE u == 1
    <3>1. u \in Nat /\ u > 0
      OBVIOUS
    <3> HIDE DEF u
    <3>2. InSpan(f, Filled(f, x, u, c), x, u)
      BY <1>2, <3>1, WriteStays
    <3> QED BY <3>2 DEF u
  <2> QED BY <1>x, <2>1, <2>2
<1>5. Kind(g, x) = "info"
  BY <1>3, <1>4 DEF Kind
<1>6. \A y \in Nat : y # x => Kind(g, y) = Kind(f, y)
  <2>1. \A y \in Nat : y # x => y \in {w \in Nat : w \notin Span(x, 1)}
    BY <1>2 DEF Span
  <2>2. Agree(f, g, {w \in Nat : w \notin Span(x, 1)})
    BY <1>4 DEF InSpan
  <2> QED BY <2>1, <2>2, AgreeKind
<1>7. \A y \in InfoBegin(l) .. InfoBegin(l) + (GoodSlots(f, l) + 1) - 1 : Kind(g, y) = "info"
  <2> SUFFICES ASSUME NEW y \in InfoBegin(l) .. InfoBegin(l) + (GoodSlots(f, l) + 1) - 1
               PROVE  Kind(g, y) = "info"
    OBVIOUS
  <2>1. y \in Nat /\ (y = x \/ y \in InfoBegin(l) .. InfoBegin(l) + GoodSlots(f, l) - 1)
    BY <1>1, <1>2
  <2> QED BY <1>1, <1>5, <1>6, <2>1
<1>8. Kind(g, x + 1) = "blank"
  <2>1. x + 1 \in x + 1 .. InfoEnd(l) - 1 /\ x + 1 \in Nat /\ x + 1 # x
    BY <1>1, <1>2, <1>x
  <2> QED BY <1>6, <1>x, <2>1
<1>9. GoodSlots(g, l) = GoodSlots(f, l) + 1
  <2>1. InfoBegin(l) + (GoodSlots(f, l) + 1) = x + 1 /\ GoodSlots(f, l) + 1 \in Nat
    BY <1>1, <1>2
  <2> QED BY <1>1, <1>7, <1>8, <1>x, <2>1, GoodSlotsIs
<1>10. Free(g, l) = x + 1
  BY <1>1, <1>2, <1>9 DEF Free
<1>11. Found(g, l) = [total |-> c.total, n |-> c.n, addr |-> c.addr, size |-> c.size, sys |-> x]
  <2>1. GoodSlots(g, l) # 0 /\ InfoBegin(l) + GoodSlots(g, l) - 1 = x
    BY <1>1, <1>2, <1>9
  <2> QED BY <1>4, <2>1 DEF Found
<1>12. Names(Found(g, l), i, x) /\ Found(g, l).total = i.total
  BY <1>3, <1>11 DEF Names
<1>13. \A y \in (x + 1) + 1 .. InfoEnd(l) - 1 : Sector(y) = Sector(x + 1) => Kind(g, y) = "blank"
  <2> SUFFICES ASSUME NEW y \in (x + 1) + 1 .. InfoEnd(l) - 1, Sector(y) = Sector(x + 1)
               PROVE  Kind(g, y) = "blank"
    OBVIOUS
  <2>1. y \in x + 1 .. InfoEnd(l) - 1 /\ y \in Nat /\ y # x
    BY <1>1, <1>2
  <2> QED BY <1>6, <1>x, <2>1
<1>14. i.total = 0 => /\ GoodSlots(g, l) <= 1
                      /\ \A y \in (x + 1) + 1 .. InfoEnd(l) - 1 : Kind(g, y) = "blank"
  <2> SUFFICES ASSUME i.total = 0, NEW y \in (x + 1) + 1 .. InfoEnd(l) - 1
               PROVE  Kind(g, y) = "blank"
    BY <1>9, <1>x
  <2>1. y \in x + 1 .. InfoEnd(l) - 1 /\ y \in Nat /\ y # x
    BY <1>1, <1>2
  <2> QED BY <1>6, <1>x, <2>1
<1>15. Slots(g, l, n, {"blank"})
  BY <1>8, <1>10, <1>12, <1>13, <1>14, <1>x DEF Slots
<1> QED BY <1>4, <1>9, <1>12, <1>15 DEF x

(* The record is then one of those that are stored. *)
LEMMA DataGrows ==
    ASSUME NEW f, NEW g, NEW l \in Logs, NEW i, NEW j, NEW m \in Nat, NEW n \in Nat, m < n,
           Data(f, l, i, m), Appended(f, l, i, j, n), j.size > 0, End(l, j) <= End(l, i) + 2 * SectorSize,
           i.total + 1 <= MaxSaves, Agree(f, g, InfoEnd(l) .. DataEnd(l) - 1)
    PROVE  Data(g, l, j, n) /\ AllCodes(g, j) = <<n>> \o AllCodes(f, i)
<1>1. /\ i.total \in Nat /\ End(l, i) \in Nat /\ i.total <= MaxSaves /\ DataBegin(l) <= End(l, i)
      /\ End(l, i) + 2 * (MaxSaves - i.total) * SectorSize <= DataEnd(l)
      /\ Counts(l, i) /\ Chain(f, l, i, m)
  BY DEF Data, Counts, Room
<1>2. DataEnd(l) \in Nat /\ DataBegin(l) \in Nat /\ DataBegin(l) = InfoEnd(l) /\ SectorSize \in Nat /\ MaxSaves \in Nat
  BY AreaBounds, FlashLogAssumption
<1>3. j.total = i.total + 1 /\ End(l, i) <= j.addr /\ j.addr \in Nat /\ j.size \in Nat
  BY DEF Appended
<1>4. Counts(l, j) /\ Chain(f, l, j, n) /\ AllCodes(f, j) = <<n>> \o AllCodes(f, i)
  BY <1>1, ChainGrows
<1>5. End(l, j) = j.addr + j.size
  BY <1>1, <1>3 DEF End
<1>6. Room(l, j)
  <2> DEFINE d == MaxSaves - j.total
  <2>1. d \in Nat /\ MaxSaves - i.total = d + 1
    <3> DEFINE t == i.total
    <3>1. t \in Nat /\ t + 1 <= MaxSaves /\ d = MaxSaves - (t + 1)
      BY <1>1, <1>3
    <3> HIDE DEF t, d
    <3>2. d \in Nat /\ MaxSaves - t = d + 1
      BY <1>2, <3>1
    <3> QED BY <3>2 DEF t
  <2>2. End(l, i) + 2 * (d + 1) * SectorSize <= DataEnd(l)
    BY <1>1, <2>1
  <2> HIDE DEF d
  <2>3. 2 * (d + 1) * SectorSize = 2 * d * SectorSize + 2 * SectorSize /\ 2 * d * SectorSize \in Nat
    BY <1>2, <2>1
  <2>4. End(l, j) \in Nat
    BY <1>3, <1>5
  <2>5. End(l, j) + 2 * d * SectorSize <= DataEnd(l)
    BY <1>1, <1>2, <2>2, <2>3, <2>4
  <2> QED BY <2>5 DEF Room, d
<1>7. DataBegin(l) <= End(l, j) /\ j.total <= MaxSaves
  BY <1>1, <1>2, <1>3, <1>5
<1>8. Data(f, l, j, n)
  BY <1>4, <1>6, <1>7 DEF Data
<1>9. Agree(f, g, DataBegin(l) .. End(l, j) - 1)
  <2>1. End(l, j) \in Nat /\ End(l, j) <= DataEnd(l)
    BY <1>8, RoomFacts
  <2>2. DataBegin(l) .. End(l, j) - 1 \subseteq InfoEnd(l) .. DataEnd(l) - 1
    BY <1>2, <2>1
  <2> QED BY <2>2, AgreeSubset
<1>10. Data(g, l, j, n) /\ AllCodes(g, j) = AllCodes(f, j)
  BY <1>8, <1>9, SameSelf, DataFrame
<1> QED BY <1>4, <1>10

(* The slot that is written makes the record one of those stored. *)
LEMMA SlotStored ==
    ASSUME FirstLap, TypeInv, LapInv, On, boot' = boot, comm_stat' = comm_stat, begun' = begun,
           save.pc \in {"slot", "slot2"}, save.slot = Free(flash, save.l),
           flash' = Filled(flash, save.slot, 1, InfoSlot(info[save.l])),
           save'.pc = "post", save'.l = save.l, save'.c = save.c, save'.ok,
           Names(info'[save.l], info[save.l], save.slot),
           \A k \in Logs : k # save.l => info'[k] = info[k],
           \A y \in save.slot + 1 .. InfoEnd(save.l) - 1 :
              Sector(y) = Sector(save.slot + 1) => Kind(flash, y) = "blank"
    PROVE  /\ LapInv'
           /\ \A k \in Logs : k # save.l => KeptAt(k)
           /\ AllCodes(flash, Current(save.l))' = <<save.c>> \o AllCodes(flash, Current(save.l))
<1> DEFINE l == save.l
           old == Found(flash, l)
           j == Found(flash', l)
           x == Free(flash, l)
<1>1. SaveFacts(l, old)
  BY SaveHolds
<1>p. /\ l \in Logs /\ begun \in Nat /\ begun > 0 /\ begun <= MaxSaves /\ ~save.ok /\ save.c = begun
      /\ GoodSlots(flash, l) \in Nat /\ GoodSlots(flash, l) <= begun - 1
      /\ x \in Nat /\ InfoBegin(l) <= x /\ x + 1 < InfoEnd(l)
      /\ Data(flash, l, old, begun - 1) /\ Writing(l) /\ save.addr \in Nat /\ save.size \in 1..SectorSize
      /\ End(l, old) <= save.addr /\ save.addr <= End(l, old) + SectorSize
      /\ DataBegin(l) <= End(l, old) /\ End(l, old) \in Nat
      /\ End(l, old) + 2 * SectorSize <= DataEnd(l)
      /\ old.total \in Nat /\ old.total + 1 <= begun
  BY <1>1 DEF SaveFacts
<1>a. /\ InfoBegin(l) \in Nat /\ InfoEnd(l) \in Nat /\ DataEnd(l) \in Nat /\ DataBegin(l) = InfoEnd(l)
      /\ InfoEnd(l) <= DataEnd(l) /\ SectorSize \in Nat
  BY <1>p, AreaBounds
<1>u. info[l].total = old.total + 1 /\ info[l].addr = save.addr /\ info[l].size = save.size
  <2>1. Updating(l)
    BY <1>1 DEF SaveFacts, InUpdate
  <2> QED BY <2>1 DEF Updating
<1>2. /\ GoodSlots(flash', l) = GoodSlots(flash, l) + 1
      /\ Names(j, info[l], x)
      /\ Slots(flash', l, begun, {"blank"})
      /\ InSpan(flash, flash', x, 1)
  <2> DEFINE i == info[l]
  <2>1. /\ i.total # 0 /\ l \in Logs /\ begun \in Nat /\ flash' = Filled(flash, Free(flash, l), 1, InfoSlot(i))
        /\ Free(flash, l) + 1 < InfoEnd(l)
        /\ \A y \in Free(flash, l) + 1 .. InfoEnd(l) - 1 :
              Sector(y) = Sector(Free(flash, l) + 1) => Kind(flash, y) = "blank"
    BY <1>p, <1>u
  <2> HIDE DEF i, l
  <2>2. /\ GoodSlots(flash', l) = GoodSlots(flash, l) + 1
        /\ Names(Found(flash', l), i, Free(flash, l))
        /\ Slots(flash', l, begun, {"blank"})
        /\ InSpan(flash, flash', Free(flash, l), 1)
    BY ONLY <2>1, SlotFilled
  <2> QED BY <2>2 DEF i, l
<1>3. j.total = old.total + 1 /\ j.addr = save.addr /\ j.size = save.size /\ j.sys = x
  BY <1>2, <1>u DEF Names
<1>w. /\ Read1Log(flash, save) /\ flash[save.addr].c = begun
      /\ old.total > 0 => flash[save.addr].addr = old.addr /\ flash[save.addr].size = old.size
  BY <1>p DEF Writing
<1> HIDE DEF old, j, x
<1>4. Agree(flash, flash', {y \in Nat : y # x})
  <2>1. {y \in Nat : y # x} \subseteq {y \in Nat : y \notin Span(x, 1)}
    BY <1>p DEF Span
  <2>2. Agree(flash, flash', {y \in Nat : y \notin Span(x, 1)})
    BY <1>2 DEF InSpan
  <2> QED BY <2>1, <2>2, AgreeSubset
<1>5. Agree(flash, flash', InfoEnd(l) .. DataEnd(l) - 1)
  <2>1. InfoEnd(l) .. DataEnd(l) - 1 \subseteq {y \in Nat : y # x}
    BY <1>p, <1>a
  <2> QED BY <1>4, <2>1, AgreeSubset
<1>6. ASSUME NEW k \in Logs, k # l PROVE Agree(flash, flash', InfoBegin(k) .. DataEnd(k) - 1)
  <2>0. x < DataEnd(l)
    BY <1>p, <1>a
  <2>1. \A y \in InfoBegin(k) .. DataEnd(k) - 1 : y # x
    BY <1>p, <1>6, <2>0, SectorOfLog
  <2>2. InfoBegin(k) \in Nat /\ DataEnd(k) \in Nat
    BY AreaBounds
  <2>3. InfoBegin(k) .. DataEnd(k) - 1 \subseteq {y \in Nat : y # x}
    BY <2>1, <2>2
  <2> QED BY <1>4, <2>3, AgreeSubset
<1>7. \A k \in Logs : k # l => LogInv(k)' /\ KeptAt(k)
  BY <1>6, OthersKept
<1>8. Data(flash', l, j, begun) /\ AllCodes(flash', j) = <<begun>> \o AllCodes(flash, old)
  <2>1. Appended(flash, l, old, j, begun)
    <3>1. Read1Log(flash, j)
      BY <1>3, <1>w DEF Read1Log
    <3> QED BY <1>p, <1>3, <1>w, <3>1 DEF Appended
  <2>2. End(l, j) <= End(l, old) + 2 * SectorSize
    <3>1. End(l, j) = save.addr + save.size
      BY <1>p, <1>3 DEF End
    <3> QED BY <1>p, <1>a, <3>1
  <2> DEFINE m == begun - 1
  <2>3. m \in Nat /\ m < begun /\ j.size > 0 /\ old.total + 1 <= MaxSaves /\ Data(flash, l, old, m)
        /\ l \in Logs /\ begun \in Nat /\ Agree(flash, flash', InfoEnd(l) .. DataEnd(l) - 1)
    <3>1. m \in Nat /\ m < begun
      BY <1>p
    <3>2. j.size > 0
      BY <1>p, <1>3
    <3>3. old.total + 1 <= MaxSaves
      BY <1>p, FlashLogAssumption
    <3> QED BY <1>p, <1>5, <3>1, <3>2, <3>3
  <2> HIDE DEF m, l
  <2> QED BY ONLY <2>1, <2>2, <2>3, DataGrows
<1>9. /\ ~Repairing(l) /\ Current(l) = old
      /\ ~Repairing(l)' /\ ~Unseen(l)' /\ FreeKinds(l)' = {"blank"} /\ Current(l)' = j
      /\ Known' = begun
  BY DEF On, Repairing, Unseen, FreeKinds, Current, Known, old, j
<1>10. SlotPart(l)' /\ DataPart(l)'
  <2>1. GoodSlots(flash', l) <= begun
    BY <1>p, <1>2
  <2> QED BY <1>2, <1>8, <1>9, <2>1 DEF SlotPart, DataPart
<1>11. RamPart(l)'
  <2>1. ~InUpdate(l)'
    BY DEF InUpdate
  <2>2. Settled(flash', l, info'[l])
    <3>1. info'[l].total = j.total /\ info'[l].addr = j.addr /\ info'[l].size = j.size /\ info'[l].sys = j.sys
      BY <1>2, <1>3, <1>u DEF Names, x
    <3> QED BY <3>1 DEF Settled, SameNewest, j
  <2> QED BY <2>1, <2>2 DEF RamPart
<1>12. RepairPart(l)' /\ WritePart(l)'
  BY DEF RepairPart, WritePart, On
<1>13. OkPart(l)'
  <2>1. save.addr \in InfoEnd(l) .. DataEnd(l) - 1 /\ save.addr \in DOMAIN flash
    <3>1. save.addr \in DOMAIN flash
      BY <1>w DEF Read1Log, Kind
    <3> QED BY <1>p, <1>a, <3>1
  <2>2. flash'[save.addr] = flash[save.addr]
    BY <1>5, <2>1 DEF Agree
  <2>3. j.total > 0 /\ HeadOf(flash', j).c = begun
    BY <1>p, <1>3, <1>w, <2>2 DEF HeadOf
  <2> QED BY <1>p, <2>3 DEF OkPart, j
<1>14. LogInv(l)'
  BY <1>10, <1>11, <1>12, <1>13 DEF LogInv
<1>15. LapInv'
  <2>1. \A k \in Logs : LogInv(k)'
    BY <1>7, <1>14
  <2> QED BY <1>p, <2>1 DEF LapInv, On
<1> QED BY <1>p, <1>7, <1>8, <1>9, <1>15

(* The slot of an empty log that a repair wrote is written over: a number  *)
(* of records that is 0 stays 0.                                           *)
LEMMA SlotCleared ==
    ASSUME NEW f, NEW g, NEW l \in Logs, NEW first, NEW n \in Nat, NEW t \in Nat, FlashType(f, t),
           Slots(f, l, n, {"blank"}), Found(f, l).total = 0, GoodSlots(f, l) = 1,
           first.k = "info", g = Overwritten(f, InfoBegin(l), 1, first)
    PROVE  /\ g[InfoBegin(l)].total = 0
           /\ GoodSlots(g, l) = 1
           /\ Found(g, l).total = 0
           /\ Slots(g, l, n, {"blank"})
           /\ Agree(f, g, {y \in Nat : y # InfoBegin(l)})
<1> DEFINE b == InfoBegin(l)
<1>1. /\ b \in Nat /\ InfoEnd(l) \in Nat /\ b + 0 = b
      /\ \A y \in b .. b + 1 - 1 : Kind(f, y) = "info"
  BY AreaBounds, GoodSlotsCount
<1>2. Kind(f, b) = "info" /\ b \in DOMAIN f
  <2>1. b \in b .. b + 1 - 1
    BY <1>1
  <2> QED BY <1>1, <2>1 DEF Kind
<1>3. Free(f, l) = b + 1 /\ b + 1 < InfoEnd(l)
  BY DEF Free, Slots
<1>4. f[b] \in CellType(t) /\ f[b].total = 0
  <2>1. Found(f, l).total = f[InfoBegin(l) + 1 - 1].total
    BY DEF Found
  <2>2. InfoBegin(l) + 1 - 1 = b
    BY <1>1
  <2> QED BY <1>2, <2>1, <2>2 DEF FlashType
<1> DEFINE c == f[b]
           d == [c EXCEPT !.total = BothBits(@, first.total), !.n = BothBits(@, first.n),
                          !.addr = BothBits(@, first.addr), !.size = BothBits(@, first.size)]
<1>5. g = [f EXCEPT ![b] = d]
  BY <1>2 DEF Overwritten
<1>6. d.k = "info" /\ d.total = 0
  <2>1. c \in CellType(t) /\ c.total = 0 /\ c.k = "info"
    BY <1>2, <1>4 DEF Kind
  <2>2. BothBits(0, first.total) = 0
    <3>1. BothBits(0, first.total) \in 0..0
      BY BothBitsLess
    <3> QED BY <3>1
  <2> HIDE DEF c
  <2> QED BY <2>1, <2>2 DEF CellType
<1> HIDE DEF d
<1>7. DOMAIN g = DOMAIN f /\ g[b] = d /\ \A y \in DOMAIN f : y # b => g[y] = f[y]
  BY <1>2, <1>5
<1>8. Agree(f, g, {y \in Nat : y # b})
  BY <1>7 DEF Agree
<1>9. Kind(g, b) = "info" /\ \A y \in Nat : y # b => Kind(g, y) = Kind(f, y)
  BY <1>2, <1>6, <1>7 DEF Kind
<1>10. GoodSlots(g, l) = 1
  <2>1. \A y \in InfoBegin(l) .. InfoBegin(l) + 1 - 1 : Kind(g, y) = "info"
    BY <1>1, <1>9
  <2>2. Kind(f, b + 1) = "blank" /\ b + 1 \in Nat /\ b + 1 # b
    BY <1>1, <1>3 DEF Slots
  <2>3. Kind(g, b + 1) # "info"
    BY <1>9, <2>2
  <2> DEFINE u == 1
  <2>4. u \in Nat /\ InfoBegin(l) + u <= InfoEnd(l) /\ Kind(g, InfoBegin(l) + u) # "info"
        /\ \A y \in InfoBegin(l) .. InfoBegin(l) + u - 1 : Kind(g, y) = "info"
    BY <1>1, <1>3, <2>1, <2>3
  <2> HIDE DEF u
  <2>5. GoodSlots(g, l) = u
    BY <2>4, GoodSlotsIs
  <2> QED BY <2>5 DEF u
<1>11. Found(g, l).total = 0
  <2>1. Found(g, l).total = g[InfoBegin(l) + 1 - 1].total
    BY <1>10 DEF Found
  <2>2. InfoBegin(l) + 1 - 1 = b
    BY <1>1
  <2> QED BY <1>6, <1>7, <2>1, <2>2
<1>12. Slots(g, l, n, {"blank"})
  <2>1. Free(g, l) = b + 1
    BY <1>10 DEF Free
  <2>2. \A y \in (b + 1) + 1 .. InfoEnd(l) - 1 : Kind(g, y) = "blank"
    <3> SUFFICES ASSUME NEW y \in (b + 1) + 1 .. InfoEnd(l) - 1 PROVE Kind(g, y) = "blank"
      OBVIOUS
    <3>1. y \in Nat /\ y # b
      BY <1>1
    <3>2. Kind(f, y) = "blank"
      BY <1>3 DEF Slots
    <3> QED BY <1>9, <3>1, <3>2
  <2>3. Kind(g, b + 1) = "blank"
    <3>1. b + 1 \in Nat /\ b + 1 # b
      BY <1>1
    <3>2. Kind(f, b + 1) = "blank"
      BY <1>3 DEF Slots
    <3> QED BY <1>9, <3>1, <3>2
  <2> QED BY <1>3, <1>10, <2>1, <2>2, <2>3 DEF Slots
<1> QED BY <1>6, <1>7, <1>8, <1>10, <1>11, <1>12

(* The record being saved is now the newest of those stored. *)
GrowsAt(l) == AllCodes(flash, Current(l))' = <<save.c>> \o AllCodes(flash, Current(l))

(* A blank cell can be programmed. *)
LEMMA BlankSlot ==
    ASSUME TypeInv, NEW a \in Nat, Kind(flash, a) = "blank"
    PROVE  AllBlank(flash, a, 1)
<1>1. \A y \in Span(a, 1) : y = a
  BY DEF Span
<1>2. a \notin DOMAIN flash
  BY DEF Kind, TypeInv, FlashType, CellType, Kinds
<1> QED BY <1>1, <1>2 DEF AllBlank

(* What a record reads as depends on its own cells. *)
LEMMA RecordStays ==
    ASSUME NEW f, NEW g, NEW l \in Logs, NEW s \in SaveType, Agree(f, g, InfoEnd(l) .. DataEnd(l) - 1),
           Read1Log(f, s), s.addr \in Nat, InfoEnd(l) <= s.addr, s.addr + s.size <= DataEnd(l)
    PROVE  Read1Log(g, s) /\ g[s.addr] = f[s.addr]
<1>1. InfoEnd(l) \in Nat /\ DataEnd(l) \in Nat /\ s.size \in Nat /\ s.size > 0
  BY AreaBounds DEF SaveType, Read1Log
<1>3. s.addr \in InfoEnd(l) .. DataEnd(l) - 1
      /\ Span(s.addr + 1, s.size - 1) \subseteq InfoEnd(l) .. DataEnd(l) - 1
  BY <1>1 DEF Span
<1>4. g[s.addr] = f[s.addr] /\ Kind(g, s.addr) = Kind(f, s.addr)
  BY <1>3 DEF Agree, Kind, Read1Log
<1>5. \A y \in Span(s.addr + 1, s.size - 1) : Kind(g, y) = Kind(f, y)
  BY <1>3 DEF Agree, Kind
<1> QED BY <1>4, <1>5 DEF Read1Log

(* With its slot (lines 478-487) the record belongs to the log. *)
LEMMA LapWriteSlot ==
    ASSUME FirstLap, TypeInv, LapInv, WriteSlot
    PROVE  /\ LapInv'
           /\ \A k \in Logs : k # save.l => KeptAt(k)
           /\ KeptAt(save.l) \/ GrowsAt(save.l)
<1> DEFINE l == save.l
           old == Found(flash, l)
           first == InfoSlot(info[l])
           b == InfoBegin(l)
<1>0. /\ On /\ save.pc = "slot"
      /\ info' = info /\ boot' = boot /\ begun' = begun /\ comm_stat' = comm_stat
  BY DEF WriteSlot, At
<1>1. PICK ok \in BOOLEAN :
         /\ WriteDataBuff("info", save.slot, 1, first, ok)
         /\ save' = IF ok THEN [save EXCEPT !.pc = "post", !.ok = TRUE]
                          ELSE [save EXCEPT !.pc = "slot2", !.slot = @ + 1]
  BY DEF WriteSlot
<1>2. SaveFacts(l, old)
  BY <1>0, SaveHolds
<1>p. /\ l \in Logs /\ begun \in Nat /\ begun > 0 /\ ~save.ok /\ save.c = begun /\ Known = begun - 1
      /\ Slots(flash, l, begun, {"blank"}) /\ GoodSlots(flash, l) \in Nat /\ GoodSlots(flash, l) <= begun - 1
      /\ Free(flash, l) \in Nat /\ InfoBegin(l) <= Free(flash, l) /\ Free(flash, l) + 1 < InfoEnd(l)
      /\ Data(flash, l, old, begun - 1) /\ Writing(l) /\ save.addr \in Nat /\ save.size \in 1..SectorSize
      /\ End(l, old) <= save.addr /\ DataBegin(l) <= End(l, old) /\ End(l, old) \in Nat
      /\ save.addr <= End(l, old) + SectorSize /\ End(l, old) + 2 * SectorSize <= DataEnd(l)
  BY <1>2 DEF SaveFacts
<1>u. /\ Updating(l) /\ save.slot = (IF old.total = 0 THEN InfoBegin(l) ELSE Free(flash, l))
      /\ info[l].sys = save.slot /\ info[l].total = old.total + 1
      /\ info[l].addr = save.addr /\ info[l].size = save.size
      /\ \A y \in save.slot + 1 .. InfoEnd(l) - 1 : Sector(y) = Sector(save.slot + 1) => Kind(flash, y) = "blank"
  BY <1>0, <1>2 DEF SaveFacts, InUpdate, Updating
<1>t. save \in SaveType /\ FlashType(flash, Counted) /\ Counted \in Nat
  BY DEF TypeInv
<1>3. CASE save.slot = Free(flash, l)
  <2>1. AllBlank(flash, save.slot, 1)
    <3>1. save.slot \in Nat /\ Kind(flash, save.slot) = "blank"
      BY <1>p, <1>3 DEF Slots
    <3> QED BY <3>1, BlankSlot
  <2>2. ok /\ flash' = Filled(flash, save.slot, 1, first)
    BY <1>1, <2>1 DEF WriteDataBuff, FirstLap
  <2>3. save'.pc = "post" /\ save'.l = l /\ save'.c = save.c /\ save'.ok
    BY <1>1, <1>t, <2>2 DEF SaveType
  <2>4. Names(info'[l], info[l], save.slot)
    BY <1>0, <1>u DEF Names
  <2> QED BY <1>0, <1>3, <1>u, <2>2, <2>3, <2>4, SlotStored DEF GrowsAt
<1>4. CASE save.slot # Free(flash, l)
  <2>1. old.total = 0 /\ save.slot = b
    BY <1>u, <1>4
  <2>2. GoodSlots(flash, l) = 1 /\ Free(flash, l) = b + 1 /\ b \in Nat
    <3>1. GoodSlots(flash, l) <= 1 /\ b \in Nat
      BY <1>p, <2>1, AreaBounds DEF Slots
    <3>2. GoodSlots(flash, l) # 0
      BY <1>4, <2>1, <3>1 DEF Free
    <3>3. GoodSlots(flash, l) = 1
      BY <1>p, <3>1, <3>2
    <3> QED BY <3>1, <3>3 DEF Free
  <2>3. first.k = "info" /\ first.total = 1
    <3>1. info[l].total = 1
      BY <1>u, <2>1
    <3> QED BY <3>1 DEF InfoSlot, Cell
  <2>4. ~AllBlank(flash, b, 1)
    <3>1. \A y \in b .. b + GoodSlots(flash, l) - 1 : Kind(flash, y) = "info"
      BY <1>p, GoodSlotsCount
    <3>2. b \in b .. b + GoodSlots(flash, l) - 1
      BY <2>2
    <3>3. Kind(flash, b) = "info"
      BY <3>1, <3>2
    <3>4. b \in DOMAIN flash /\ b \in Span(b, 1)
      BY <2>2, <3>3 DEF Kind, Span
    <3> QED BY <3>4 DEF AllBlank
  <2>5. flash' = Overwritten(flash, b, 1, first) /\ ok = (flash'[b] = first)
    BY <1>1, <2>1, <2>4 DEF WriteDataBuff
  <2>6. /\ flash'[b].total = 0 /\ GoodSlots(flash', l) = 1 /\ Found(flash', l).total = 0
        /\ Slots(flash', l, begun, {"blank"}) /\ Agree(flash, flash', {y \in Nat : y # b})
    <3> HIDE DEF first
    <3> QED BY <1>p, <1>t, <2>1, <2>2, <2>3, <2>5, SlotCleared
  <2>7. ~ok
    <3>1. flash'[b] # first
      <4> HIDE DEF first
      <4> QED BY <2>3, <2>6
    <3> QED BY <2>5, <3>1, Zenon
  <2>8. /\ save'.pc = "slot2" /\ save'.l = l /\ save'.c = save.c /\ ~save'.ok /\ save'.slot = b + 1
        /\ save'.addr = save.addr /\ save'.size = save.size
    BY <1>1, <1>p, <1>t, <2>1, <2>7 DEF SaveType
  <2>9. Free(flash', l) = b + 1
    BY <2>6 DEF Free
  <2>a. /\ InfoEnd(l) \in Nat /\ DataEnd(l) \in Nat /\ DataBegin(l) = InfoEnd(l) /\ SectorSize \in Nat
        /\ b < InfoEnd(l) /\ InfoEnd(l) <= DataEnd(l)
    BY <1>p, <2>2, AreaBounds
  <2>10. Agree(flash, flash', InfoEnd(l) .. DataEnd(l) - 1)
    <3>1. InfoEnd(l) .. DataEnd(l) - 1 \subseteq {y \in Nat : y # b}
      BY <2>2, <2>a
    <3> QED BY <2>6, <3>1, AgreeSubset
  <2>11. ASSUME NEW k \in Logs, k # l PROVE Agree(flash, flash', InfoBegin(k) .. DataEnd(k) - 1)
    <3>0. b < DataEnd(l) /\ b <= b
      BY <2>2, <2>a
    <3>1. \A y \in InfoBegin(k) .. DataEnd(k) - 1 : y # b
      BY <1>p, <2>2, <2>11, <3>0, SectorOfLog
    <3>2. InfoBegin(k) \in Nat /\ DataEnd(k) \in Nat
      BY AreaBounds
    <3>3. InfoBegin(k) .. DataEnd(k) - 1 \subseteq {y \in Nat : y # b}
      BY <3>1, <3>2
    <3> QED BY <2>6, <3>3, AgreeSubset
  <2>12. \A k \in Logs : k # l => LogInv(k)' /\ KeptAt(k)
    BY <1>0, <2>8, <2>11, OthersKept
  <2>13. Data(flash', l, Found(flash', l), begun - 1) /\ AllCodes(flash', Found(flash', l)) = AllCodes(flash, old)
         /\ End(l, Found(flash', l)) = End(l, old)
    <3> DEFINE j == Found(flash', l)
               m == begun - 1
    <3>1. SameNewest(old, j)
      BY <2>1, <2>6 DEF SameNewest
    <3>2. Agree(flash, flash', DataBegin(l) .. End(l, old) - 1)
      <4>1. DataBegin(l) .. End(l, old) - 1 \subseteq InfoEnd(l) .. DataEnd(l) - 1
        BY <1>p, <2>a
      <4> QED BY <2>10, <4>1, AgreeSubset
    <3>3. m \in Nat /\ m <= m /\ Data(flash, l, old, m)
      BY <1>p
    <3> HIDE DEF j, m, old
    <3>4. Data(flash', l, j, m) /\ End(l, j) = End(l, old) /\ AllCodes(flash', j) = AllCodes(flash, old)
      BY <1>p, <3>1, <3>2, <3>3, DataFrame
    <3> QED BY <3>4 DEF j, m
  <2>14. /\ Current(l) = old /\ ~Repairing(l)' /\ ~Unseen(l)' /\ FreeKinds(l)' = {"blank"}
         /\ Current(l)' = Found(flash', l) /\ Known' = begun - 1
    BY <1>0, <2>8 DEF On, Repairing, Unseen, FreeKinds, Current, Known
  <2>15. SlotPart(l)' /\ DataPart(l)' /\ KeptAt(l)
    <3>1. GoodSlots(flash', l) <= begun - 1
      BY <1>p, <2>2, <2>6
    <3> QED BY <1>0, <2>6, <2>13, <2>14, <2>8, <3>1 DEF SlotPart, DataPart, KeptAt
  <2>16. RamPart(l)'
    <3>1. InUpdate(l)'
      BY <2>8 DEF InUpdate
    <3>2. Updating(l)'
      BY <1>0, <1>u, <2>1, <2>6, <2>8, <2>9 DEF Updating
    <3> QED BY <3>1, <3>2 DEF RamPart
  <2>17. WritePart(l)'
    <3>1. Read1Log(flash', save) /\ flash'[save.addr] = flash[save.addr]
      <4>1. Read1Log(flash, save) /\ InfoEnd(l) <= save.addr /\ save.addr + save.size <= DataEnd(l)
        BY <1>0, <1>p, <2>a DEF Writing
      <4> QED BY <1>p, <1>t, <2>10, <4>1, RecordStays
    <3>2. Read1Log(flash', save')
      BY <2>8, <3>1 DEF Read1Log
    <3>3. flash[save.addr].c = save.c
      BY <1>0, <1>p DEF Writing
    <3>4. Writing(l)'
      BY <1>p, <2>6, <2>8, <2>13, <3>1, <3>2, <3>3 DEF Writing
    <3> QED BY <3>4 DEF WritePart
  <2>18. RepairPart(l)' /\ OkPart(l)'
    BY <1>0, <2>8 DEF RepairPart, OkPart, On
  <2>19. LogInv(l)'
    BY <2>15, <2>16, <2>17, <2>18 DEF LogInv
  <2>20. \A k \in Logs : k # l => LogInv(k)'
    BY <2>12
  <2>21. LapInv'
    BY <1>0, <2>8, <2>19, <2>20, DataStepEnds
  <2> QED BY <2>12, <2>15, <2>21
<1> QED BY <1>3, <1>4

(* So does a record whose slot is written at the second try. *)
LEMMA LapWriteSlotAgain ==
    ASSUME FirstLap, TypeInv, LapInv, WriteSlotAgain
    PROVE  /\ LapInv'
           /\ \A k \in Logs : k # save.l => KeptAt(k)
           /\ GrowsAt(save.l)
<1> DEFINE l == save.l
           old == Found(flash, l)
           first == InfoSlot(info[l])
<1>0. /\ On /\ save.pc = "slot2"
      /\ boot' = boot /\ begun' = begun /\ comm_stat' = comm_stat
  BY DEF WriteSlotAgain, At
<1>1. PICK ok \in BOOLEAN :
         /\ WriteDataBuff("info", save.slot, 1, first, ok)
         /\ save' = [save EXCEPT !.pc = "post", !.ok = ok]
         /\ info' = IF ok THEN [info EXCEPT ![l].sys = save.slot] ELSE info
  BY DEF WriteSlotAgain
<1>2. SaveFacts(l, old)
  BY <1>0, SaveHolds
<1>p. /\ l \in Logs /\ Slots(flash, l, begun, {"blank"})
      /\ Free(flash, l) \in Nat /\ InfoBegin(l) <= Free(flash, l) /\ Free(flash, l) + 1 < InfoEnd(l)
  BY <1>2 DEF SaveFacts
<1>u. old.total = 0 /\ save.slot = Free(flash, l)
  BY <1>0, <1>2 DEF SaveFacts, InUpdate, Updating
<1>t. save \in SaveType /\ info \in [Logs -> InfoType(Counted)]
  BY DEF TypeInv
<1>3. AllBlank(flash, save.slot, 1)
  <2>1. save.slot \in Nat /\ Kind(flash, save.slot) = "blank"
    BY <1>p, <1>u DEF Slots
  <2> QED BY <2>1, BlankSlot
<1>4. ok /\ flash' = Filled(flash, save.slot, 1, first)
  BY <1>1, <1>3 DEF WriteDataBuff, FirstLap
<1>5. save'.pc = "post" /\ save'.l = l /\ save'.c = save.c /\ save'.ok
  BY <1>1, <1>t, <1>4 DEF SaveType
<1>6. info' = [info EXCEPT ![l].sys = save.slot]
  BY <1>1, <1>4
<1>7. Names(info'[l], info[l], save.slot) /\ \A k \in Logs : k # l => info'[k] = info[k]
  BY <1>p, <1>t, <1>6 DEF Names, InfoType
<1>8. \A y \in save.slot + 1 .. InfoEnd(l) - 1 : Sector(y) = Sector(save.slot + 1) => Kind(flash, y) = "blank"
  BY <1>p, <1>u DEF Slots
<1> QED BY <1>0, <1>u, <1>4, <1>5, <1>7, <1>8, SlotStored DEF GrowsAt

-----------------------------------------------------------------------------
(* Power fails.                                                            *)

(* A start that meets flash g finds the records of log l that are stored   *)
(* now.                                                                    *)
Survives(g, l) ==
    /\ Slots(g, l, begun, {"blank", "torn"})
    /\ GoodSlots(g, l) <= begun
    /\ Data(g, l, Found(g, l), begun)
    /\ AllCodes(g, Found(g, l)) = AllCodes(flash, Current(l))

(* A reset keeps the logs if the flash it leaves does. *)
LEMMA LapStopped ==
    ASSUME Stopped, begun' = begun, \A l \in Logs : Survives(flash', l)
    PROVE  LapInv' /\ \A k \in Logs : KeptAt(k)
<1>1. /\ comm_stat' = 0 /\ save' = NoSave /\ boot'.pc = "off" /\ boot'.try = 0
  BY DEF Stopped
<1>2. save'.pc = "idle" /\ ~save'.ok
  BY <1>1 DEF NoSave
<1>3. Known' = begun
  BY <1>2 DEF Known
<1>4. ASSUME NEW l \in Logs PROVE LogInv(l)' /\ KeptAt(l)
  <2>1. ~Repairing(l)' /\ Unseen(l)' /\ FreeKinds(l)' = {"blank", "torn"} /\ Current(l)' = Found(flash', l)
    BY <1>1 DEF On, Repairing, Unseen, FreeKinds, Current
  <2>2. Survives(flash', l)
    OBVIOUS
  <2>3. SlotPart(l)' /\ DataPart(l)' /\ KeptAt(l)
    BY <1>3, <2>1, <2>2 DEF SlotPart, DataPart, KeptAt, Survives
  <2>4. RamPart(l)' /\ RepairPart(l)' /\ WritePart(l)' /\ OkPart(l)'
    BY <1>1, <1>2, <2>1 DEF RamPart, RepairPart, WritePart, OkPart
  <2> QED BY <2>3, <2>4 DEF LogInv
<1> QED BY <1>1, <1>2, <1>4 DEF LapInv

(* The saves whose records may be found are among those begun. *)
LEMMA KnownFacts ==
    ASSUME TypeInv, LapInv
    PROVE  begun \in Nat /\ Known \in Nat /\ Known <= begun
BY FlashLogAssumption DEF TypeInv, LapInv, Known

(* A change behind the records leaves the log as it is. *)
LEMMA SurvivesBehind ==
    ASSUME TypeInv, LapInv, On, NEW l \in Logs, NEW g,
           Agree(flash, g, InfoBegin(l) .. End(l, Found(flash, l)) - 1)
    PROVE  Survives(g, l)
<1>1. LogInv(l) /\ begun \in Nat /\ Known \in Nat /\ Known <= begun
  BY KnownFacts DEF LapInv
<1>2. ~Repairing(l) /\ FreeKinds(l) = {"blank"} /\ Current(l) = Found(flash, l)
  BY OnFacts
<1>3. /\ Slots(flash, l, begun, {"blank"}) /\ GoodSlots(flash, l) <= Known
      /\ Data(flash, l, Found(flash, l), Known) /\ GoodSlots(flash, l) \in Nat
  BY <1>1, <1>2, GoodSlotsCount DEF LogInv, SlotPart, DataPart
<1> DEFINE u == {"blank"}
<1>4. "info" \notin u /\ Slots(flash, l, begun, u)
  BY <1>3
<1> HIDE DEF u
<1>5. /\ GoodSlots(g, l) = GoodSlots(flash, l) /\ Slots(g, l, begun, u)
      /\ Data(g, l, Found(g, l), begun)
      /\ AllCodes(g, Found(g, l)) = AllCodes(flash, Found(flash, l))
  BY <1>1, <1>3, <1>4, StoreFrame
<1>6. Slots(g, l, begun, {"blank", "torn"})
  BY <1>5 DEF Slots, u
<1>7. GoodSlots(g, l) <= begun
  BY <1>1, <1>3, <1>5
<1> QED BY <1>2, <1>5, <1>6, <1>7 DEF Survives

(* So does a change outside the log's areas. *)
LEMMA SurvivesAway ==
    ASSUME TypeInv, LapInv, On, NEW l \in Logs, NEW g, Agree(flash, g, InfoBegin(l) .. DataEnd(l) - 1)
    PROVE  Survives(g, l)
<1>1. LogInv(l) /\ Current(l) = Found(flash, l)
  BY OnFacts DEF LapInv
<1>2. Data(flash, l, Found(flash, l), Known)
  BY <1>1 DEF LogInv, DataPart
<1>3. /\ End(l, Found(flash, l)) \in Nat /\ End(l, Found(flash, l)) <= DataEnd(l)
      /\ InfoBegin(l) \in Nat /\ DataEnd(l) \in Nat
  BY <1>2, RoomFacts, AreaBounds
<1>4. InfoBegin(l) .. End(l, Found(flash, l)) - 1 \subseteq InfoBegin(l) .. DataEnd(l) - 1
  BY <1>3
<1>5. Agree(flash, g, InfoBegin(l) .. End(l, Found(flash, l)) - 1)
  BY <1>4, AgreeSubset
<1> QED BY <1>5, SurvivesBehind

(* So does a flash that has not changed. *)
LEMMA SurvivesSame ==
    ASSUME TypeInv, LapInv, On, NEW l \in Logs
    PROVE  Survives(flash, l)
<1>1. Agree(flash, flash, InfoBegin(l) .. DataEnd(l) - 1)
  BY DEF Agree
<1> QED BY <1>1, SurvivesAway

(* A slot that power failed in the writing of. *)
LEMMA SurvivesTornSlot ==
    ASSUME FirstLap, TypeInv, LapInv, On, save.pc \in {"slot", "slot2"}, NEW g,
           g = Spoilt(flash, save.slot, 1, "torn")
    PROVE  \A k \in Logs : Survives(g, k)
<1> DEFINE l == save.l
           old == Found(flash, l)
           x == save.slot
<1>1. SaveFacts(l, old)
  BY SaveHolds
<1>p. /\ l \in Logs /\ begun \in Nat /\ begun > 0
      /\ Slots(flash, l, begun, {"blank"}) /\ GoodSlots(flash, l) \in Nat /\ GoodSlots(flash, l) <= begun - 1
      /\ Free(flash, l) \in Nat /\ InfoBegin(l) <= Free(flash, l) /\ Free(flash, l) + 1 < InfoEnd(l)
      /\ Data(flash, l, old, begun - 1) /\ End(l, old) \in Nat /\ End(l, old) + 2 * SectorSize <= DataEnd(l)
      /\ DataBegin(l) <= End(l, old)
  BY <1>1 DEF SaveFacts
<1>a. /\ InfoBegin(l) \in Nat /\ InfoEnd(l) \in Nat /\ DataEnd(l) \in Nat /\ DataBegin(l) = InfoEnd(l)
      /\ InfoEnd(l) <= DataEnd(l) /\ SectorSize \in Nat
  BY <1>p, AreaBounds
<1>u. x = Free(flash, l) \/ (old.total = 0 /\ x = InfoBegin(l))
  BY <1>1 DEF SaveFacts, InUpdate, Updating
<1>x. x \in Nat /\ InfoBegin(l) <= x /\ x < InfoEnd(l) /\ x < DataEnd(l)
  BY <1>p, <1>a, <1>u
<1> HIDE DEF x
<1>2. Agree(flash, g, {y \in Nat : y # x}) /\ Kind(g, x) = "torn"
  <2>1. {y \in Nat : y # x} \cap Span(x, 1) = {} /\ x \in Span(x, 1)
    BY <1>x DEF Span
  <2>2. g = Spoilt(flash, x, 1, "torn")
    BY DEF x
  <2>3. Agree(flash, Spoilt(flash, x, 1, "torn"), {y \in Nat : y # x})
    BY <2>1, SpoiltIs
  <2>4. Kind(Spoilt(flash, x, 1, "torn"), x) = "torn"
    BY <2>1, SpoiltIs
  <2> QED BY <2>2, <2>3, <2>4
<1>3. \A y \in Nat : y # x => Kind(g, y) = Kind(flash, y)
  BY <1>2, AgreeKind
<1>4. ASSUME NEW k \in Logs, k # l PROVE Survives(g, k)
  <2>1. \A y \in InfoBegin(k) .. DataEnd(k) - 1 : y # x
    BY <1>p, <1>x, <1>4, SectorOfLog
  <2>2. InfoBegin(k) \in Nat /\ DataEnd(k) \in Nat
    BY AreaBounds
  <2>3. InfoBegin(k) .. DataEnd(k) - 1 \subseteq {y \in Nat : y # x}
    BY <2>1, <2>2
  <2>4. Agree(flash, g, InfoBegin(k) .. DataEnd(k) - 1)
    BY <1>2, <2>3, AgreeSubset
  <2> QED BY <2>4, SurvivesAway
<1>5. Agree(flash, g, DataBegin(l) .. End(l, old) - 1)
  <2>1. DataBegin(l) .. End(l, old) - 1 \subseteq {y \in Nat : y # x}
    BY <1>p, <1>a, <1>x
  <2> QED BY <1>2, <2>1, AgreeSubset
<1>6. ASSUME SameNewest(old, Found(g, l))
      PROVE  Data(g, l, Found(g, l), begun) /\ AllCodes(g, Found(g, l)) = AllCodes(flash, Current(l))
  <2> DEFINE j == Found(g, l)
             m == begun - 1
  <2>1. m \in Nat /\ m <= begun /\ Data(flash, l, old, m) /\ SameNewest(old, j) /\ Current(l) = old
    BY <1>p, <1>6, OnFacts
  <2> HIDE DEF j, m, old
  <2>2. Data(g, l, j, begun) /\ AllCodes(g, j) = AllCodes(flash, old)
    BY <1>p, <1>5, <2>1, DataFrame
  <2> QED BY <2>1, <2>2 DEF j
<1>7. CASE x = Free(flash, l)
  <2>1. GoodSlots(g, l) = GoodSlots(flash, l) /\ Free(g, l) = Free(flash, l) /\ Found(g, l) = old
    <3>1. InfoBegin(l) .. Free(flash, l) - 1 \subseteq {y \in Nat : y # x}
      BY <1>p, <1>a, <1>7
    <3>2. Agree(flash, g, InfoBegin(l) .. Free(flash, l) - 1)
      BY <1>2, <3>1, AgreeSubset
    <3>3. Kind(g, Free(flash, l)) # "info"
      BY <1>2, <1>7
    <3> QED BY <1>p, <3>2, <3>3, FoundFrame
  <2>2. \A y \in Free(flash, l) + 1 .. InfoEnd(l) - 1 : Kind(g, y) = Kind(flash, y)
    <3>1. \A y \in Free(flash, l) + 1 .. InfoEnd(l) - 1 : y \in Nat /\ y # x
      BY <1>p, <1>a, <1>7
    <3> QED BY <1>3, <3>1
  <2>3. Slots(g, l, begun, {"blank", "torn"})
    <3>1. GoodSlots(flash, l) < begun /\ Free(flash, l) < InfoEnd(l)
      BY <1>p, <1>a
    <3>2. Kind(g, Free(flash, l)) = "torn"
      BY <1>2, <1>7
    <3> QED BY <1>p, <2>1, <2>2, <3>1, <3>2 DEF Slots
  <2>4. SameNewest(old, Found(g, l))
    BY <2>1, SameSelf
  <2>5. Survives(g, l)
    BY <1>p, <1>6, <2>1, <2>3, <2>4 DEF Survives
  <2> QED BY <1>4, <2>5
<1>8. CASE old.total = 0 /\ x = InfoBegin(l) /\ x # Free(flash, l)
  <2> DEFINE z == 0
  <2>1. z \in Nat /\ InfoBegin(l) + z = x /\ InfoBegin(l) + z <= InfoEnd(l)
        /\ \A y \in InfoBegin(l) .. InfoBegin(l) + z - 1 : Kind(g, y) = "info"
    BY <1>a, <1>x, <1>8
  <2> HIDE DEF z
  <2>2. GoodSlots(g, l) = z
    BY <1>p, <1>2, <2>1, GoodSlotsIs
  <2>3. GoodSlots(g, l) = 0 /\ Free(g, l) = x /\ Found(g, l).total = 0
    <3>1. GoodSlots(g, l) = 0
      BY <2>2 DEF z
    <3>2. Found(g, l).total = 0
      BY <3>1 DEF Found
    <3> QED BY <2>1, <2>2, <3>1, <3>2 DEF Free
  <2>4. ASSUME NEW y \in x + 1 .. InfoEnd(l) - 1 PROVE Kind(g, y) = "blank"
    <3>1. GoodSlots(flash, l) <= 1 /\ Kind(flash, Free(flash, l)) = "blank"
          /\ \A w \in Free(flash, l) + 1 .. InfoEnd(l) - 1 : Kind(flash, w) = "blank"
      BY <1>p, <1>8 DEF Slots
    <3>2. Free(flash, l) = x + 1
      BY <1>p, <1>a, <1>8, <3>1 DEF Free
    <3>3. y \in Nat /\ y # x /\ (y = Free(flash, l) \/ y \in Free(flash, l) + 1 .. InfoEnd(l) - 1)
      BY <1>a, <1>x, <3>2
    <3> QED BY <1>3, <3>1, <3>3
  <2>5. Slots(g, l, begun, {"blank", "torn"})
    BY <1>p, <1>x, <1>2, <2>3, <2>4 DEF Slots
  <2>6. SameNewest(old, Found(g, l))
    BY <1>8, <2>3 DEF SameNewest
  <2>7. Survives(g, l)
    BY <1>p, <1>6, <2>3, <2>5, <2>6 DEF Survives
  <2> QED BY <1>4, <2>7
<1> QED BY <1>u, <1>7, <1>8 DEF x

(* A sector that power failed in the erasure of. *)
LEMMA SurvivesErasure ==
    ASSUME FirstLap, TypeInv, LapInv, On, NEW a, NEW g, InSector(flash, g, a),
           \/ /\ save.pc = "ahead" /\ Sector(save.addr + save.size) # Sector(save.addr)
              /\ a = save.addr + save.size
           \/ save.pc = "probe" /\ a = save.addr + SectorSize
           \/ save.pc = "slotahead" /\ Sector(save.slot + 1) # Sector(save.slot) /\ a = save.slot + 1
    PROVE  \A k \in Logs : Survives(g, k)
<1> DEFINE l == save.l
           old == Found(flash, l)
<1>1. SaveFacts(l, old)
  BY SaveHolds
<1>p. /\ l \in Logs /\ begun \in Nat /\ begun > 0
      /\ Slots(flash, l, begun, {"blank"}) /\ GoodSlots(flash, l) \in Nat /\ GoodSlots(flash, l) <= begun - 1
      /\ Free(flash, l) \in Nat /\ InfoBegin(l) <= Free(flash, l) /\ Free(flash, l) + 1 < InfoEnd(l)
      /\ Data(flash, l, old, begun - 1) /\ End(l, old) \in Nat /\ End(l, old) + 2 * SectorSize <= DataEnd(l)
      /\ DataBegin(l) <= End(l, old) /\ save.addr \in Nat /\ save.size \in 1..SectorSize
  BY <1>1 DEF SaveFacts
<1>a. /\ InfoBegin(l) \in Nat /\ InfoEnd(l) \in Nat /\ DataEnd(l) \in Nat /\ DataBegin(l) = InfoEnd(l)
      /\ InfoBegin(l) <= InfoEnd(l) /\ SectorSize \in Nat /\ SectorSize > 0
  BY <1>p, AreaBounds
<1>2. ASSUME save.pc \in {"ahead", "probe"}, Sector(save.addr) < Sector(a), a \in Nat, a < DataEnd(l)
      PROVE  \A k \in Logs : Survives(g, k)
  <2> DEFINE c == save.addr
             z == End(l, old)
  <2>1. z \in Nat /\ c \in Nat /\ z <= c /\ InfoBegin(l) <= c /\ Sector(c) < Sector(a)
    BY <1>1, <1>2, <1>p, <1>a DEF SaveFacts
  <2> HIDE DEF c, z
  <2>2. /\ Agree(flash, g, InfoBegin(l) .. z - 1)
        /\ \A k \in Logs : k # l => Agree(flash, g, InfoBegin(k) .. DataEnd(k) - 1)
    BY <1>p, <1>2, <2>1, BehindSector
  <2>3. Survives(g, l)
    BY <1>p, <2>2, SurvivesBehind DEF z
  <2>4. ASSUME NEW k \in Logs, k # l PROVE Survives(g, k)
    BY <2>2, <2>4, SurvivesAway
  <2> QED BY <2>3, <2>4
<1>3. CASE save.pc = "ahead"
  <2>1. a = save.addr + save.size /\ Sector(a) # Sector(save.addr) /\ save.addr = End(l, old)
    BY <1>1, <1>3 DEF SaveFacts, Writing
  <2>2. a \in Nat /\ save.addr <= a /\ a < DataEnd(l)
    BY <1>p, <1>a, <2>1
  <2>3. Sector(save.addr) < Sector(a)
    <3>1. Sector(save.addr) \in Nat /\ Sector(a) \in Nat /\ Sector(save.addr) <= Sector(a)
      BY <1>p, <2>2, SectorBounds, SectorOrder
    <3> QED BY <2>1, <3>1
  <2> QED BY <1>2, <1>3, <2>2, <2>3
<1>4. CASE save.pc = "probe"
  <2>1. a = save.addr + SectorSize /\ save.addr = End(l, old)
    BY <1>1, <1>4 DEF SaveFacts, Writing
  <2>2. a \in Nat /\ a < DataEnd(l)
    BY <1>p, <1>a, <2>1
  <2>3. Sector(save.addr) < Sector(a)
    BY <1>p, <2>1, SectorOrder
  <2> QED BY <1>2, <1>4, <2>2, <2>3
<1>5. CASE save.pc = "slotahead"
  <2>1. /\ old.total # 0 /\ a = Free(flash, l) + 1 /\ Sector(Free(flash, l) + 1) # Sector(Free(flash, l))
        /\ InSector(flash, g, Free(flash, l) + 1)
    BY <1>5, SlotNotLast
  <2> DEFINE m == begun - 1
  <2>m. m \in Nat /\ m <= begun /\ Data(flash, l, Found(flash, l), m)
    BY <1>p
  <2> HIDE DEF m
  <2>2. /\ GoodSlots(g, l) = GoodSlots(flash, l) /\ Found(g, l) = Found(flash, l)
        /\ Slots(g, l, begun, {"blank"})
        /\ Data(g, l, Found(g, l), m)
        /\ AllCodes(g, Found(g, l)) = AllCodes(flash, Found(flash, l))
        /\ \A k \in Logs : k # l => Agree(flash, g, InfoBegin(k) .. DataEnd(k) - 1)
    BY <1>p, <2>m, <2>1, SlotsAhead
  <2>3. Data(g, l, Found(g, l), begun)
    <3>1. \A S : Agree(g, g, S)
      BY DEF Agree
    <3> DEFINE i == Found(g, l)
    <3> HIDE DEF i
    <3>2. Data(g, l, i, m) /\ SameNewest(i, i)
      BY <2>2, SameSelf DEF i
    <3>3. Data(g, l, i, begun)
      BY <1>p, <2>m, <3>1, <3>2, DataFrame
    <3> QED BY <3>3 DEF i
  <2>4. Slots(g, l, begun, {"blank", "torn"}) /\ GoodSlots(g, l) <= begun
    BY <1>p, <2>2 DEF Slots
  <2>5. Survives(g, l)
    BY <2>2, <2>3, <2>4, OnFacts DEF Survives
  <2>6. ASSUME NEW k \in Logs, k # l PROVE Survives(g, k)
    BY <2>2, <2>6, SurvivesAway
  <2> QED BY <2>5, <2>6
<1> QED BY <1>3, <1>4, <1>5

(* A record that power failed in the writing of. *)
LEMMA SurvivesTornRecord ==
    ASSUME FirstLap, TypeInv, LapInv, On, save.pc = "write", NEW n \in 1..save.size, NEW g,
           g = Spoilt(flash, save.addr, n, "torn")
    PROVE  \A k \in Logs : Survives(g, k)
<1> DEFINE l == save.l
           a == save.addr
           z == End(l, Found(flash, l))
<1>1. SaveFacts(l, Found(flash, l))
  BY SaveHolds
<1>2. /\ l \in Logs /\ a \in Nat /\ n \in Nat /\ n > 0 /\ z \in Nat /\ z <= a /\ InfoBegin(l) <= a /\ a + n <= DataEnd(l)
  <2>1. l \in Logs /\ a \in Nat /\ save.size \in 1..SectorSize /\ z \in Nat /\ z <= a /\ a <= z + SectorSize
        /\ z + 2 * SectorSize <= DataEnd(l) /\ DataBegin(l) <= z
    BY <1>1 DEF SaveFacts
  <2>2. InfoBegin(l) \in Nat /\ DataEnd(l) \in Nat /\ DataBegin(l) \in Nat /\ InfoBegin(l) <= DataBegin(l) /\ SectorSize \in Nat
    BY <2>1, AreaBounds
  <2> QED BY <2>1, <2>2
<1>3. g = Spoilt(flash, a, n, "torn")
  OBVIOUS
<1> HIDE DEF a, z
<1>4. InSpan(flash, Spoilt(flash, a, n, "torn"), a, n)
  BY <1>2, WriteStays
<1>5. /\ Agree(flash, g, InfoBegin(l) .. z - 1)
      /\ \A k \in Logs : k # l => Agree(flash, g, InfoBegin(k) .. DataEnd(k) - 1)
  BY <1>2, <1>3, <1>4, BehindSpan
<1>6. Survives(g, l)
  BY <1>2, <1>5, SurvivesBehind DEF z
<1>7. ASSUME NEW k \in Logs, k # l PROVE Survives(g, k)
  BY <1>5, <1>7, SurvivesAway
<1> QED BY <1>6, <1>7

(* Whatever operation power fails in, both logs survive. *)
LEMMA InterruptedSurvives ==
    ASSUME FirstLap, TypeInv, LapInv, On, NEW f \in Interrupted
    PROVE  \A k \in Logs : Survives(f, k)
<1> DEFINE erase == CASE boot.pc = "erase" -> {InfoBegin(boot.l)}
                   [] At("ahead") /\ Sector(save.addr + save.size) # Sector(save.addr) ->
                        {save.addr + save.size}
                   [] At("probe") /\ ~AllBlank(flash, save.addr, save.size) ->
                        {save.addr + SectorSize}
                   [] At("slotahead") /\ Sector(save.slot + 1) # Sector(save.slot) ->
                        {save.slot + 1}
                   [] OTHER -> {}
           slot == CASE boot.pc = "write" -> {InfoBegin(boot.l)}
                  [] save.pc \in {"slot", "slot2"} -> {save.slot}
                  [] OTHER -> {}
<1>0. boot.pc = "on" /\ boot.pc # "erase" /\ boot.pc # "write"
  BY DEF On
<1>2. ASSUME NEW a \in erase
      PROVE  /\ a \in Nat
             /\ \/ /\ save.pc = "ahead" /\ Sector(save.addr + save.size) # Sector(save.addr)
                   /\ a = save.addr + save.size
                \/ save.pc = "probe" /\ a = save.addr + SectorSize
                \/ save.pc = "slotahead" /\ Sector(save.slot + 1) # Sector(save.slot) /\ a = save.slot + 1
  <2>1. CASE save.pc = "ahead"
    <3>1. a = save.addr + save.size /\ Sector(save.addr + save.size) # Sector(save.addr)
      BY <1>0, <2>1 DEF At
    <3> QED BY <2>1, <3>1, SavePlaceFacts, AreaBounds
  <2>2. CASE save.pc = "probe"
    <3>1. a = save.addr + SectorSize
      BY <1>0, <2>2 DEF At
    <3> QED BY <2>2, <3>1, SavePlaceFacts, AreaBounds
  <2>3. CASE save.pc = "slotahead"
    <3>1. a = save.slot + 1 /\ Sector(save.slot + 1) # Sector(save.slot)
      BY <1>0, <2>3 DEF At
    <3> QED BY <2>3, <3>1, SavePlaceFacts, AreaBounds
  <2>4. CASE save.pc \notin {"ahead", "probe", "slotahead"}
    BY <1>0, <2>4 DEF At
  <2> QED BY <2>1, <2>2, <2>3, <2>4
<1>3. ASSUME NEW a \in slot
      PROVE  save.pc \in {"slot", "slot2"} /\ a = save.slot
  BY <1>0
<1>4. \/ f = flash
      \/ \E a \in erase : f = Erased(flash, a)
      \/ \E a \in erase : f = Spoilt(flash, Sector(a) * SectorSize, SectorSize, "torn")
      \/ \E a \in slot, k \in TornSlots : f = Spoilt(flash, a, 1, k)
      \/ At("write") /\ \E n \in 1..save.size : f = Spoilt(flash, save.addr, n, "torn")
  BY DEF Interrupted
<1> HIDE DEF erase, slot
<1>5. CASE f = flash
  BY <1>5, SurvivesSame
<1>6. CASE \/ \E a \in erase : f = Erased(flash, a)
           \/ \E a \in erase : f = Spoilt(flash, Sector(a) * SectorSize, SectorSize, "torn")
  <2>1. PICK a \in erase : \/ f = Erased(flash, a)
                           \/ f = Spoilt(flash, Sector(a) * SectorSize, SectorSize, "torn")
    BY <1>6
  <2>2. InSector(flash, f, a)
    BY <1>2, <2>1, ErasureStays
  <2> QED BY <1>2, <2>2, SurvivesErasure
<1>7. CASE \E a \in slot, k \in TornSlots : f = Spoilt(flash, a, 1, k)
  <2>1. save.pc \in {"slot", "slot2"} /\ f = Spoilt(flash, save.slot, 1, "torn")
    BY <1>3, <1>7 DEF FirstLap
  <2> QED BY <2>1, SurvivesTornSlot
<1>8. CASE At("write") /\ \E n \in 1..save.size : f = Spoilt(flash, save.addr, n, "torn")
  BY <1>8, SurvivesTornRecord DEF At
<1> QED BY <1>4, <1>5, <1>6, <1>7, <1>8

(* A power failure keeps both logs. *)
LEMMA LapCrash ==
    ASSUME FirstLap, TypeInv, LapInv, Crash, faults.boot \in Nat
    PROVE  LapInv' /\ \A k \in Logs : KeptAt(k)
<1>1. On /\ flash' \in Interrupted /\ Stopped /\ begun' = begun
  BY DEF Crash, FirstLap
<1>2. \A l \in Logs : Survives(flash', l)
  BY <1>1, InterruptedSurvives
<1> QED BY <1>1, <1>2, LapStopped

(* The steps that leave the flash and what is in RAM alone. *)
LEMMA LapSame ==
    ASSUME LapInv, flash' = flash, info' = info, boot' = boot, comm_stat' = comm_stat,
           save' = save, begun' = begun
    PROVE  LapInv' /\ \A k \in Logs : KeptAt(k)
<1>1. LapInv'
  BY DEF LapInv, LogInv, SlotPart, DataPart, RamPart, RepairPart, WritePart, OkPart, Repairing,
         Current, Unseen, FreeKinds, Known, Updating, InUpdate, Writing, On
<1>2. \A k \in Logs : KeptAt(k)
  BY DEF KeptAt, Current, Repairing
<1> QED BY <1>1, <1>2

(* A save that does not get Log_Sem changes no log. *)
LEMMA LapSaveTimeout ==
    ASSUME FirstLap, TypeInv, LapInv, SaveTimeout
    PROVE  LapInv' /\ \A k \in Logs : KeptAt(k)
<1>1. On /\ begun' = begun
  BY DEF SaveTimeout
<1>2. CASE TooMany(Log_Err_cnt + 1)
  <2>1. Stopped /\ flash' \in Interrupted
    BY <1>2 DEF SaveTimeout
  <2>2. \A l \in Logs : Survives(flash', l)
    BY <1>1, <2>1, InterruptedSurvives
  <2> QED BY <1>1, <2>1, <2>2, LapStopped
<1>3. CASE ~TooMany(Log_Err_cnt + 1)
  <2>1. /\ flash' = flash /\ info' = info /\ boot' = boot /\ comm_stat' = comm_stat
        /\ save' = save
    BY <1>3 DEF SaveTimeout
  <2> QED BY <1>1, <2>1, LapSame
<1> QED BY <1>2, <1>3

(* The wrapper counts, posts and may reset the MCU; the logs stay. *)
LEMMA LapSavePost ==
    ASSUME FirstLap, TypeInv, LapInv, SavePost
    PROVE  LapInv' /\ \A k \in Logs : KeptAt(k)
<1>1. On /\ save.pc = "post" /\ begun' = begun /\ flash' = flash
  BY DEF SavePost, At
<1>2. CASE ~save.ok /\ TooMany(Log_Err_cnt + 1)
  <2>1. Stopped
    BY <1>2 DEF SavePost
  <2>2. \A l \in Logs : Survives(flash', l)
    BY <1>1, SurvivesSame
  <2> QED BY <1>1, <2>1, <2>2, LapStopped
<1>3. CASE ~(~save.ok /\ TooMany(Log_Err_cnt + 1))
  <2>1. info' = info /\ boot' = boot /\ comm_stat' = comm_stat /\ save' = NoSave
    BY <1>3 DEF SavePost
  <2>2. save'.pc = "idle" /\ ~save'.ok /\ Known' = begun
    BY <1>1, <2>1 DEF NoSave, Known
  <2>k. begun \in Nat /\ Known \in Nat /\ Known <= begun
    BY KnownFacts
  <2>3. ASSUME NEW l \in Logs PROVE LogInv(l)' /\ KeptAt(l)
    <3>0. LogInv(l)
      BY DEF LapInv
    <3>1. /\ ~Repairing(l) /\ ~Repairing(l)' /\ FreeKinds(l)' = FreeKinds(l) /\ ~Unseen(l) /\ On'
      BY <1>1, <2>1 DEF On, Repairing, FreeKinds, Unseen
    <3>2. Agree(flash, flash', InfoBegin(l) .. End(l, Found(flash, l)) - 1)
      BY <1>1 DEF Agree
    <3>3. SlotPart(l)' /\ DataPart(l)' /\ KeptAt(l)
      BY <1>1, <2>2, <2>k, <3>0, <3>1, <3>2, LogFrame DEF LogInv
    <3>4. RamPart(l)'
      <4>1. Settled(flash, l, info[l]) /\ ~InUpdate(l)'
        BY <1>1, <2>2, <3>0, <3>1 DEF LogInv, RamPart, InUpdate
      <4> QED BY <1>1, <2>1, <4>1 DEF RamPart
    <3>5. RepairPart(l)' /\ WritePart(l)' /\ OkPart(l)'
      BY <2>2, <3>1 DEF RepairPart, WritePart, OkPart, On
    <3> QED BY <3>3, <3>4, <3>5 DEF LogInv
  <2> QED BY <1>1, <2>1, <2>2, <2>3 DEF LapInv, On
<1> QED BY <1>2, <1>3

(* A save begins at a place behind the records. *)
LEMMA LapSaveBegin ==
    ASSUME FirstLap, TypeInv, LapInv, NEW l \in Logs, NEW size \in Sizes, SaveBegin(l, size)
    PROVE  LapInv' /\ \A k \in Logs : KeptAt(k)
<1> DEFINE old == Found(flash, l)
<1>0. /\ On /\ save.pc = "idle" /\ begun < MaxSaves /\ begun' = begun + 1
      /\ flash' = flash /\ boot' = boot /\ comm_stat' = comm_stat /\ comm_stat = 0
  BY DEF SaveBegin, At, LapInv
<1>1. /\ save' = [NoSave EXCEPT !.pc = "ahead", !.l = l, !.size = size,
                                !.addr = NewAddress(l), !.c = begun + 1,
                                !.n = IF info[l].total = 0 THEN 1 ELSE info[l].n + 1]
      /\ info' = IF info[l].total = 0
                 THEN [info EXCEPT ![l].addr = DataBegin(l), ![l].n = 1, ![l].size = size]
                 ELSE info
  BY <1>0 DEF SaveBegin
<1>2. /\ save'.pc = "ahead" /\ save'.l = l /\ save'.size = size /\ save'.addr = NewAddress(l)
      /\ save'.c = begun + 1 /\ ~save'.ok
  BY <1>1 DEF NoSave
<1>t. begun \in Nat /\ info \in [Logs -> InfoType(Counted)] /\ Counted = begun
  BY <1>0, FlashLogAssumption DEF TypeInv, Counted, Early
<1>3. Known = begun /\ Known' = begun
  BY <1>0, <1>2, <1>t DEF Known
<1>4. LogInv(l)
  BY DEF LapInv
<1>5. ~Repairing(l) /\ ~Unseen(l) /\ FreeKinds(l) = {"blank"} /\ Current(l) = old
  BY <1>0, OnFacts
<1>s. /\ Settled(flash, l, info[l]) /\ Data(flash, l, old, begun)
  <2>1. ~InUpdate(l)
    BY <1>0 DEF InUpdate
  <2> QED BY <1>3, <1>4, <1>5, <2>1 DEF LogInv, RamPart, DataPart
<1>6. ASSUME NEW k \in Logs
      PROVE  SlotPart(k)' /\ DataPart(k)' /\ KeptAt(k) /\ ~Unseen(k) /\ ~Unseen(k)'
  <2>0. LogInv(k)
    BY DEF LapInv
  <2>1. /\ ~Repairing(k) /\ ~Repairing(k)' /\ FreeKinds(k)' = FreeKinds(k) /\ ~Unseen(k) /\ ~Unseen(k)'
    BY <1>0 DEF On, Repairing, FreeKinds, Unseen
  <2>2. Agree(flash, flash', InfoBegin(k) .. End(k, Found(flash, k)) - 1)
    BY <1>0 DEF Agree
  <2>3. begun' \in Nat /\ begun <= begun' /\ begun <= begun
    BY <1>0, <1>t
  <2> QED BY <1>t, <1>3, <2>0, <2>1, <2>2, <2>3, LogFrame DEF LogInv
<1>7. ASSUME NEW k \in Logs PROVE Settled(flash, k, info'[k])
  <2>1. Settled(flash, k, info[k])
    <3>1. LogInv(k) /\ ~InUpdate(k)
      BY <1>0 DEF LapInv, InUpdate
    <3> QED BY <1>6, <3>1 DEF LogInv, RamPart
  <2>2. CASE info'[k] = info[k]
    BY <2>1, <2>2
  <2>3. CASE info'[k] # info[k]
    <3>1. k = l /\ info[k].total = 0 /\ info'[k].total = 0
      BY <1>1, <1>t, <2>3 DEF InfoType
    <3> QED BY <2>1, <3>1 DEF Settled, SameNewest
  <2> QED BY <2>2, <2>3
<1>8. \A k \in Logs : RamPart(k)' /\ RepairPart(k)' /\ OkPart(k)'
  <2>1. \A k \in Logs : ~InUpdate(k)'
    BY <1>2 DEF InUpdate
  <2> QED BY <1>0, <1>2, <1>7, <2>1 DEF RamPart, RepairPart, OkPart, On
<1>9. NewAddress(l) = End(l, old)
  <2>1. old.total \in Nat /\ info[l].total = old.total
        /\ (old.total > 0 => info[l].addr = old.addr /\ info[l].size = old.size)
    BY <1>s DEF Settled, SameNewest, Data, Counts
  <2>2. CASE old.total = 0
    BY <2>1, <2>2 DEF NewAddress, End
  <2>3. CASE old.total # 0
    <3>1. End(l, old) = info[l].addr + info[l].size
      BY <2>1, <2>3 DEF End
    <3>2. End(l, old) + 2 * SectorSize <= DataEnd(l) /\ End(l, old) \in Nat
      <4>1. old.total <= begun
        <5>1. Counted \in Nat /\ FlashType(flash, Counted)
          BY DEF TypeInv
        <5>2. old \in InfoType(Counted)
          BY <5>1, FoundTyped
        <5> QED BY <1>t, <5>2 DEF InfoType
      <4>2. MaxSaves - old.total - 1 \in Nat /\ old.total + 1 + (MaxSaves - old.total - 1) = MaxSaves
        BY <1>0, <1>t, <2>1, <4>1, FlashLogAssumption
      <4> HIDE DEF old
      <4>3. \E k \in Nat : old.total + 1 + k = MaxSaves
        BY <4>2
      <4> QED BY <1>s, <4>3, RoomFacts
    <3>3. DataEnd(l) \in Nat /\ SectorSize \in Nat /\ SectorSize > 0
      BY AreaBounds
    <3>4. ~(info[l].addr + info[l].size >= DataEnd(l))
      BY <3>1, <3>2, <3>3
    <3> QED BY <2>1, <2>3, <3>1, <3>4 DEF NewAddress
  <2> QED BY <2>2, <2>3
<1>10. WritePart(l)'
  <2>1. size \in 1..SectorSize
    BY FlashLogAssumption
  <2>2. End(l, old) \in Nat /\ SectorSize \in Nat
    BY <1>s, AreaBounds DEF Data, Counts
  <2>3. Writing(l)'
    BY <1>0, <1>2, <1>9, <2>1, <2>2 DEF Writing
  <2> QED BY <2>3 DEF WritePart
<1>11. ASSUME NEW k \in Logs PROVE LogInv(k)'
  <2>1. WritePart(k)'
    BY <1>2, <1>10 DEF WritePart
  <2> QED BY <1>6, <1>8, <2>1 DEF LogInv
<1>12. LapInv'
  <2>1. comm_stat' = 0 /\ boot'.try = 0 /\ On' /\ begun' > 0
    BY <1>0, <1>t DEF LapInv, On
  <2> QED BY <1>0, <1>2, <1>11, <2>1 DEF LapInv
<1> QED BY <1>6, <1>12

-----------------------------------------------------------------------------
(* The start.                                                              *)

(* A step of the start that stays away from log l. *)
LEMMA BootLog ==
    ASSUME TypeInv, LapInv, ~On, save' = save, begun' = begun, NEW l \in Logs,
           ~Repairing(l), ~Repairing(l)', RepairPart(l)', FreeKinds(l) \subseteq FreeKinds(l)',
           ~Unseen(l)' => ~Unseen(l) /\ info'[l] = info[l],
           Agree(flash, flash', InfoBegin(l) .. DataEnd(l) - 1)
    PROVE  LogInv(l)' /\ KeptAt(l)
<1>1. save.pc = "idle" /\ ~save.ok /\ LogInv(l)
  BY DEF LapInv, NoSave
<1>2. begun \in Nat /\ Known \in Nat /\ Known' = Known
  BY KnownFacts DEF Known
<1>3. Data(flash, l, Found(flash, l), Known)
  BY <1>1 DEF LogInv, DataPart, Current
<1>4. Agree(flash, flash', InfoBegin(l) .. End(l, Found(flash, l)) - 1)
  <2>1. /\ End(l, Found(flash, l)) \in Nat /\ End(l, Found(flash, l)) <= DataEnd(l)
        /\ InfoBegin(l) \in Nat /\ DataEnd(l) \in Nat
    BY <1>3, RoomFacts, AreaBounds
  <2>2. InfoBegin(l) .. End(l, Found(flash, l)) - 1 \subseteq InfoBegin(l) .. DataEnd(l) - 1
    BY <2>1
  <2> QED BY <2>2, AgreeSubset
<1>5. SlotPart(l)' /\ DataPart(l)' /\ KeptAt(l) /\ Found(flash', l) = Found(flash, l)
  BY <1>1, <1>2, <1>4, LogFrame DEF LogInv
<1>6. RamPart(l)'
  <2>1. ~InUpdate(l) /\ ~InUpdate(l)'
    BY <1>1 DEF InUpdate
  <2> QED BY <1>1, <1>5, <2>1 DEF LogInv, RamPart, Settled
<1>7. WritePart(l)' /\ OkPart(l)'
  BY <1>1 DEF WritePart, OkPart
<1> QED BY <1>5, <1>6, <1>7 DEF LogInv

(* What is left to show of a step of the start. *)
LEMMA BootStepEnds ==
    ASSUME LapInv, ~On, save' = save, begun' = begun, comm_stat' = 0, boot'.try = 0,
           \A l \in Logs : LogInv(l)'
    PROVE  LapInv'
<1>1. save = NoSave
  BY DEF LapInv
<1>2. save'.pc = "idle" /\ ~save'.ok
  BY <1>1 DEF NoSave
<1> QED BY <1>1, <1>2 DEF LapInv

(* Power up forgets what was in RAM only. *)
LEMMA LapPowerUp ==
    ASSUME FirstLap, TypeInv, LapInv, PowerUp
    PROVE  LapInv' /\ \A k \in Logs : KeptAt(k)
<1>1. /\ boot.pc = "off" /\ boot'.pc = "scan" /\ boot'.l = "opt" /\ boot'.try = 0 /\ flash' = flash /\ info' = info
      /\ save' = save /\ begun' = begun /\ comm_stat' = 0
  BY DEF PowerUp, LapInv
<1>2. ASSUME NEW l \in Logs PROVE LogInv(l)' /\ KeptAt(l)
  <2>1. /\ ~On /\ ~Repairing(l) /\ ~Repairing(l)' /\ RepairPart(l)' /\ Unseen(l)'
        /\ FreeKinds(l) \subseteq FreeKinds(l)'
    BY <1>1 DEF On, Repairing, RepairPart, Unseen, FreeKinds
  <2>2. Agree(flash, flash', InfoBegin(l) .. DataEnd(l) - 1)
    BY <1>1 DEF Agree
  <2> QED BY <1>1, <2>1, <2>2, BootLog
<1> QED BY <1>1, <1>2, BootStepEnds DEF On

(* The scan finds the newest slot and sees a torn one. *)
LEMMA LapScan ==
    ASSUME FirstLap, TypeInv, LapInv, Scan
    PROVE  LapInv' /\ \A k \in Logs : KeptAt(k)
<1>0. boot.l \in Logs
  BY DEF TypeInv, BootType
<1>l. PICK l \in Logs : l = boot.l
  BY <1>0
<1>1. /\ boot.pc = "scan" /\ info' = [info EXCEPT ![l] = Found(flash, l)]
      /\ boot' = IF NeedsRepair(flash, l) THEN [boot EXCEPT !.pc = "erase"] ELSE BootNext(boot)
      /\ flash' = flash /\ save' = save /\ begun' = begun /\ comm_stat' = 0
  BY <1>l DEF Scan, LapInv
<1>2. l \in Logs /\ boot \in BootType /\ info \in [Logs -> InfoType(Counted)] /\ boot.try = 0
  BY <1>l DEF TypeInv, BootType, LapInv
<1>3. ~On /\ ~Repairing(l) /\ Unseen(l) /\ FreeKinds(l) = {"blank", "torn"} /\ Current(l) = Found(flash, l)
  BY <1>l, <1>1 DEF On, Repairing, Unseen, FreeKinds, Current
<1>4. \/ NeedsRepair(flash, l) /\ boot'.pc = "erase" /\ boot'.l = l /\ boot'.try = 0
      \/ /\ ~NeedsRepair(flash, l) /\ boot'.try = 0
         /\ \/ l = "opt" /\ boot'.pc = "scan" /\ boot'.l = "warn"
            \/ l = "warn" /\ boot'.pc = "on" /\ boot'.l = "opt"
  BY <1>l, <1>1, <1>2 DEF BootType, BootNext, Logs
<1>5. ASSUME NEW k \in Logs, k # l PROVE LogInv(k)' /\ KeptAt(k)
  <2>1. info'[k] = info[k]
    BY <1>1, <1>2, <1>5
  <2>2. ~Repairing(k) /\ ~Repairing(k)' /\ RepairPart(k)'
    BY <1>1, <1>4, <1>5 DEF Repairing, RepairPart
  <2>3. Unseen(k)' <=> Unseen(k)
    BY <1>l, <1>1, <1>2, <1>4, <1>5 DEF Unseen, On, Logs
  <2>4. FreeKinds(k) \subseteq FreeKinds(k)'
    BY <2>3 DEF FreeKinds
  <2>5. Agree(flash, flash', InfoBegin(k) .. DataEnd(k) - 1)
    BY <1>1 DEF Agree
  <2> QED BY <1>1, <1>3, <2>1, <2>2, <2>3, <2>4, <2>5, BootLog
<1>6. LogInv(l)' /\ KeptAt(l)
  <2>0. LogInv(l) /\ save.pc = "idle" /\ ~save.ok /\ Known' = Known
    BY <1>1, <1>2, <1>3 DEF LapInv, NoSave, Known
  <2>1. ~Repairing(l)' /\ Current(l)' = Found(flash, l) /\ info'[l] = Found(flash, l)
    BY <1>1, <1>2, <1>4 DEF Repairing, Current
  <2>2. Slots(flash, l, begun, {"blank", "torn"}) /\ GoodSlots(flash, l) <= Known
    BY <1>3, <2>0 DEF LogInv, SlotPart
  <2>3. DataPart(l)' /\ KeptAt(l)
    BY <1>1, <1>3, <2>0, <2>1 DEF LogInv, DataPart, KeptAt
  <2>4. WritePart(l)' /\ OkPart(l)' /\ ~InUpdate(l)'
    BY <1>1, <2>0 DEF WritePart, OkPart, InUpdate
  <2>5. CASE NeedsRepair(flash, l)
    <3>1. boot'.pc = "erase" /\ boot'.l = l
      BY <1>4, <2>5
    <3>2. Unseen(l)' /\ FreeKinds(l)' = {"blank", "torn"}
      BY <3>1 DEF Unseen, FreeKinds, On
    <3>3. SlotPart(l)' /\ RamPart(l)'
      BY <1>1, <2>0, <2>1, <2>2, <3>2 DEF SlotPart, RamPart
    <3>4. Kind(flash, Free(flash, l)) = "torn"
      BY <2>2, <2>5 DEF Slots, NeedsRepair, Free
    <3>5. RepairPart(l)'
      BY <1>1, <2>1, <3>4 DEF RepairPart
    <3> QED BY <2>3, <2>4, <3>3, <3>5 DEF LogInv
  <2>6. CASE ~NeedsRepair(flash, l)
    <3>1. ~Unseen(l)' /\ FreeKinds(l)' = {"blank"} /\ RepairPart(l)'
      BY <1>2, <1>4, <2>6 DEF Unseen, FreeKinds, On, RepairPart, Logs
    <3>2. Kind(flash, Free(flash, l)) = "blank"
      BY <2>2, <2>6 DEF Slots, NeedsRepair, Free
    <3>3. Slots(flash, l, begun, {"blank"})
      BY <2>2, <3>2 DEF Slots
    <3>4. SlotPart(l)'
      BY <1>1, <2>0, <2>1, <2>2, <3>1, <3>3 DEF SlotPart
    <3>5. RamPart(l)'
      <4>1. Settled(flash', l, info'[l])
        BY <1>1, <2>1, SameSelf DEF Settled
      <4> QED BY <2>4, <4>1 DEF RamPart
    <3> QED BY <2>3, <2>4, <3>1, <3>4, <3>5 DEF LogInv
  <2> QED BY <2>5, <2>6
<1>7. boot'.try = 0
  BY <1>4
<1> QED BY <1>1, <1>3, <1>5, <1>6, <1>7, BootStepEnds

(* The repair wipes the sector, with what it found in RAM. *)
LEMMA LapRepairErase ==
    ASSUME FirstLap, TypeInv, LapInv, RepairErase
    PROVE  LapInv' /\ \A k \in Logs : KeptAt(k)
<1>0. boot.l \in Logs /\ boot \in BootType /\ boot.try = 0
  BY DEF TypeInv, BootType, LapInv
<1>l. PICK l \in Logs : l = boot.l
  BY <1>0
<1> DEFINE b == InfoBegin(l)
           old == Found(flash, l)
<1>1. /\ boot.pc = "erase" /\ flash' = Erased(flash, b) /\ info' = info
      /\ boot'.pc = "write" /\ boot'.l = l /\ boot'.try = 0
      /\ save' = save /\ begun' = begun /\ comm_stat' = 0
  BY <1>0, <1>l DEF RepairErase, LapInv, BootType
<1>2. /\ ~On /\ ~Repairing(l) /\ Unseen(l) /\ FreeKinds(l) = {"blank", "torn"} /\ Current(l) = old
      /\ Repairing(l)' /\ Unseen(l)' /\ Current(l)' = info[l]
  BY <1>l, <1>1 DEF On, Repairing, Unseen, FreeKinds, Current
<1>3. LogInv(l) /\ save.pc = "idle" /\ ~save.ok /\ Known' = Known
  BY <1>1, <1>2 DEF LapInv, NoSave, Known
<1>4. /\ info[l] = old /\ Kind(flash, Free(flash, l)) = "torn"
      /\ Slots(flash, l, begun, {"blank", "torn"}) /\ Data(flash, l, old, Known)
  BY <1>l, <1>1, <1>2, <1>3 DEF LogInv, RepairPart, SlotPart, DataPart
<1>k. begun \in Nat /\ Known \in Nat /\ Known <= begun /\ GoodSlots(flash, l) \in Nat
  BY KnownFacts, GoodSlotsCount
<1>5. begun > 0
  <2>1. GoodSlots(flash, l) < begun
    BY <1>4 DEF Slots
  <2> QED BY <1>k, <2>1
<1>a. /\ b \in Nat /\ InfoEnd(l) \in Nat /\ DataEnd(l) \in Nat /\ DataBegin(l) = InfoEnd(l)
      /\ b + SectorSize <= InfoEnd(l) /\ SectorSize \in Nat /\ SectorSize >= 2 /\ InfoEnd(l) <= DataEnd(l)
  BY AreaBounds DEF FirstLap
<1>6. /\ \A y \in b .. b + SectorSize - 1 : Sector(y) = Sector(b)
      /\ \A y \in InfoEnd(l) .. DataEnd(l) - 1 : Sector(y) # Sector(b)
  BY FirstSector
<1>e. /\ \A S : (\A y \in S : Sector(y) # Sector(b)) => Agree(flash, flash', S)
      /\ \A y : Sector(y) = Sector(b) => Kind(flash', y) = "blank"
  BY <1>1, ErasedIs
<1>7. Wiped(flash', l, info[l])
  <2>1. \A y \in InfoBegin(l) .. InfoBegin(l) + SectorSize - 1 : Kind(flash', y) = "blank"
    BY <1>6, <1>e
  <2>2. ASSUME old.total = 0, NEW y \in InfoBegin(l) .. InfoEnd(l) - 1 PROVE Kind(flash', y) = "blank"
    <3>1. CASE Sector(y) = Sector(b)
      BY <1>e, <3>1
    <3>2. CASE Sector(y) # Sector(b)
      <4>1. Kind(flash', y) = Kind(flash, y)
        <5>1. Agree(flash, flash', {y})
          BY <1>e, <3>2
        <5> QED BY <5>1, AgreeKind
      <4>2. GoodSlots(flash, l) <= 1 /\ \A w \in Free(flash, l) + 1 .. InfoEnd(l) - 1 : Kind(flash, w) = "blank"
        BY <1>4, <2>2 DEF Slots
      <4>3. ~(y < b + SectorSize)
        <5>1. y \notin b .. b + SectorSize - 1
          BY <1>6, <3>2
        <5> QED BY <1>a, <5>1
      <4>4. y \in Free(flash, l) + 1 .. InfoEnd(l) - 1
        BY <1>k, <1>a, <4>2, <4>3 DEF Free
      <4> QED BY <4>1, <4>2, <4>4
    <3> QED BY <3>1, <3>2
  <2> QED BY <1>4, <2>1, <2>2 DEF Wiped
<1>8. DataPart(l)' /\ KeptAt(l)
  <2>1. End(l, old) \in Nat /\ End(l, old) <= DataEnd(l)
    BY <1>4, RoomFacts
  <2>2. \A y \in DataBegin(l) .. End(l, old) - 1 : Sector(y) # Sector(b)
    <3>1. DataBegin(l) .. End(l, old) - 1 \subseteq InfoEnd(l) .. DataEnd(l) - 1
      BY <1>a, <2>1
    <3> QED BY <1>6, <3>1
  <2>3. Agree(flash, flash', DataBegin(l) .. End(l, old) - 1)
    BY <1>e, <2>2
  <2> HIDE DEF old
  <2>4. Data(flash', l, old, Known) /\ AllCodes(flash', old) = AllCodes(flash, old)
    BY <1>k, <1>4, <2>3, SameSelf, DataFrame
  <2> QED BY <1>2, <1>3, <1>4, <2>4 DEF DataPart, KeptAt
<1>9. LogInv(l)'
  <2>1. SlotPart(l)'
    BY <1>1, <1>2, <1>5, <1>7 DEF SlotPart
  <2>2. RamPart(l)' /\ RepairPart(l)' /\ WritePart(l)' /\ OkPart(l)'
    BY <1>1, <1>2, <1>3 DEF RamPart, RepairPart, WritePart, OkPart
  <2> QED BY <1>8, <2>1, <2>2 DEF LogInv
<1>10. ASSUME NEW k \in Logs, k # l PROVE LogInv(k)' /\ KeptAt(k)
  <2>1. ~Repairing(k) /\ ~Repairing(k)' /\ RepairPart(k)'
    BY <1>l, <1>1, <1>10 DEF Repairing, RepairPart
  <2>2. Unseen(k)' <=> Unseen(k)
    BY <1>l, <1>1 DEF Unseen, On
  <2>3. FreeKinds(k) \subseteq FreeKinds(k)'
    BY <2>2 DEF FreeKinds
  <2>4. \A y \in InfoBegin(k) .. DataEnd(k) - 1 : Sector(y) # Sector(b)
    <3>1. b < DataEnd(l) /\ InfoBegin(l) <= b
      BY <1>a
    <3> QED BY <1>a, <1>10, <3>1, SectorOfLog
  <2>5. Agree(flash, flash', InfoBegin(k) .. DataEnd(k) - 1)
    BY <1>e, <2>4
  <2> QED BY <1>1, <1>2, <2>1, <2>2, <2>3, <2>5, BootLog
<1> QED BY <1>1, <1>2, <1>8, <1>9, <1>10, BootStepEnds

(* The repair writes back what it found. *)
LEMMA LapRepairWrite ==
    ASSUME FirstLap, TypeInv, LapInv, RepairWrite
    PROVE  LapInv' /\ \A k \in Logs : KeptAt(k)
<1>0. boot.l \in Logs /\ boot \in BootType /\ boot.try = 0
  BY DEF TypeInv, BootType, LapInv
<1>l. PICK l \in Logs : l = boot.l
  BY <1>0
<1> DEFINE b == InfoBegin(l)
           i == info[l]
<1>1. /\ boot.pc = "write" /\ save' = save /\ begun' = begun /\ comm_stat = 0
  BY DEF RepairWrite, LapInv
<1>2. /\ ~On /\ Repairing(l) /\ Current(l) = i
  BY <1>l, <1>1 DEF On, Repairing, Current
<1>3. LogInv(l) /\ save.pc = "idle" /\ ~save.ok /\ Known' = begun /\ Known = begun
  BY <1>1, <1>2 DEF LapInv, NoSave, Known
<1>4. Wiped(flash, l, i) /\ begun > 0 /\ Data(flash, l, i, begun)
  BY <1>2, <1>3 DEF LogInv, SlotPart, DataPart
<1>a. /\ b \in Nat /\ InfoEnd(l) \in Nat /\ DataEnd(l) \in Nat /\ DataBegin(l) = InfoEnd(l)
      /\ b + SectorSize <= InfoEnd(l) /\ SectorSize \in Nat /\ SectorSize >= 2 /\ InfoEnd(l) <= DataEnd(l)
      /\ begun \in Nat
  BY AreaBounds, KnownFacts DEF FirstLap
<1>5. \A y \in b .. b + SectorSize - 1 : Kind(flash, y) = "blank"
  BY <1>4 DEF Wiped
<1>6. AllBlank(flash, b, 1)
  <2>1. Kind(flash, b) = "blank"
    <3>1. b \in b .. b + SectorSize - 1
      BY <1>a
    <3> QED BY <1>5, <3>1
  <2> QED BY <1>a, <2>1, BlankSlot
<1>7. /\ flash' = Filled(flash, b, 1, InfoSlot(i)) /\ boot' = [pc |-> "off", l |-> "opt", try |-> 0]
      /\ comm_stat' = 0
  <2>1. PICK ok \in BOOLEAN :
          /\ WriteDataBuff("info", b, 1, InfoSlot(i), ok)
          /\ ok => boot' = [pc |-> "off", l |-> "opt", try |-> 0] /\ comm_stat' = 0
    BY <1>l DEF RepairWrite, RepairSlot
  <2>2. ok /\ flash' = Filled(flash, b, 1, InfoSlot(i))
    BY <1>6, <2>1 DEF WriteDataBuff, FirstLap
  <2> QED BY <2>1, <2>2
<1>8. boot'.pc = "off" /\ boot'.try = 0
  BY <1>7
<1>9. ASSUME NEW k \in Logs
      PROVE  ~Repairing(k)' /\ RepairPart(k)' /\ Unseen(k)' /\ FreeKinds(k)' = {"blank", "torn"}
             /\ Current(k)' = Found(flash', k)
  BY <1>8 DEF Repairing, RepairPart, Unseen, FreeKinds, On, Current
<1>10. GoodSlots(flash, l) = 0 /\ Free(flash, l) = b
  <2> DEFINE z == 0
  <2>1. z \in Nat /\ InfoBegin(l) + z = b /\ InfoBegin(l) + z <= InfoEnd(l)
        /\ \A y \in InfoBegin(l) .. InfoBegin(l) + z - 1 : Kind(flash, y) = "info"
    BY <1>a
  <2>2. Kind(flash, b) = "blank"
    <3>1. b \in b .. b + SectorSize - 1
      BY <1>a
    <3> QED BY <1>5, <3>1
  <2> HIDE DEF z
  <2>3. GoodSlots(flash, l) = z
    BY <2>1, <2>2, GoodSlotsIs
  <2> QED BY <2>1, <2>3 DEF z, Free
<1>11. /\ GoodSlots(flash', l) = GoodSlots(flash, l) + 1
       /\ Names(Found(flash', l), i, b)
       /\ Slots(flash', l, begun, {"blank"})
       /\ InSpan(flash, flash', b, 1)
  <2>2. Sector(b + 1) = Sector(b)
    BY FirstSector
  <2>3. ASSUME NEW y \in b + 1 .. InfoEnd(l) - 1, Sector(y) = Sector(b + 1) PROVE Kind(flash, y) = "blank"
    <3>1. y < b + SectorSize
      <4>0. Aligned(b) /\ Sector(b) \in Nat /\ y \in Nat /\ Sector(b) * SectorSize \in Nat /\ Sector(b) * SectorSize <= b
        BY <1>a, Areas, SectorBounds, Multiples
      <4>1. y < Sector(y) * SectorSize + SectorSize
        BY <4>0, SectorBounds
      <4>2. Sector(y) = Sector(b)
        BY <2>2, <2>3
      <4> QED BY <1>a, <4>0, <4>1, <4>2
    <3>2. y \in b .. b + SectorSize - 1
      BY <1>a, <3>1
    <3> QED BY <1>5, <3>2
  <2>4. i.total = 0 => \A y \in b + 1 .. InfoEnd(l) - 1 : Kind(flash, y) = "blank"
    <3>1. \A y \in b + 1 .. InfoEnd(l) - 1 : y \in InfoBegin(l) .. InfoEnd(l) - 1
      BY <1>a
    <3> QED BY <1>4, <3>1 DEF Wiped
  <2>5. b + 1 < InfoEnd(l)
    BY <1>a
  <2> HIDE DEF b, i
  <2> QED BY <1>a, <1>7, <1>10, <2>3, <2>4, <2>5, SlotFilled
<1>12. Agree(flash, flash', {y \in Nat : y # b})
  <2>1. {y \in Nat : y # b} \subseteq {y \in Nat : y \notin Span(b, 1)}
    BY <1>a DEF Span
  <2>2. Agree(flash, flash', {y \in Nat : y \notin Span(b, 1)})
    BY <1>11 DEF InSpan
  <2> QED BY <2>1, <2>2, AgreeSubset
<1>13. DataPart(l)' /\ KeptAt(l)
  <2>1. End(l, i) \in Nat /\ End(l, i) <= DataEnd(l)
    BY <1>4, RoomFacts
  <2>2. DataBegin(l) .. End(l, i) - 1 \subseteq {y \in Nat : y # b}
    BY <1>a, <2>1
  <2>3. Agree(flash, flash', DataBegin(l) .. End(l, i) - 1)
    BY <1>12, <2>2, AgreeSubset
  <2> DEFINE j == Found(flash', l)
  <2>4. SameNewest(i, j) /\ begun <= begun
    BY <1>a, <1>11 DEF SameNewest, Names
  <2> HIDE DEF i, j
  <2>5. Data(flash', l, j, begun) /\ AllCodes(flash', j) = AllCodes(flash, i)
    BY <1>a, <1>4, <2>3, <2>4, DataFrame
  <2> QED BY <1>1, <1>2, <1>3, <1>9, <2>5 DEF DataPart, KeptAt, j
<1>14. LogInv(l)'
  <2>1. Slots(flash', l, begun, {"blank", "torn"}) /\ GoodSlots(flash', l) <= begun
    BY <1>a, <1>4, <1>10, <1>11 DEF Slots
  <2>2. SlotPart(l)'
    BY <1>1, <1>3, <1>9, <2>1 DEF SlotPart
  <2>3. RamPart(l)' /\ WritePart(l)' /\ OkPart(l)'
    BY <1>1, <1>3, <1>9 DEF RamPart, WritePart, OkPart
  <2> QED BY <1>9, <1>13, <2>2, <2>3 DEF LogInv
<1>15. ASSUME NEW k \in Logs, k # l PROVE LogInv(k)' /\ KeptAt(k)
  <2>1. ~Repairing(k)
    BY <1>l, <1>15 DEF Repairing
  <2>2. FreeKinds(k) \subseteq FreeKinds(k)'
    BY <1>9 DEF FreeKinds
  <2>3. \A y \in InfoBegin(k) .. DataEnd(k) - 1 : y # b
    <3>1. b < DataEnd(l) /\ InfoBegin(l) <= b
      BY <1>a
    <3> QED BY <1>a, <1>15, <3>1, SectorOfLog
  <2>4. Agree(flash, flash', InfoBegin(k) .. DataEnd(k) - 1)
    <3>1. InfoBegin(k) \in Nat /\ DataEnd(k) \in Nat
      BY AreaBounds
    <3>2. InfoBegin(k) .. DataEnd(k) - 1 \subseteq {y \in Nat : y # b}
      BY <2>3, <3>1
    <3> QED BY <1>12, <3>2, AgreeSubset
  <2> QED BY <1>1, <1>2, <1>9, <2>1, <2>2, <2>4, BootLog
<1> QED BY <1>1, <1>2, <1>7, <1>8, <1>13, <1>14, <1>15, BootStepEnds

-----------------------------------------------------------------------------
(* The invariant holds.                                                    *)

(* The invariant holds of the empty flash. *)
LEMMA LapInit == ASSUME FirstLap, Init PROVE LapInv
<1>1. /\ DOMAIN flash = {} /\ comm_stat = 0 /\ boot.pc = "off" /\ boot.try = 0 /\ save = NoSave /\ begun = 0
  BY DEF Init
<1>2. save.pc = "idle" /\ ~save.ok /\ Known = 0
  BY <1>1 DEF NoSave, Known
<1>3. \A y : Kind(flash, y) = "blank"
  BY <1>1 DEF Kind
<1>4. ASSUME NEW l \in Logs PROVE LogInv(l)
  <2> DEFINE b == InfoBegin(l)
             j == Found(flash, l)
             z == 0
  <2>a. /\ b \in Nat /\ InfoEnd(l) \in Nat /\ b < InfoEnd(l) /\ DataBegin(l) \in Nat
        /\ SectorSize \in Nat /\ MaxSaves \in Nat /\ DataSectors \in Nat
    BY AreaBounds, FlashLogAssumption
  <2>1. z \in Nat /\ InfoBegin(l) + z = b /\ InfoBegin(l) + z <= InfoEnd(l)
        /\ \A y \in InfoBegin(l) .. InfoBegin(l) + z - 1 : Kind(flash, y) = "info"
    BY <2>a
  <2> HIDE DEF z
  <2>2. GoodSlots(flash, l) = z
    BY <1>3, <2>1, GoodSlotsIs
  <2>3. GoodSlots(flash, l) = 0 /\ Free(flash, l) = b
    BY <2>1, <2>2 DEF z, Free
  <2>4. j.total = 0
    BY <2>3 DEF Found
  <2>5. ~Repairing(l) /\ Unseen(l) /\ FreeKinds(l) = {"blank", "torn"} /\ Current(l) = j
    BY <1>1 DEF Repairing, Unseen, FreeKinds, On, Current
  <2>6. SlotPart(l)
    BY <1>1, <1>2, <1>3, <2>a, <2>3, <2>5 DEF SlotPart, Slots
  <2> HIDE DEF j
  <2>7. Data(flash, l, j, 0)
    <3>1. End(l, j) = DataBegin(l) /\ Counts(l, j) /\ Chain(flash, l, j, 0)
      BY <2>a, <2>4 DEF End, Counts, Chain
    <3>2. Room(l, j)
      <4>1. DataEnd(l) = DataBegin(l) + DataSectors * SectorSize
        BY DEF DataEnd
      <4>2. 2 * (MaxSaves - 0) * SectorSize <= DataSectors * SectorSize
        <5>1. PICK d \in Nat : DataSectors = 2 * MaxSaves + d
          <6>1. DataSectors - 2 * MaxSaves \in Nat /\ DataSectors = 2 * MaxSaves + (DataSectors - 2 * MaxSaves)
            BY <2>a DEF FirstLap
          <6> QED BY <6>1
        <5>2. DataSectors * SectorSize = 2 * MaxSaves * SectorSize + d * SectorSize /\ d * SectorSize \in Nat
              /\ 2 * MaxSaves * SectorSize \in Nat
          BY <2>a, <5>1
        <5> QED BY <2>a, <5>2
      <4>3. 2 * (MaxSaves - 0) * SectorSize \in Nat /\ DataSectors * SectorSize \in Nat
        BY <2>a
      <4> QED BY <2>a, <2>4, <3>1, <4>1, <4>2, <4>3 DEF Room
    <3> QED BY <2>a, <2>4, <3>1, <3>2 DEF Data
  <2>8. DataPart(l)
    BY <1>2, <2>5, <2>7 DEF DataPart
  <2>9. RamPart(l) /\ RepairPart(l) /\ WritePart(l) /\ OkPart(l)
    BY <1>1, <1>2, <2>5 DEF RamPart, RepairPart, WritePart, OkPart
  <2> QED BY <2>6, <2>8, <2>9 DEF LogInv
<1> QED BY <1>1, <1>2, <1>4 DEF LapInv

(* The faults are counted. *)
FaultsCounted == faults \in [crash : Nat, boot : Nat, bad : Nat, timeout : Nat]

(* Faults are counted. *)
LEMMA FaultsStep == ASSUME FaultsCounted, [Next]_flashVars PROVE FaultsCounted'
<1>0. faults.crash \in Nat /\ faults.boot \in Nat /\ faults.bad \in Nat /\ faults.timeout \in Nat
  BY DEF FaultsCounted
<1>1. \/ faults' = faults
      \/ faults' = [faults EXCEPT !.bad = @ + 1]
      \/ faults' = [faults EXCEPT !.crash = @ + 1, !.boot = IF On THEN @ ELSE @ + 1]
      \/ faults' = [faults EXCEPT !.timeout = @ + 1]
  BY DEF Next, BootStep, SaveStep, PowerUp, Scan, RepairErase, RepairWrite, SaveBegin, EraseAhead,
         Probe, WriteRecord, SetAddress, SetSize, SetTotal, EraseSlotsAhead, WriteSlot, WriteSlotAgain,
         SavePost, Crash, SaveTimeout, WriteDataBuff, flashVars
<1>2. CASE faults' = faults
  BY <1>2 DEF FaultsCounted
<1>3. CASE faults' = [faults EXCEPT !.bad = @ + 1]
  BY <1>0, <1>3 DEF FaultsCounted
<1>4. CASE faults' = [faults EXCEPT !.crash = @ + 1, !.boot = IF On THEN @ ELSE @ + 1]
  <2>1. faults.crash + 1 \in Nat /\ (IF On THEN faults.boot ELSE faults.boot + 1) \in Nat
    BY <1>0
  <2> QED BY <1>4, <2>1, Zenon DEF FaultsCounted
<1>5. CASE faults' = [faults EXCEPT !.timeout = @ + 1]
  BY <1>0, <1>5 DEF FaultsCounted
<1> QED BY <1>1, <1>2, <1>3, <1>4, <1>5

(* The steps that store a record. *)
Storing == WriteSlot \/ WriteSlotAgain

(* A step keeps the invariant and the records; what it may add is the      *)
(* record being saved.                                                     *)
LEMMA LapStep ==
    ASSUME FirstLap, TypeInv, LapInv, FaultsCounted, [Next]_flashVars
    PROVE  /\ LapInv'
           /\ \/ \A k \in Logs : KeptAt(k)
              \/ /\ Storing /\ save.l \in Logs
                 /\ \A k \in Logs : k # save.l => KeptAt(k)
                 /\ GrowsAt(save.l)
<1>0. save.l \in Logs
  BY SavePlaceFacts
<1>1. CASE BootStep
  BY <1>1, LapPowerUp, LapScan, LapRepairErase, LapRepairWrite DEF BootStep
<1>2. CASE \E l \in Logs, size \in Sizes : SaveBegin(l, size)
  BY <1>2, LapSaveBegin
<1>3. CASE SaveStep
  <2>1. CASE EraseAhead \/ Probe \/ WriteRecord \/ SetAddress \/ SetSize \/ SetTotal \/ EraseSlotsAhead \/ SavePost
    BY <2>1, LapEraseAhead, LapProbe, LapWriteRecord, LapSetAddress, LapSetSize, LapSetTotal,
       LapEraseSlotsAhead, LapSavePost
  <2>2. CASE WriteSlot
    <3>1. /\ LapInv' /\ \A k \in Logs : k # save.l => KeptAt(k)
          /\ KeptAt(save.l) \/ GrowsAt(save.l)
      BY <2>2, LapWriteSlot
    <3> QED BY <1>0, <2>2, <3>1 DEF Storing
  <2>3. CASE WriteSlotAgain
    BY <1>0, <2>3, LapWriteSlotAgain DEF Storing
  <2> QED BY <1>3, <2>1, <2>2, <2>3 DEF SaveStep
<1>4. CASE Crash
  BY <1>4, LapCrash DEF FaultsCounted
<1>5. CASE SaveTimeout
  BY <1>5, LapSaveTimeout
<1>6. CASE UNCHANGED flashVars
  BY <1>6, LapSame DEF flashVars
<1> QED BY <1>1, <1>2, <1>3, <1>4, <1>5, <1>6 DEF Next

(* All that is shown of a state of the first lap. *)
LapAll == TypeInv /\ FaultsCounted /\ LapInv

(* On the first lap the invariant holds in every state. *)
LEMMA LapInvariant == ASSUME FirstLap PROVE Spec => []LapAll
<1>1. Init => LapAll
  <2>1. Init => FaultsCounted
    BY DEF Init, NoFaults, FaultsCounted
  <2> QED BY <2>1, TypeInit, LapInit DEF LapAll
<1>2. LapAll /\ [Next]_flashVars => LapAll'
  BY TypeStep, FaultsStep, LapStep DEF LapAll
<1> QED BY <1>1, <1>2, PTL DEF Spec

-----------------------------------------------------------------------------
(* The logs keep the promise of LogStore.                                  *)

(* What is stored of log l, newest first, are all the records that a start *)
(* would find.                                                             *)
LEMMA StoredIs ==
    ASSUME LapInv, NEW l \in Logs
    PROVE  Stored(l) = Reverse(AllCodes(flash, Current(l)))
<1> DEFINE found == IF boot.pc \in {"erase", "write"} /\ boot.l = l THEN info[l] ELSE Found(flash, l)
           R(i) == Reverse(Walk(flash, i, i.total))
<1>1. Stored(l) = CHOOSE r \in {R(i) : i \in {found}} : TRUE
  BY DEF Stored
<1>2. {R(i) : i \in {found}} = {R(found)}
  <2> HIDE DEF R, found
  <2> QED OBVIOUS
<1>3. found = Current(l)
  <2>1. RepairPart(l)
    BY DEF LapInv, LogInv
  <2>2. CASE boot.pc = "erase" /\ boot.l = l
    BY <2>1, <2>2 DEF RepairPart, Current, Repairing
  <2>3. CASE ~(boot.pc = "erase" /\ boot.l = l)
    BY <2>3 DEF Current, Repairing
  <2> QED BY <2>2, <2>3
<1>4. Stored(l) = R(found)
  <2> HIDE DEF R, found
  <2> QED BY <1>1, <1>2
<1> QED BY <1>3, <1>4 DEF AllCodes

AllStored == \A l \in Logs : Stored(l) = Reverse(AllCodes(flash, Current(l)))

(* What the refinement maps to is read off the chains. *)
LEMMA StoredAll == LapInv => AllStored
BY StoredIs DEF AllStored

(* The log at any step is a sequence of codes of saves. *)
LEMMA CurrentCodes ==
    ASSUME TypeInv, LapInv, NEW l \in Logs
    PROVE  AllCodes(flash, Current(l)) \in Seq(1..Known) /\ AllCodes(flash, Current(l)) \in Seq(Nat)
<1> DEFINE i == Current(l)
<1>1. Known \in Nat /\ Counts(l, i) /\ Chain(flash, l, i, Known)
  BY KnownFacts DEF LapInv, LogInv, DataPart, Data
<1> HIDE DEF i
<1>2. AllCodes(flash, i) \in Seq(1..Known) /\ AllCodes(flash, i) \in Seq(Nat)
  BY <1>1, CodesAreNumbers
<1> QED BY <1>2 DEF i

(* The newest code is read first. *)
LEMMA NewestFirst ==
    ASSUME NEW f, NEW l \in Logs, NEW i, NEW m \in Nat, Counts(l, i), Chain(f, l, i, m)
    PROVE  /\ Len(AllCodes(f, i)) = i.total
           /\ i.total > 0 => HeadOf(f, i).c \in ToSet(AllCodes(f, i))
<1> DEFINE t == i.total
<1>0. t \in Nat
  BY DEF Counts
<1>1. \A k \in 0 .. t - 1 : Read1Log(f, Places(f, i, t)[k])
  BY DEF Chain, Linked
<1>2. AllCodes(f, i) = [k \in 1..t |-> CodeAt(f, i, t, k - 1)]
  BY <1>0, <1>1, WalkReadsAll DEF AllCodes
<1>3. Places(f, i, t)[0] = Place(i)
  BY <1>0, PlacesAre
<1>4. CodeAt(f, i, t, 0) = HeadOf(f, i).c
  BY <1>3 DEF CodeAt, HeadOf, Place
<1>s. AllCodes(f, i) \in Seq(Nat)
  BY CodesAreNumbers
<1> HIDE DEF t
<1>5. Len(AllCodes(f, i)) = t
  BY <1>0, <1>2, <1>s
<1>6. ASSUME t > 0 PROVE HeadOf(f, i).c \in ToSet(AllCodes(f, i))
  <2>1. 1 \in 1..t /\ 1 - 1 = 0
    BY <1>0, <1>6
  <2>2. AllCodes(f, i)[1] = CodeAt(f, i, t, 0) /\ 1 \in DOMAIN AllCodes(f, i)
    BY <1>2, <2>1
  <2> QED BY <1>4, <2>2 DEF ToSet
<1> QED BY <1>5, <1>6 DEF t

(* A save returns SUCC only with its record stored. *)
LEMMA AckedIsStored ==
    ASSUME TypeInv, LapInv, On, save.pc # "idle", save.ok
    PROVE  save.l \in Logs /\ save.c \in Codes /\ save.c \in ToSet(Stored(save.l))
<1> DEFINE l == save.l
           i == Found(flash, l)
<1>1. l \in Logs /\ save.c \in Codes
  BY SavePlaceFacts, FlashLogAssumption DEF TypeInv, SavePlace, Codes
<1>2. Current(l) = i /\ i.total > 0 /\ HeadOf(flash, i).c = save.c
  BY <1>1, OnFacts DEF LapInv, LogInv, OkPart
<1>3. Known \in Nat /\ Counts(l, i) /\ Chain(flash, l, i, Known)
  BY <1>1, <1>2, KnownFacts DEF LapInv, LogInv, DataPart, Data
<1>4. AllCodes(flash, i) \in Seq(Nat)
  BY <1>1, <1>2, CurrentCodes
<1> HIDE DEF i
<1>5. HeadOf(flash, i).c \in ToSet(AllCodes(flash, i))
  BY <1>1, <1>2, <1>3, NewestFirst
<1>6. ToSet(Reverse(AllCodes(flash, i))) = ToSet(AllCodes(flash, i))
  BY <1>4, ReverseTwice
<1>7. Stored(l) = Reverse(AllCodes(flash, i))
  BY <1>1, <1>2, StoredIs
<1> QED BY <1>1, <1>2, <1>5, <1>6, <1>7

(* The empty flash maps to the empty store. *)
LEMMA StoreInit == ASSUME FirstLap, Init PROVE Store!Init
<1>1. LapInv
  BY LapInit
<1>2. ASSUME NEW l \in Logs PROVE Stored(l) = <<>>
  <2> DEFINE i == Current(l)
             b == InfoBegin(l)
             z == 0
  <2>1. \A y : Kind(flash, y) = "blank"
    BY DEF Init, Kind
  <2>2. z \in Nat /\ b + z = b /\ b + z <= InfoEnd(l) /\ \A y \in b .. b + z - 1 : Kind(flash, y) = "info"
    BY AreaBounds
  <2> HIDE DEF z
  <2>3. GoodSlots(flash, l) = z
    BY <2>1, <2>2, GoodSlotsIs
  <2>4. Found(flash, l).total = 0
    BY <2>3 DEF z, Found
  <2>5. i.total = 0
    BY <2>4 DEF Current, Repairing, Init
  <2> HIDE DEF i
  <2>6. \A k \in 0 .. 0 - 1 : Read1Log(flash, Places(flash, i, 0)[k])
    OBVIOUS
  <2>7. Walk(flash, i, 0) = [k \in 1..0 |-> CodeAt(flash, i, 0, k - 1)]
    BY <2>6, WalkReadsAll
  <2>8. AllCodes(flash, i) = <<>>
    BY <2>5, <2>7 DEF AllCodes
  <2>9. Reverse(<<>>) = <<>>
    BY DEF Reverse
  <2> QED BY <1>1, <2>8, <2>9, StoredIs DEF i
<1>3. [l \in Logs |-> Stored(l)] = [l \in Logs |-> <<>>]
  BY <1>2
<1>4. acked = [l \in Logs |-> {}]
  BY DEF Init
<1> QED BY <1>3, <1>4 DEF Store!Init

(* Every step stores the record being saved, acknowledges it, or changes   *)
(* nothing that is stored.                                                 *)
LEMMA StoreStep ==
    ASSUME FirstLap, LapAll, [Next]_flashVars
    PROVE  [Store!Next]_Store!storeVars
<1> DEFINE L == [l \in Logs |-> Stored(l)]
<1>0. TypeInv /\ LapInv /\ FaultsCounted
  BY DEF LapAll
<1>1. LapInv'
  BY <1>0, LapStep
<1>2. ASSUME NEW l \in Logs
      PROVE  /\ Stored(l) = Reverse(AllCodes(flash, Current(l)))
             /\ Stored(l)' = Reverse(AllCodes(flash, Current(l))')
  <2>1. Stored(l) = Reverse(AllCodes(flash, Current(l)))
    BY <1>0, StoredIs
  <2>2. AllStored'
    BY <1>1, StoredAll, PTL
  <2> QED BY <2>1, <2>2 DEF AllStored
<1>3. ASSUME NEW l \in Logs, KeptAt(l) PROVE Stored(l)' = Stored(l)
  BY <1>2, <1>3 DEF KeptAt
<1>4. CASE \A k \in Logs : KeptAt(k)
  <2>1. L' = L
    BY <1>3, <1>4
  <2>2. CASE acked' = acked
    BY <2>1, <2>2 DEF Store!storeVars
  <2>3. CASE acked' # acked
    <3>1. SavePost /\ save.ok /\ acked' = [acked EXCEPT ![save.l] = @ \cup {save.c}]
      BY <2>3 DEF Next, BootStep, SaveStep, PowerUp, Scan, RepairErase, RepairWrite, SaveBegin, EraseAhead,
         Probe, WriteRecord, SetAddress, SetSize, SetTotal, EraseSlotsAhead, WriteSlot, WriteSlotAgain,
         SavePost, Crash, SaveTimeout, flashVars
    <3>2. save.l \in Logs /\ save.c \in Codes /\ save.c \in ToSet(Stored(save.l))
      BY <1>0, <3>1, AckedIsStored DEF SavePost, At
    <3>l. PICK l \in Logs : l = save.l
      BY <3>2
    <3>c. PICK c \in Codes : c = save.c
      BY <3>2
    <3>3. c \in ToSet(L[l]) /\ acked' = [acked EXCEPT ![l] = @ \cup {c}]
      BY <3>1, <3>2, <3>l, <3>c
    <3>4. Store!Acknowledge(l, c)
      BY <2>1, <3>3 DEF Store!Acknowledge, Store!ToSet, ToSet
    <3> QED BY <3>4 DEF Store!Next
  <2> QED BY <2>2, <2>3
<1>5. CASE /\ Storing /\ save.l \in Logs
           /\ \A k \in Logs : k # save.l => KeptAt(k)
           /\ GrowsAt(save.l)
  <2>l. PICK l \in Logs : l = save.l
    BY <1>5
  <2>c. PICK c \in Codes : c = save.c
    <3>1. save.pc # "idle"
      BY <1>5 DEF Storing, WriteSlot, WriteSlotAgain, At
    <3> QED BY <1>0, <3>1, FlashLogAssumption DEF TypeInv, SavePlace, Codes
  <2>1. acked' = acked
    BY <1>5 DEF Storing, WriteSlot, WriteSlotAgain
  <2> DEFINE s == AllCodes(flash, Current(l))
  <2>2. s \in Seq(Nat) /\ c \in Nat
    BY <1>0, CurrentCodes DEF Codes
  <2>s. save'.l = save.l
    BY <1>0, <1>5 DEF Storing, WriteSlot, WriteSlotAgain, TypeInv, SaveType
  <2>3. AllCodes(flash, Current(l))' = <<c>> \o s
    BY <1>5, <2>l, <2>c, <2>s DEF GrowsAt
  <2>4. Stored(l)' = Reverse(<<c>> \o s) /\ Stored(l) = Reverse(s)
    BY <1>2, <2>3
  <2> HIDE DEF s
  <2>5. Stored(l)' = Append(Stored(l), c)
    BY <2>2, <2>4, ReverseGrows
  <2>6. L' = [L EXCEPT ![l] = Append(@, c)]
    <3>1. \A k \in Logs : k # l => Stored(k)' = Stored(k)
      BY <1>3, <1>5, <2>l
    <3> QED BY <2>5, <3>1
  <2>7. Store!Store(l, c)
    BY <2>1, <2>6 DEF Store!Store
  <2> QED BY <2>7 DEF Store!Next
<1> QED BY <1>0, <1>4, <1>5, LapStep

(* On the first lap the logs do what LogStore promises: through power      *)
(* failures at any step of a save, records found wrong, resets and repairs *)
(* a start finds every record stored before, in order, at most the one     *)
(* being saved besides, and no save returns SUCC before its record can be  *)
(* found (app_log.c lines 84-181 and 312-488).                             *)
THEOREM LogsRefineStore == ASSUME FirstLap PROVE Spec => LogsKeepRecords
<1>1. Init => Store!Init
  BY StoreInit
<1>2. LapAll /\ [Next]_flashVars => [Store!Next]_Store!storeVars
  BY StoreStep
<1>3. Spec => []LapAll
  BY LapInvariant
<1> QED BY <1>1, <1>2, <1>3, PTL DEF Spec, LogsKeepRecords, Store!Spec

-----------------------------------------------------------------------------
(* The query.                                                              *)

(* A walk over k records from j starts where i says that the newest one is. *)
StartsAt(j, i, k) == k <= i.total /\ (k > 0 => Place(j) = Place(i))

FirstOf(s, k) == SubSeq(s, 1, k)

(* A walk that starts at the newest record reads the first k codes. *)
LEMMA WalkPrefix ==
    ASSUME NEW f, NEW l \in Logs, NEW i, NEW j, NEW m \in Nat, Counts(l, i), Chain(f, l, i, m),
           NEW k \in Nat, StartsAt(j, i, k)
    PROVE  Walk(f, j, k) = FirstOf(AllCodes(f, i), k)
<1> DEFINE t == i.total
<1>0. t \in Nat /\ k <= t /\ (k > 0 => Place(j) = Place(i))
  BY DEF Counts, StartsAt
<1>1. \A q \in 0 .. t - 1 : Read1Log(f, Places(f, i, t)[q])
  BY DEF Chain, Linked
<1>2. AllCodes(f, i) = [q \in 1..t |-> CodeAt(f, i, t, q - 1)]
  BY <1>0, <1>1, WalkReadsAll DEF AllCodes
<1>s. AllCodes(f, i) \in Seq(Nat) /\ Len(AllCodes(f, i)) = t
  BY CodesAreNumbers, NewestFirst
<1> HIDE DEF t
<1>3. ASSUME k > 0 PROVE \A q \in 0..k : Places(f, j, k)[q] = Places(f, i, t)[q]
  <2>1. Places(f, j, k)[0] = Place(j) /\ Places(f, i, t)[0] = Place(i)
    BY <1>0, PlacesAre
  <2>2. 0 \in Nat /\ k <= k /\ 0 + k <= t /\ Places(f, j, k)[0] = Places(f, i, t)[0]
    BY <1>0, <1>3, <2>1
  <2>3. \A q \in 0..k : Places(f, j, k)[q] = Places(f, i, t)[0 + q]
    BY <1>0, <2>2, PlacesAgree
  <2>4. \A q \in 0..k : 0 + q = q
    OBVIOUS
  <2> QED BY <2>3, <2>4
<1>4. \A q \in 0 .. k - 1 : Read1Log(f, Places(f, j, k)[q]) /\ CodeAt(f, j, k, q) = CodeAt(f, i, t, q)
  <2> SUFFICES ASSUME NEW q \in 0 .. k - 1
               PROVE  Read1Log(f, Places(f, j, k)[q]) /\ CodeAt(f, j, k, q) = CodeAt(f, i, t, q)
    OBVIOUS
  <2>1. k > 0 /\ q \in 0..k /\ q \in 0 .. t - 1
    BY <1>0
  <2>2. Places(f, j, k)[q] = Places(f, i, t)[q]
    BY <1>3, <2>1
  <2> QED BY <1>1, <2>1, <2>2 DEF CodeAt
<1>5. Walk(f, j, k) = [q \in 1..k |-> CodeAt(f, j, k, q - 1)]
  BY <1>4, WalkReadsAll
<1>6. \A q \in 1..k : q \in 1..t /\ CodeAt(f, j, k, q - 1) = CodeAt(f, i, t, q - 1)
  <2>1. \A q \in 1..k : q \in 1..t /\ q - 1 \in 0 .. k - 1
    BY <1>0
  <2> QED BY <1>4, <2>1
<1> DEFINE s == AllCodes(f, i)
<1>7. \A q \in 1..k : s[q] = CodeAt(f, j, k, q - 1)
  BY <1>2, <1>6
<1> HIDE DEF s
<1>8. SubSeq(s, 1, k) = [q \in 1..k |-> s[q]]
  <2>1. s \in Seq(Nat) /\ Len(s) = t
    BY <1>s DEF s
  <2> QED BY <1>0, <2>1
<1> QED BY <1>5, <1>7, <1>8 DEF s, FirstOf

(* Nothing is read from where the first record cannot be. *)
LEMMA WalkNothing ==
    ASSUME NEW f, NEW p, NEW n \in Nat, ~Read1Log(f, Place(p))
    PROVE  Walk(f, p, n) = <<>>
<1> DEFINE P == Places(f, p, n)
           S == {k \in 0..n : Read1Log(f, P[k])}
<1>1. P[0] = Place(p) /\ \A k \in 1..n : P[k] = Back(f, P[k - 1])
  BY PlacesAre
<1> HIDE DEF P
<1>2. S = {}
  <2> SUFFICES ASSUME S # {} PROVE FALSE
    OBVIOUS
  <2>1. PICK k \in S : \A y \in S : k <= y
    <3>1. S \subseteq Nat
      OBVIOUS
    <3> HIDE DEF S
    <3> QED BY <3>1, LeastIn
  <2>2. k # 0
    BY <1>1
  <2>3. k \in 1..n /\ k - 1 \in 0..n /\ ~(k <= k - 1)
    BY <2>2
  <2>4. ~Read1Log(f, P[k - 1])
    BY <2>1, <2>3
  <2>5. P[k] = [addr |-> 0, size |-> 0]
    BY <1>1, <2>3, <2>4 DEF Back
  <2>6. ~Read1Log(f, P[k])
    BY <2>5 DEF Read1Log
  <2> QED BY <2>6
<1>3. {k \in 1..n : Read1Log(f, P[k - 1])} = {}
  <2>1. \A k \in 1..n : k - 1 \in 0..n
    OBVIOUS
  <2> QED BY <1>2, <2>1
<1>4. Cardinality({}) = 0
  BY FS_EmptySet
<1>5. Walk(f, p, n) = [k \in 1..Cardinality({k \in 1..n : Read1Log(f, P[k - 1])}) |-> f[P[k - 1].addr].c]
  BY DEF Walk, P
<1> DEFINE read == {k \in 1..n : Read1Log(f, P[k - 1])}
<1>6. Cardinality(read) = 0
  BY <1>3, <1>4
<1>7. Walk(f, p, n) = [k \in 1..Cardinality(read) |-> f[P[k - 1].addr].c]
  BY <1>5
<1> HIDE DEF read
<1> QED BY <1>6, <1>7

(* The first k elements are a prefix. *)
LEMMA SubSeqPrefix ==
    ASSUME NEW s \in Seq(Nat), NEW k \in Nat, k <= Len(s)
    PROVE  IsPrefix(SubSeq(s, 1, k), s)
<1> DEFINE u == SubSeq(s, 1, k)
<1>1. u \in Seq(Nat) /\ Len(u) = k /\ \A q \in 1..k : u[q] = s[q]
  OBVIOUS
<1> HIDE DEF u
<1>2. SubSeq(u, 1, k) = [q \in 1..k |-> u[q]] /\ SubSeq(s, 1, k) = [q \in 1..k |-> s[q]]
  BY <1>1
<1>3. SubSeq(u, 1, Len(u)) = SubSeq(s, 1, Len(u))
  BY <1>1, <1>2
<1>4. IsPrefix(u, s)
  BY <1>1, <1>3 DEF IsPrefix
<1> QED BY <1>4 DEF u

(* The empty sequence is a prefix. *)
LEMMA EmptyPrefix ==
    ASSUME NEW s \in Seq(Nat)
    PROVE  IsPrefix(<<>>, s)
<1>1. SubSeq(s, 1, 0) = <<>> /\ 0 <= Len(s)
  OBVIOUS
<1> QED BY <1>1, SubSeqPrefix

(* The answer to a query while OptLogInfo says what the flash says. *)
LEMMA SettledAnswer ==
    ASSUME TypeInv, LapInv, On, NEW l \in Logs, NEW n \in Nat, Settled(flash, l, info[l])
    PROVE  LET s == AllCodes(flash, Found(flash, l))
           IN LogQue(l, n) = SubSeq(s, 1, IF n < Len(s) THEN n ELSE Len(s))
<1> DEFINE i == Found(flash, l)
           j == info[l]
           s == AllCodes(flash, i)
           k == IF n < i.total THEN n ELSE i.total
<1>1. /\ Known \in Nat /\ Counts(l, i) /\ Chain(flash, l, i, Known) /\ i.total \in Nat
  BY OnFacts, KnownFacts DEF LapInv, LogInv, DataPart, Data, Counts
<1>2. j.total = i.total /\ (i.total > 0 => j.addr = i.addr /\ j.size = i.size)
  BY DEF Settled, SameNewest
<1>3. LogQue(l, n) = Walk(flash, j, k)
  <2>1. (IF n > j.total THEN j.total ELSE n) = k
    BY <1>1, <1>2
  <2>2. comm_stat # 1
    BY DEF LapInv
  <2> QED BY <2>1, <2>2 DEF LogQue
<1>4. k \in Nat /\ k <= i.total
  BY <1>1
<1>5. k > 0 => Place(j) = Place(i)
  BY <1>1, <1>2, <1>4 DEF Place
<1> HIDE DEF i, j, k
<1>6. Walk(flash, j, k) = SubSeq(s, 1, k)
  <2> DEFINE m == Known
  <2>1. m \in Nat /\ l \in Logs /\ k \in Nat /\ Counts(l, i) /\ Chain(flash, l, i, m) /\ StartsAt(j, i, k)
    BY <1>1, <1>4, <1>5 DEF StartsAt
  <2> HIDE DEF m
  <2>2. Walk(flash, j, k) = FirstOf(AllCodes(flash, i), k)
    BY ONLY <2>1, WalkPrefix
  <2> QED BY <2>2 DEF FirstOf
<1>7. Len(s) = i.total
  BY <1>1, NewestFirst
<1> HIDE DEF s
<1>8. LogQue(l, n) = SubSeq(s, 1, IF n < Len(s) THEN n ELSE Len(s))
  BY <1>3, <1>6, <1>7 DEF k
<1> QED BY <1>8 DEF s, i

(* The answer to a query that falls into the update of OptLogInfo. *)
LEMMA UpdateAnswer ==
    ASSUME FirstLap, TypeInv, LapInv, On, save.pc \in {"size", "total", "slotahead", "slot", "slot2"},
           NEW n \in Nat
    PROVE  IsPrefix(LogQue(save.l, n), <<save.c>> \o AllCodes(flash, Found(flash, save.l)))
<1> DEFINE l == save.l
           old == Found(flash, l)
           j == [total |-> old.total + 1, addr |-> save.addr, size |-> save.size]
           s == AllCodes(flash, old)
           u == <<save.c>> \o s
           k == IF n > info[l].total THEN info[l].total ELSE n
<1>1. SaveFacts(l, old)
  BY SaveHolds
<1>2. /\ l \in Logs /\ begun \in Nat /\ begun > 0 /\ save.c = begun /\ Writing(l) /\ Updating(l)
      /\ Data(flash, l, old, begun - 1) /\ old.total \in Nat /\ save.addr \in Nat /\ save.size \in Nat /\ save.size > 0
      /\ End(l, old) <= save.addr
  BY <1>1 DEF SaveFacts, InUpdate
<1>3. Appended(flash, l, old, j, begun)
  <2>1. Read1Log(flash, save) /\ flash[save.addr].c = begun
        /\ (old.total > 0 => flash[save.addr].addr = old.addr /\ flash[save.addr].size = old.size)
    BY <1>2 DEF Writing
  <2>2. Read1Log(flash, j)
    BY <2>1 DEF Read1Log
  <2> QED BY <1>2, <2>1, <2>2 DEF Appended
<1>4. Counts(l, j) /\ Chain(flash, l, j, begun) /\ AllCodes(flash, j) = <<begun>> \o s
  <2> DEFINE m == begun - 1
  <2>1. m \in Nat /\ m < begun /\ Counts(l, old) /\ Chain(flash, l, old, m) /\ DataBegin(l) <= End(l, old)
    BY <1>2 DEF Data
  <2>2. l \in Logs /\ begun \in Nat /\ Appended(flash, l, old, j, begun)
    BY <1>2, <1>3
  <2> HIDE DEF m, old, j, l
  <2>3. Counts(l, j) /\ Chain(flash, l, j, begun) /\ AllCodes(flash, j) = <<begun>> \o AllCodes(flash, old)
    BY ONLY <2>1, <2>2, ChainGrows
  <2> QED BY <2>3
<1>5. LogQue(l, n) = Walk(flash, info[l], k)
  BY DEF LogQue, LapInv
<1>6. /\ info[l].addr = save.addr /\ info[l].total \in {old.total, old.total + 1}
      /\ save.pc = "size" => info[l].total = old.total /\ (old.total > 0 => info[l].size = old.size)
      /\ save.pc # "size" => info[l].size = save.size
  BY <1>2 DEF Updating
<1>7. k \in Nat /\ k <= old.total + 1 /\ k <= info[l].total
  <2> DEFINE t == info[l].total
             y == old.total
  <2>1. y \in Nat /\ (t = y \/ t = y + 1)
    BY <1>2, <1>6
  <2>2. k = IF n > t THEN t ELSE n
    OBVIOUS
  <2> HIDE DEF t, y, k
  <2>3. k \in Nat /\ k <= y + 1 /\ k <= t
    BY <2>1, <2>2
  <2> QED BY <2>3 DEF t, y
<1>s. u \in Seq(Nat) /\ u = AllCodes(flash, j)
  <2>1. AllCodes(flash, j) \in Seq(Nat)
    BY <1>2, <1>4, CodesAreNumbers
  <2> QED BY <1>2, <1>4, <2>1
<1>p. j.total = old.total + 1 /\ j.addr = save.addr /\ j.size = save.size
  OBVIOUS
<1> HIDE DEF j, k, old
<1>8. CASE info[l].size = save.size
  <2> DEFINE p == info[l]
  <2>1. k > 0 => Place(p) = Place(j)
    BY <1>6, <1>8, <1>p DEF Place
  <2>2. k <= j.total
    BY <1>7, <1>p
  <2> HIDE DEF p
  <2>3. Walk(flash, p, k) = SubSeq(AllCodes(flash, j), 1, k)
    <3>1. l \in Logs /\ begun \in Nat /\ k \in Nat /\ Counts(l, j) /\ Chain(flash, l, j, begun) /\ StartsAt(p, j, k)
      BY <1>2, <1>4, <1>7, <2>1, <2>2 DEF StartsAt
    <3> HIDE DEF l
    <3>2. Walk(flash, p, k) = FirstOf(AllCodes(flash, j), k)
      BY ONLY <3>1, WalkPrefix
    <3> QED BY <3>2 DEF FirstOf
  <2>4. Len(AllCodes(flash, j)) = j.total
    BY <1>2, <1>4, NewestFirst
  <2> HIDE DEF u
  <2>5. k <= Len(u)
    BY <1>s, <2>2, <2>4
  <2>6. LogQue(l, n) = SubSeq(u, 1, k)
    BY <1>5, <1>s, <2>3 DEF p
  <2>7. IsPrefix(SubSeq(u, 1, k), u)
    BY <1>7, <1>s, <2>5, SubSeqPrefix
  <2> QED BY <2>6, <2>7 DEF u, old
<1>9. CASE info[l].size # save.size
  <2>1. ~Read1Log(flash, Place(info[l]))
    <3>1. Read1Log(flash, save)
      BY <1>2 DEF Writing
    <3>2. flash[save.addr].len = save.size
      BY <3>1 DEF Read1Log
    <3>3. Place(info[l]).addr = save.addr /\ Place(info[l]).size # save.size
      BY <1>6, <1>9 DEF Place
    <3> QED BY <3>2, <3>3 DEF Read1Log
  <2> DEFINE p == info[l]
  <2>2. ~Read1Log(flash, Place(p))
    BY <2>1
  <2> HIDE DEF p
  <2>3. Walk(flash, p, k) = <<>>
    BY <1>7, <2>2, WalkNothing
  <2>4. IsPrefix(<<>>, u)
    BY <1>s, EmptyPrefix
  <2> QED BY <1>5, <2>3, <2>4 DEF p, u, old
<1> QED BY <1>8, <1>9

(* The invariant of the first lap is what QueryAnswers needs. *)
LEMMA LapAnswers == ASSUME FirstLap, TypeInv, LapInv PROVE QueryAnswers
<1> SUFFICES ASSUME On, NEW l \in Logs, NEW n \in 0..MaxSaves
             PROVE  LET ans == LogQue(l, n)
                        old == Reverse(Stored(l))
                        new == IF save.c \in ToSet(old) THEN old ELSE <<save.c>> \o old
                    IN IF save.pc = "idle" \/ save.l # l
                       THEN ans = SubSeq(old, 1, IF n < Len(old) THEN n ELSE Len(old))
                       ELSE IsPrefix(ans, new) \/ IsPrefix(ans, Tail(new))
  BY DEF QueryAnswers
<1> DEFINE ans == LogQue(l, n)
           s == AllCodes(flash, Found(flash, l))
           new == IF save.c \in ToSet(s) THEN s ELSE <<save.c>> \o s
<1>1. n \in Nat
  OBVIOUS
<1>2. Current(l) = Found(flash, l) /\ ~Unseen(l) /\ LogInv(l)
  BY OnFacts DEF LapInv
<1>3. s \in Seq(1..Known) /\ s \in Seq(Nat)
  <2>1. AllCodes(flash, Current(l)) \in Seq(1..Known) /\ AllCodes(flash, Current(l)) \in Seq(Nat)
    BY CurrentCodes
  <2> QED BY <1>2, <2>1
<1>4. Reverse(Stored(l)) = s
  <2>1. Stored(l) = Reverse(s)
    BY <1>2, StoredIs
  <2> HIDE DEF s
  <2> QED BY <1>3, <2>1, ReverseTwice
<1>5. ASSUME ~InUpdate(l) PROVE ans = SubSeq(s, 1, IF n < Len(s) THEN n ELSE Len(s))
  <2>1. Settled(flash, l, info[l])
    BY <1>2, <1>5 DEF LogInv, RamPart
  <2> QED BY <1>1, <2>1, SettledAnswer
<1>6. CASE save.pc = "idle" \/ save.l # l
  <2>1. ~InUpdate(l)
    BY <1>6 DEF InUpdate
  <2> HIDE DEF s
  <2> QED BY <1>4, <1>5, <1>6, <2>1
<1>7. CASE save.pc # "idle" /\ save.l = l
  <2>1. ~save.ok => save.c \notin ToSet(s) /\ save.c \in Nat
    <3> SUFFICES ASSUME ~save.ok PROVE save.c \notin ToSet(s) /\ save.c \in Nat
      OBVIOUS
    <3>1. save.c = begun /\ Known = begun - 1 /\ begun \in Nat
      BY <1>7, KnownFacts DEF LapInv, Known
    <3> HIDE DEF s
    <3>2. \A c \in ToSet(s) : c \in 1..(begun - 1)
      BY <1>3, <3>1 DEF ToSet
    <3> QED BY <3>1, <3>2
  <2>2. ASSUME ~InUpdate(l) PROVE IsPrefix(ans, s)
    <3> DEFINE k == IF n < Len(s) THEN n ELSE Len(s)
    <3> HIDE DEF s
    <3>1. k \in Nat /\ k <= Len(s)
      BY <1>1, <1>3
    <3> HIDE DEF k
    <3>2. IsPrefix(SubSeq(s, 1, k), s)
      BY <1>3, <3>1, SubSeqPrefix
    <3> QED BY <1>5, <2>2, <3>2 DEF k
  <2>3. CASE save.ok
    <3>1. save.pc = "post"
      BY <2>3 DEF LapInv
    <3>2. save.c \in ToSet(s)
      <4>1. save.c \in ToSet(Stored(l))
        BY <1>7, <2>3, AckedIsStored
      <4>2. Stored(l) = Reverse(s)
        BY <1>2, StoredIs
      <4> HIDE DEF s
      <4> QED BY <1>3, <4>1, <4>2, ReverseTwice
    <3>3. IsPrefix(ans, s)
      BY <2>2, <3>1 DEF InUpdate
    <3> HIDE DEF s, ans
    <3> QED BY <1>4, <1>7, <3>2, <3>3 DEF ans
  <2>4. CASE ~save.ok
    <3>1. new = <<save.c>> \o s /\ Tail(<<save.c>> \o s) = s
      <4>1. save.c \notin ToSet(s) /\ save.c \in Nat
        BY <2>1, <2>4
      <4> HIDE DEF s
      <4>2. Tail(<<save.c>> \o s) = s
        BY <1>3, <4>1
      <4> QED BY <4>1, <4>2
    <3>2. IsPrefix(ans, <<save.c>> \o s) \/ IsPrefix(ans, s)
      <4>1. CASE InUpdate(l)
        <5>1. save.pc \in {"size", "total", "slotahead", "slot", "slot2"}
          BY <4>1 DEF InUpdate
        <5> QED BY <1>1, <1>7, <5>1, UpdateAnswer
      <4>2. CASE ~InUpdate(l)
        BY <2>2, <4>2
      <4> QED BY <4>1, <4>2
    <3>3. IsPrefix(ans, new) \/ IsPrefix(ans, Tail(new))
      <4> HIDE DEF ans, new, s
      <4> QED BY <3>1, <3>2
    <3> HIDE DEF s, ans
    <3> QED BY <1>4, <1>7, <3>3 DEF ans
  <2> QED BY <2>3, <2>4
<1> QED BY <1>6, <1>7

(* On the first lap a query answers with the newest records, newest first, *)
(* none left out; one that falls into a save of the same log may miss the  *)
(* new record or get nothing, never a gap or a foreign record              *)
(* (app_pccomm.c lines 3325-3360, app_log.c lines 312-488).                *)
THEOREM LogQueryAnswers == ASSUME FirstLap PROVE Spec => []QueryAnswers
<1>1. LapAll => QueryAnswers
  BY LapAnswers DEF LapAll
<1>2. Spec => []LapAll
  BY LapInvariant
<1> QED BY <1>1, <1>2, PTL
=============================================================================
