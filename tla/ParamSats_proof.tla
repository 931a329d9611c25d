-------------------------- MODULE ParamSats_proof ---------------------------
(***************************************************************************)
(* The satellites of the parameter store are kept, for any number of       *)
(* satellites, any commands and any faults: what the query leaves out is   *)
(* bounded by the faults and by the changes that came for satellites not   *)
(* listed, until a start cannot read their number.                         *)
(***************************************************************************)
EXTENDS ParamStore_proof

(* The satellites acknowledged. *)
Known == ackedSats \cap (SatValues \ {0})

Gone == {n \in Known : ~ \E i \in Sats : Sat[i] = n}

Unlisted == {n \in Known : ~ \E i \in Sat_ID : Sat[i] = n}

Adding == IF Pc.op = "count" THEN 1 ELSE 0

Listing == IF Pc.op = "list" /\ Pc.num = 1 THEN 1 ELSE 0

(* A change of a satellite that is not listed will store it again perhaps, *)
Reviving == IF Pc.op = "save" /\ Pc.num # 1 /\ Pc.id \notin Sat_ID THEN 1 ELSE 0

(* and will list it without counting it. *)
Relisting == IF Pc.op \in {"save", "list"} /\ Pc.num # 1 /\ Pc.id \notin Sat_ID THEN 1 ELSE 0

(* A satellite has one id, in the EEPROM and in a command. *)
OneHome ==
    /\ \A i, j \in Sats : Sat[i] # 0 /\ Sat[i] = Sat[j] => i = j
    /\ Pc.op \in SatOps => \A i \in Sats : Pc.n = Sat[i] => i = Pc.id

(* New satellites have new numbers. *)
Fresh ==
    /\ \A i \in Sats : Sat[i] <= SatMax + count.cmds
    /\ \A n \in ackedSats : n <= SatMax + count.cmds
    /\ Pc.op \in SatOps => Pc.n <= SatMax + count.cmds

(* What a command of the PC is about. *)
CommandTrue ==
    /\ Pc.op \in SatOps /\ Pc.num = 1 => Pc.n \notin ackedSats /\ Pc.id \notin Sat_ID
    /\ Pc.op \in SatOps /\ Pc.num # 1 => Sat[Pc.id] \in {0, Pc.n}
    /\ Pc.op \in {"count", "list"} => Sat[Pc.id] = Pc.n
    /\ Pc.op = "del" => \A i \in Pc.todo : Sat[i] \notin ackedSats

StoredBound ==
    /\ Cardinality(Gone) <= SatFaults
    /\ Cardinality(Gone) + Cardinality(Stored) - SatsToFind + Reviving <= SatFaults + Adding

ListedBound ==
    up # "sats" =>
       /\ Cardinality(Gone) + Cardinality(Stored) - Sat_Total_num + Reviving <= SatFaults + Adding
       /\ Cardinality(Unlisted) + Cardinality(Sat_ID) - Sat_Total_num + Listing + Relisting <= SatFaults
       /\ Sat_Total_num <= Cardinality(Sat_ID) + Listing
       /\ Sat_ID \subseteq Stored

SatInv ==
    OneHome /\ Fresh /\ CommandTrue /\ StoredBound /\ ListedBound

(* It holds as long as the number has been readable at every start. *)
SightedInv == count.blind = 0 => SatInv

(* The number in RAM is that of the list, but for the satellite that is    *)
(* being added and for those that a change has listed without counting     *)
(* them; what a start finds it counts, so this needs nothing of the faults. *)
CountedInv ==
    /\ Pc.op \in SatOps /\ Pc.num = 1 => Pc.id \notin Sat_ID
    /\ up # "sats" =>
         /\ Sat_Total_num <= Cardinality(Sat_ID) + Listing
         /\ Cardinality(Sat_ID) - Sat_Total_num + Listing + Relisting <= count.stale

-----------------------------------------------------------------------------
(* Counting.                                                               *)

(* Sets of satellites and of ids are finite. *)
LEMMA SatsFinite ==
    /\ Sats \subseteq SatValues \ {0}
    /\ \A S : S \subseteq SatValues => IsFiniteSet(S) /\ Cardinality(S) \in Nat
<1>1. Sats \subseteq SatValues \ {0}
  BY ConstantFacts DEF Sats, SatValues
<1>2. 0 \in Int /\ SatMax + MaxCmds \in Int
  BY ConstantFacts
<1>3. IsFiniteSet(SatValues)
  BY <1>2, FS_Interval DEF SatValues
<1>4. ASSUME NEW S, S \subseteq SatValues
      PROVE  IsFiniteSet(S) /\ Cardinality(S) \in Nat
  <2>1. IsFiniteSet(S)
    BY <1>3, <1>4, FS_Subset
  <2> QED BY <2>1, FS_CardinalityType
<1> QED BY <1>1, <1>4

(* A part has no more members, *)
LEMMA Fewer ==
    ASSUME NEW S, S \subseteq SatValues, NEW T, T \subseteq S
    PROVE  Cardinality(T) \in Nat /\ Cardinality(S) \in Nat /\ Cardinality(T) <= Cardinality(S)
<1>1. IsFiniteSet(S) /\ Cardinality(S) \in Nat /\ T \subseteq SatValues
  BY SatsFinite
<1> QED BY <1>1, SatsFinite, FS_Subset

(* and less if it leaves one out. *)
LEMMA OneLess ==
    ASSUME NEW S, S \subseteq SatValues, NEW T, T \subseteq S, NEW x \in S, x \notin T
    PROVE  Cardinality(T) \in Nat /\ Cardinality(S) \in Nat /\ Cardinality(T) + 1 <= Cardinality(S)
<1>1. Cardinality(T) \in Nat /\ Cardinality(S) \in Nat /\ Cardinality(T) <= Cardinality(S)
  BY Fewer
<1>2. IsFiniteSet(S) /\ S # T
  BY SatsFinite
<1>3. Cardinality(S) # Cardinality(T)
  BY <1>2, FS_Subset
<1> QED BY <1>1, <1>3

(* One more member. *)
LEMMA OneMore ==
    ASSUME NEW S, S \subseteq SatValues, NEW x \in SatValues, NEW T, T \subseteq S \cup {x}
    PROVE  /\ Cardinality(T) \in Nat /\ Cardinality(S) \in Nat
           /\ Cardinality(T) <= Cardinality(S) + 1
           /\ x \notin S => Cardinality(S \cup {x}) = Cardinality(S) + 1
<1>1. IsFiniteSet(S) /\ Cardinality(S) \in Nat
  BY SatsFinite
<1>2. /\ IsFiniteSet(S \cup {x})
      /\ Cardinality(S \cup {x}) = IF x \in S THEN Cardinality(S) ELSE Cardinality(S) + 1
  BY <1>1, FS_AddElement
<1>3. Cardinality(T) <= Cardinality(S \cup {x}) /\ Cardinality(T) \in Nat
  BY <1>2, SatsFinite, Fewer
<1> QED BY <1>1, <1>2, <1>3

(* What is stored under ids is not more than the ids, and what is in A or  *)
(* under them not more than both.                                          *)
LEMMA HomesCount ==
    ASSUME Sat \in [Sats -> SatValues], NEW D, D \subseteq Sats, NEW A, A \subseteq SatValues,
           NEW T, T \subseteq A \cup {Sat[i] : i \in D}
    PROVE  /\ Cardinality(T) \in Nat /\ Cardinality(A) \in Nat /\ Cardinality(D) \in Nat
           /\ Cardinality(T) <= Cardinality(A) + Cardinality(D)
<1> DEFINE H == {Sat[i] : i \in D}
           f == [i \in D |-> Sat[i]]
<1>1. H \subseteq SatValues /\ D \subseteq SatValues
  BY SatsFinite
<1>2. f \in Surjection(D, H)
  BY DEF Surjection
<1>3. IsFiniteSet(D) /\ Cardinality(D) \in Nat /\ IsFiniteSet(A) /\ Cardinality(A) \in Nat
      /\ IsFiniteSet(H) /\ Cardinality(H) \in Nat
  BY <1>1, SatsFinite
<1>4. T \subseteq A \cup H
  OBVIOUS
<1> HIDE DEF H, f
<1>5. Cardinality(H) <= Cardinality(D)
  BY <1>2, <1>3, FS_Surjection
<1>6. A \cup H \subseteq SatValues /\ A \cap H \subseteq SatValues
  BY <1>1
<1>7. Cardinality(A \cup H) = Cardinality(A) + Cardinality(H) - Cardinality(A \cap H)
  BY <1>3, FS_Union
<1>8. Cardinality(A \cap H) \in Nat
  BY <1>6, SatsFinite
<1>9. Cardinality(T) \in Nat /\ Cardinality(T) <= Cardinality(A \cup H)
  BY <1>4, <1>6, Fewer
<1> QED BY <1>3, <1>5, <1>7, <1>8, <1>9

(* The sets that the invariant counts, before and after a step. *)
LEMMA SatSets ==
    /\ Known \subseteq SatValues /\ Gone \subseteq SatValues /\ Unlisted \subseteq SatValues
    /\ Stored \subseteq Sats /\ Stored \subseteq SatValues
    /\ Known' \subseteq SatValues /\ Gone' \subseteq SatValues /\ Unlisted' \subseteq SatValues
    /\ Stored' \subseteq Sats /\ Stored' \subseteq SatValues
BY SatsFinite DEF Known, Gone, Unlisted, Stored

LEMMA SatCards ==
    /\ Cardinality(Gone) \in Nat /\ Cardinality(Unlisted) \in Nat /\ Cardinality(Stored) \in Nat
    /\ Cardinality(Gone)' \in Nat /\ Cardinality(Unlisted)' \in Nat /\ Cardinality(Stored)' \in Nat
    /\ Sat_ID \subseteq Sats => Cardinality(Sat_ID) \in Nat
    /\ Sat_ID' \subseteq Sats => Cardinality(Sat_ID)' \in Nat
BY SatSets, SatsFinite

(* The numbers that it adds up. *)
LEMMA SatNumbers ==
    /\ {Adding, Listing, Reviving, Relisting} \subseteq {0, 1}
    /\ {Adding', Listing', Reviving', Relisting'} \subseteq {0, 1}
    /\ TypeInv => /\ SatsToFind \in 0..SatMax /\ Sat_Total_num \in 0..SatMax
                  /\ SatFaults \in Nat /\ count.cmds \in Nat
    /\ TypeInv' => /\ SatsToFind' \in 0..SatMax /\ Sat_Total_num' \in 0..SatMax
                   /\ SatFaults' \in Nat /\ count'.cmds \in Nat
<1>1. /\ {Adding, Listing, Reviving, Relisting} \subseteq {0, 1}
      /\ {Adding', Listing', Reviving', Relisting'} \subseteq {0, 1}
  BY DEF Adding, Listing, Reviving, Relisting
<1>2. TypeInv => /\ SatsToFind \in 0..SatMax /\ Sat_Total_num \in 0..SatMax
                 /\ SatFaults \in Nat /\ count.cmds \in Nat
  BY ConstantFacts DEF SatsToFind, TypeInv, StoresOK, ListsOK, CountsOK, CountState, SatFaults
<1>3. TypeInv' => /\ SatsToFind' \in 0..SatMax /\ Sat_Total_num' \in 0..SatMax
                  /\ SatFaults' \in Nat /\ count'.cmds \in Nat
  BY ConstantFacts DEF SatsToFind, TypeInv, StoresOK, ListsOK, CountsOK, CountState, SatFaults
<1> QED BY <1>1, <1>2, <1>3

(* The counts of a command that begins. *)
LEMMA BeginCounts ==
    ASSUME TypeInv, NEW s, NEW k, NEW t, NEW stale \in Nat, BeginCounting(s, k, t, stale)
    PROVE  count'.cmds = count.cmds + 1 /\ SatFaults' = SatFaults + stale /\ up = "on"
<1> DEFINE o == IF \E r \in Senders : task[r] # Idle THEN 1 ELSE 0
<1>1. /\ count' = [count EXCEPT !.cmds = count.cmds + 1, !.overlaps = count.overlaps + o,
                                !.stale = count.stale + stale]
      /\ up = "on"
  BY DEF BeginCounting
<1> HIDE DEF o
<1>2. /\ count'.cmds = count.cmds + 1 /\ count'.torn = count.torn
      /\ count'.fails = count.fails /\ count'.misreads = count.misreads
      /\ count'.stale = count.stale + stale
  BY <1>1, Zenon DEF TypeInv, CountsOK, CountState
<1>3. {count.torn, count.fails, count.misreads, count.stale} \subseteq Nat
  BY DEF TypeInv, CountsOK, CountState
<1> QED BY <1>1, <1>2, <1>3 DEF SatFaults
-----------------------------------------------------------------------------
(* The steps.                                                              *)

(* A step that is not about satellites keeps what is known of them. *)
LEMMA RecordStepSats ==
    ASSUME TypeInv, TypeInv', SatInv, RecordStep
    PROVE  SatInv'
<1>1. UNCHANGED <<Sat_num, Sat, Sat_Total_num, Sat_ID, ackedSats>>
  BY DEF RecordStep
<1>2. /\ Known' = Known /\ Gone' = Gone /\ Unlisted' = Unlisted /\ Stored' = Stored
      /\ SatsToFind' = SatsToFind
  BY <1>1 DEF Known, Gone, Unlisted, Stored, SatsToFind
<1>3. /\ Adding' = Adding /\ Listing' = Listing
      /\ Reviving' = Reviving /\ Relisting' = Relisting
      /\ Pc'.op \in SatOps \cup {"del"} => Pc' = Pc
  BY <1>1 DEF RecordStep, Adding, Listing, Reviving, Relisting, SatOps
<1>4. count.cmds <= count'.cmds /\ SatFaults <= SatFaults' /\ (up' # "sats" => up # "sats")
  BY DEF RecordStep
<1>5. OneHome'
  BY <1>1, <1>3 DEF SatInv, OneHome
<1>6. Fresh'
  <2>1. SatMax \in Nat /\ count.cmds \in Nat /\ count'.cmds \in Nat
    BY ConstantFacts, SatNumbers
  <2>2. \A n \in SatValues : n <= SatMax + count.cmds => n <= SatMax + count'.cmds
    BY <1>4, <2>1 DEF SatValues
  <2>3. /\ \A i \in Sats : Sat[i] \in SatValues
        /\ \A n \in ackedSats : n \in SatValues
        /\ Pc'.op \in SatOps => Pc.op \in SatOps /\ Pc.n \in SatValues /\ Pc'.n = Pc.n
    BY <1>3, ConstantFacts DEF TypeInv, StoresOK, ClientsOK, TasksOK, Typed, Pc
  <2> QED BY <1>1, <2>2, <2>3 DEF SatInv, Fresh
<1>7. CommandTrue'
  BY <1>1, <1>3 DEF SatInv, CommandTrue, SatOps
<1>8. StoredBound' /\ ListedBound'
  <2>1. /\ Cardinality(Gone)' = Cardinality(Gone) /\ Cardinality(Unlisted)' = Cardinality(Unlisted)
        /\ Cardinality(Stored)' = Cardinality(Stored) /\ Cardinality(Sat_ID)' = Cardinality(Sat_ID)
    BY <1>1, <1>2
  <2>2. Sat_ID \subseteq Sats
    BY DEF TypeInv, ListsOK
  <2> QED BY <1>1, <1>2, <1>3, <1>4, <2>1, <2>2, SatCards, SatNumbers, ConstantFacts
        DEF SatInv, StoredBound, ListedBound
<1> QED BY <1>5, <1>6, <1>7, <1>8 DEF SatInv

LEMMA InitRecordsSats ==
    ASSUME TypeInv, InitRecords
    PROVE  RecordStep
<1> PICK bad \in SUBSET StoredRecords, w \in BOOLEAN, ok \in BOOLEAN :
        Save(w, ok, Misread(bad)) \/ count' = Misread(bad)
  BY DEF InitRecords
<1>1. Cardinality(bad) \in Nat
  BY IdsFinite DEF StoredRecords
<1>2. /\ Misread(bad) \in CountState /\ Misread(bad).cmds = count.cmds
      /\ Misread(bad).torn = count.torn /\ Misread(bad).fails = count.fails
      /\ Misread(bad).misreads = count.misreads + Cardinality(bad)
      /\ Misread(bad).stale = count.stale
  BY <1>1, MisreadCounts DEF TypeInv
<1>3. /\ count'.cmds = count.cmds /\ count'.torn = count.torn
      /\ count'.misreads = count.misreads + Cardinality(bad) /\ count'.stale = count.stale
      /\ count'.fails \in {count.fails, count.fails + 1}
  BY <1>2, SaveCounts
<1>4. {count.torn, count.fails, count.misreads, count.stale, count.cmds} \subseteq Nat
  BY DEF TypeInv, CountsOK, CountState
<1>5. count.cmds <= count'.cmds /\ SatFaults <= SatFaults'
  BY <1>1, <1>3, <1>4 DEF SatFaults
<1> QED BY <1>5 DEF RecordStep, InitRecords, satVars, clientVars, Pc

LEMMA CrashSats ==
    ASSUME TypeInv, SatInv, Crash
    PROVE  SatInv'
<1> DEFINE o == IF \E s \in Senders : task[s] # Idle THEN 1 ELSE 0
<1>1. /\ count' = [count EXCEPT !.restarts = count.restarts + 1, !.torn = count.torn + o]
      /\ task' = [s \in Senders |-> Idle]
      /\ UNCHANGED <<eepromVars, clientVars>> /\ up' = "sats"
  BY DEF Crash
<1>2. /\ o \in {0, 1} /\ (Adding = 1 => o = 1)
  BY IdleTyped, ConstantFacts DEF Adding, Pc
<1> HIDE DEF o
<1>3. /\ count'.torn = count.torn + o /\ count'.fails = count.fails
      /\ count'.misreads = count.misreads /\ count'.cmds = count.cmds
      /\ count'.stale = count.stale
  BY <1>1, Zenon DEF TypeInv, CountsOK, CountState
<1>4. SatFaults' = SatFaults + o
  BY <1>2, <1>3 DEF SatFaults, TypeInv, CountsOK, CountState
<1>5. UNCHANGED <<Sat_num, Sat, ackedSats>>
  BY <1>1 DEF eepromVars, clientVars
<1>6. Known' = Known /\ Gone' = Gone /\ Stored' = Stored /\ SatsToFind' = SatsToFind
  BY <1>5 DEF Known, Gone, Stored, SatsToFind
<1>7. Pc' = Idle /\ Pc'.op = "idle" /\ Adding' = 0 /\ Reviving' = 0
  BY <1>1, IdleTyped, ConstantFacts DEF Pc, Adding, Reviving
<1>8. OneHome' /\ Fresh' /\ CommandTrue'
  BY <1>3, <1>5, <1>7 DEF SatInv, OneHome, Fresh, CommandTrue, SatOps
<1>9. StoredBound'
  BY <1>2, <1>4, <1>6, <1>7, SatCards, SatNumbers, ConstantFacts DEF SatInv, StoredBound
<1>10. ListedBound'
  BY <1>1 DEF ListedBound
<1> QED BY <1>8, <1>9, <1>10 DEF SatInv

(* A start finds all that can be read, or as many as it looks for. *)
LEMMA InitSatsSats ==
    ASSUME TypeInv, TypeInv', SatInv, InitSats
    PROVE  SatInv'
<1> PICK bad \in SUBSET Stored, w \in BOOLEAN, ok \in BOOLEAN :
        /\ Sat_ID' = FoundSats(bad)
        /\ Sat_Total_num' = RepairedNum(FoundSats(bad))
        /\ IF Cardinality(FoundSats(bad)) < SatsToFind
           THEN Save(w, ok, Misread(bad)) /\ Sat_num' = (IF w THEN RepairedNum(FoundSats(bad)) ELSE Sat_num)
           ELSE count' = Misread(bad) /\ UNCHANGED Sat_num
  BY DEF InitSats
<1>1. UNCHANGED <<Sat, task, ackedSats>> /\ up = "sats" /\ up' = "records"
  BY DEF InitSats, clientVars
<1> DEFINE S == Stored \ bad
           found == FoundSats(bad)
           k == Cardinality(found)
           K == Cardinality(Stored)
           b == Cardinality(bad)
<1>2. IsFiniteSet(Stored) /\ K \in Nat
  BY SatSets, SatsFinite
<1>3. /\ IsFiniteSet(bad) /\ IsFiniteSet(S) /\ b \in Nat /\ Cardinality(S) \in Nat
      /\ K = b + Cardinality(S)
  BY <1>2, CardSplit
<1>4. S \subseteq Nat /\ SatsToFind \in Nat
  BY SatSets, SatNumbers, ConstantFacts
<1>5. /\ found \subseteq S
      /\ Cardinality(S \ found) <= (IF Cardinality(S) > SatsToFind THEN Cardinality(S) - SatsToFind ELSE 0)
  BY <1>3, <1>4, LowestRest DEF FoundSats
<1> HIDE DEF S, found
<1>6. k \in Nat /\ Cardinality(S \ found) \in Nat /\ Cardinality(S) = k + Cardinality(S \ found)
  BY <1>3, <1>5, CardSplit
<1>7. /\ found \subseteq Stored /\ Cardinality(Stored \ found) \in Nat
      /\ K = k + Cardinality(Stored \ found)
  BY <1>2, <1>5, CardSplit DEF S
<1>8. k < SatsToFind => K - k = b
  BY <1>3, <1>4, <1>5, <1>6
<1>9. /\ Known' = Known /\ Gone' = Gone /\ Stored' = Stored
      /\ Unlisted' \subseteq Gone \cup {Sat[i] : i \in Stored \ found}
  <2>1. Known' = Known /\ Gone' = Gone /\ Stored' = Stored
    BY <1>1 DEF Known, Gone, Stored
  <2>2. \A n \in Unlisted' : n \notin Gone => n \in {Sat[i] : i \in Stored \ found}
    <3> SUFFICES ASSUME NEW n \in Unlisted', n \notin Gone
                 PROVE  n \in {Sat[i] : i \in Stored \ found}
      OBVIOUS
    <3>1. n \in Known /\ n # 0 /\ ~ \E i \in found : Sat[i] = n
      BY <1>1, <2>1 DEF Unlisted, Known, found
    <3>2. PICK i \in Sats : Sat[i] = n
      BY <3>1 DEF Gone
    <3> QED BY <3>1, <3>2 DEF Stored
  <2> QED BY <2>1, <2>2
<1>10. /\ Cardinality(Unlisted)' <= Cardinality(Gone) + Cardinality(Stored \ found)
       /\ Cardinality(Unlisted)' \in Nat /\ Cardinality(Gone) \in Nat
  <2>1. Sat \in [Sats -> SatValues] /\ Stored \ found \subseteq Sats
    BY SatSets DEF TypeInv, StoresOK
  <2> QED BY <1>9, <2>1, SatSets, HomesCount
<1>11. /\ count'.cmds = count.cmds /\ SatFaults' >= SatFaults + b
  <2>1. /\ Misread(bad) \in CountState /\ Misread(bad).cmds = count.cmds
        /\ Misread(bad).torn = count.torn /\ Misread(bad).fails = count.fails
        /\ Misread(bad).misreads = count.misreads + b /\ Misread(bad).stale = count.stale
    BY <1>3, MisreadCounts DEF TypeInv
  <2>2. /\ count'.cmds = count.cmds /\ count'.torn = count.torn
        /\ count'.misreads = count.misreads + b /\ count'.stale = count.stale
        /\ count'.fails \in {count.fails, count.fails + 1}
    BY <2>1, SaveCounts
  <2>3. {count.torn, count.fails, count.misreads, count.stale} \subseteq Nat
    BY DEF TypeInv, CountsOK, CountState
  <2> QED BY <1>3, <2>2, <2>3 DEF SatFaults
<1>12. /\ Pc' = Pc /\ Pc = Idle /\ Pc.op = "idle" /\ Adding = 0 /\ Adding' = 0
       /\ Listing' = 0 /\ Reviving = 0 /\ Reviving' = 0 /\ Relisting' = 0
  BY <1>1, IdleTyped, ConstantFacts DEF TypeInv, Pc, Adding, Listing, Reviving, Relisting
<1>13. OneHome' /\ Fresh' /\ CommandTrue'
  BY <1>1, <1>11, <1>12 DEF SatInv, OneHome, Fresh, CommandTrue, SatOps
<1>14. SatsToFind' = SatsToFind \/ (k < SatsToFind /\ SatsToFind' = k)
  <2>1. k <= SatMax
    BY <1>7, IdsFinite, SatSets
  <2>2. Sat_num' = Sat_num \/ (k < SatsToFind /\ Sat_num' = k)
    BY DEF RepairedNum, found
  <2> QED BY <1>6, <2>1, <2>2, ConstantFacts DEF SatsToFind
<1>15. Sat_Total_num' = k /\ Sat_ID' = found /\ Cardinality(Sat_ID)' = k
  BY DEF RepairedNum, found
<1>16. /\ Cardinality(Gone) <= SatFaults
       /\ Cardinality(Gone) + K - SatsToFind <= SatFaults
  BY <1>12, SatCards, SatNumbers, ConstantFacts DEF SatInv, StoredBound
<1> HIDE DEF k, K, b
<1>17. Cardinality(Gone) + K - k <= SatFaults'
  <2>1. CASE k < SatsToFind
    BY <1>3, <1>6, <1>8, <1>10, <1>11, <1>16, <2>1, SatNumbers DEF k, K, b
  <2>2. CASE ~(k < SatsToFind)
    BY <1>2, <1>3, <1>4, <1>6, <1>10, <1>11, <1>16, <2>2, SatNumbers
  <2> QED BY <2>1, <2>2
<1>18. Cardinality(Gone)' = Cardinality(Gone) /\ Cardinality(Stored)' = K
  BY <1>9 DEF K
<1>19. StoredBound'
  BY <1>2, <1>3, <1>4, <1>6, <1>10, <1>11, <1>12, <1>14, <1>16, <1>17, <1>18, SatNumbers DEF StoredBound
<1>20. ListedBound'
  <2>1. Sat_ID' \subseteq Stored'
    BY <1>7, <1>9, <1>15
  <2> QED BY <1>2, <1>6, <1>7, <1>10, <1>12, <1>15, <1>17, <1>18, <2>1, SatNumbers DEF ListedBound
<1> QED BY <1>13, <1>19, <1>20 DEF SatInv

(* Nothing is counted anew while the satellites stay as they are. *)
LEMMA SameBounds ==
    ASSUME TypeInv, TypeInv', SatInv, up # "sats", UNCHANGED <<Sat_num, Sat, satVars, up>>,
           Known' \subseteq Known, Adding' >= Adding, Listing' = Listing,
           SatFaults + Reviving' <= SatFaults' + Reviving,
           SatFaults + Relisting' <= SatFaults' + Relisting, SatFaults <= SatFaults'
    PROVE  StoredBound' /\ ListedBound'
<1>1. UNCHANGED <<Sat_num, Sat, Sat_Total_num, Sat_ID, up>>
  BY DEF satVars
<1>2. /\ Gone' \subseteq Gone /\ Unlisted' \subseteq Unlisted /\ Stored' = Stored
      /\ SatsToFind' = SatsToFind
  BY <1>1 DEF Gone, Unlisted, Stored, SatsToFind
<1>3. Cardinality(Gone)' <= Cardinality(Gone) /\ Cardinality(Unlisted)' <= Cardinality(Unlisted)
  BY <1>2, SatSets, Fewer
<1>4. Cardinality(Stored)' = Cardinality(Stored) /\ Cardinality(Sat_ID)' = Cardinality(Sat_ID)
  BY <1>1, <1>2
<1>5. Sat_ID \subseteq Sats
  BY DEF TypeInv, ListsOK
<1> QED BY <1>1, <1>2, <1>3, <1>4, <1>5, SatCards, SatNumbers, ConstantFacts DEF SatInv, StoredBound, ListedBound

LEMMA SatAddSats ==
    ASSUME TypeInv, TypeInv', SatInv, SatAdd
    PROVE  SatInv'
<1>1. /\ Pc = Idle /\ Pc'.op = "save" /\ Pc'.id = NewSatId /\ Pc'.num = 1
      /\ Pc'.n = SatMax + count.cmds + 1
  BY SatAddTypes
<1>2. UNCHANGED <<eepromVars, satVars, recordVars, up, clientVars>>
  BY DEF SatAdd
<1>3. UNCHANGED <<Sat_num, Sat, Sat_Total_num, Sat_ID, up, ackedSats>>
  BY <1>2 DEF eepromVars, satVars, clientVars
<1>4. count'.cmds = count.cmds + 1 /\ SatFaults' = SatFaults /\ up = "on"
  <2>1. \E t : BeginCounting("pc", "sat", t, 0)
    BY DEF SatAdd, Begin
  <2> QED BY <2>1, BeginCounts, SatNumbers
<1>5. SatMax \in Nat /\ count.cmds \in Nat /\ SatFaults \in Nat
  BY ConstantFacts, SatNumbers
<1>6. /\ \A i \in Sats : Sat[i] \in Nat
      /\ \A n \in ackedSats : n \in Nat
  BY DEF TypeInv, StoresOK, ClientsOK, SatValues
<1>7. Fresh'
  BY <1>1, <1>3, <1>4, <1>5, <1>6 DEF SatInv, Fresh
<1>8. OneHome'
  <2>1. \A i \in Sats : Pc'.n # Sat[i]
    BY <1>1, <1>5, <1>6 DEF SatInv, Fresh
  <2> QED BY <1>3, <2>1 DEF SatInv, OneHome
<1>10. CommandTrue'
  <2>1. NewSatId \in Sats \ Sat_ID
    <3>1. Sats \ Sat_ID \subseteq Nat /\ Sats \ Sat_ID # {}
      BY ConstantFacts DEF SatAdd
    <3> QED BY <3>1, MinIn DEF NewSatId
  <2>2. Pc'.n \notin ackedSats
    BY <1>1, <1>5, <1>6 DEF SatInv, Fresh
  <2> QED BY <1>1, <1>3, <2>1, <2>2 DEF CommandTrue, SatOps
<1>11. StoredBound' /\ ListedBound'
  <2>1. /\ Adding = 0 /\ Adding' = 0 /\ Listing' = 0 /\ Listing = 0
        /\ Reviving = 0 /\ Reviving' = 0 /\ Relisting = 0 /\ Relisting' = 0
    BY <1>1, IdleTyped DEF Adding, Listing, Reviving, Relisting
  <2>2. Known' \subseteq Known
    BY <1>3 DEF Known
  <2>3. /\ SatFaults <= SatFaults' /\ SatFaults + Reviving' <= SatFaults' + Reviving
        /\ SatFaults + Relisting' <= SatFaults' + Relisting
        /\ Adding' >= Adding /\ up # "sats"
    BY <1>4, <1>5, <2>1
  <2> QED BY <1>2, <1>3, <2>1, <2>2, <2>3, SameBounds
<1> QED BY <1>7, <1>8, <1>10, <1>11 DEF SatInv

LEMMA SatModifySats ==
    ASSUME TypeInv, TypeInv', SatInv, NEW id \in Sats, SatModify(id)
    PROVE  SatInv'
<1> DEFINE stale == IF id \in Sat_ID THEN 0 ELSE 1
<1>1. Pc = Idle /\ Pc'.op = "save" /\ Pc'.id = id /\ Pc'.num = 0 /\ Pc'.n = Changed(id)
  BY SatModifyTypes
<1>2. UNCHANGED <<eepromVars, satVars, recordVars, up, clientVars>>
  BY DEF SatModify
<1>3. UNCHANGED <<Sat_num, Sat, Sat_Total_num, Sat_ID, up, ackedSats>>
  BY <1>2 DEF eepromVars, satVars, clientVars
<1>4. count'.cmds = count.cmds + 1 /\ SatFaults' = SatFaults + stale /\ up = "on"
  <2>1. \E t : BeginCounting("pc", "sat", t, stale)
    BY DEF SatModify
  <2> QED BY <2>1, BeginCounts
<1>5. SatMax \in Nat /\ count.cmds \in Nat /\ SatFaults \in Nat
  BY ConstantFacts, SatNumbers
<1>6. /\ \A i \in Sats : Sat[i] \in Nat
      /\ \A n \in ackedSats : n \in Nat
  BY DEF TypeInv, StoresOK, ClientsOK, SatValues
<1>7. Fresh'
  <2>1. Pc'.n <= SatMax + count'.cmds
    BY <1>1, <1>4, <1>5, <1>6 DEF SatInv, Fresh, Changed
  <2> QED BY <1>3, <1>4, <1>5, <1>6, <2>1 DEF SatInv, Fresh
<1>8. OneHome'
  <2>1. \A i \in Sats : Pc'.n = Sat[i] => i = id
    BY <1>1, <1>5, <1>6 DEF SatInv, OneHome, Fresh, Changed
  <2> QED BY <1>1, <1>3, <2>1 DEF SatInv, OneHome
<1>9. CommandTrue'
  BY <1>1, <1>3 DEF CommandTrue, Changed, SatOps
<1>10. StoredBound' /\ ListedBound'
  <2>1. /\ Adding = 0 /\ Adding' = 0 /\ Listing' = 0 /\ Listing = 0
        /\ Reviving = 0 /\ Reviving' = stale /\ Relisting = 0 /\ Relisting' = stale
    BY <1>1, <1>3, IdleTyped DEF Adding, Listing, Reviving, Relisting
  <2>2. Known' \subseteq Known
    BY <1>3 DEF Known
  <2>3. /\ SatFaults <= SatFaults' /\ SatFaults + Reviving' <= SatFaults' + Reviving
        /\ SatFaults + Relisting' <= SatFaults' + Relisting
        /\ Adding' >= Adding /\ up # "sats"
    BY <1>4, <1>5, <2>1
  <2> QED BY <1>2, <1>3, <2>1, <2>2, <2>3, SameBounds
<1> QED BY <1>7, <1>8, <1>9, <1>10 DEF SatInv

(* What SatSave writes and where the command goes on. *)
LEMMA SatSaveEffect ==
    ASSUME TypeInv, SatSave
    PROVE  \E w, ok \in BOOLEAN :
              /\ up = "on" /\ Pc.op = "save" /\ Pc.id \in Sats /\ Pc.n \in SatValues \ {0}
              /\ UNCHANGED <<Sat_num, Sat_Total_num, Sat_ID, up, ackedSats>>
              /\ Sat' = (IF w THEN [Sat EXCEPT ![Pc.id] = Pc.n] ELSE Sat)
              /\ ok => w
              /\ count'.cmds = count.cmds /\ SatFaults' = SatFaults + (IF ok THEN 0 ELSE 1)
              /\ ok => /\ Pc'.op = (IF Pc.num = 1 THEN "count" ELSE "list")
                       /\ Pc'.id = Pc.id /\ Pc'.n = Pc.n /\ Pc'.num = Pc.num
              /\ ~ok => Pc' = Idle
<1> PICK w \in BOOLEAN, ok \in BOOLEAN :
          /\ Save(w, ok, count)
          /\ Sat' = IF w THEN [Sat EXCEPT ![task["pc"].id] = task["pc"].n] ELSE Sat
          /\ IF ok THEN Goto("pc", IF task["pc"].num = 1 THEN "count" ELSE "list") ELSE End("pc")
  BY DEF SatSave
<1>1. up = "on" /\ Pc.op = "save" /\ UNCHANGED <<Sat_num, Sat_Total_num, Sat_ID, up, ackedSats>>
  BY DEF SatSave, At, Pc, satVars, clientVars
<1>2. Pc \in TaskState /\ Pc.id \in Sats /\ Pc.n \in SatValues \ {0}
  BY <1>1, ConstantFacts DEF TypeInv, TasksOK, Typed, SatOps, Pc
<1>3. count'.cmds = count.cmds /\ SatFaults' = SatFaults + (IF ok THEN 0 ELSE 1) /\ (ok => w)
  BY SaveFaults DEF TypeInv
<1>4. ASSUME ok
      PROVE  /\ Pc'.op = (IF Pc.num = 1 THEN "count" ELSE "list")
             /\ Pc'.id = Pc.id /\ Pc'.n = Pc.n /\ Pc'.num = Pc.num
  <2> DEFINE op == IF Pc.num = 1 THEN "count" ELSE "list"
             u == [Pc EXCEPT !.op = op]
  <2>1. op \in Ops
    BY DEF Ops, SatOps
  <2>2. task' = [task EXCEPT !["pc"] = u]
    BY <1>4 DEF Goto, Pc
  <2> HIDE DEF op
  <2>3. u.op = op /\ u.id = Pc.id /\ u.n = Pc.n /\ u.num = Pc.num
    BY <1>2, <2>1, Reop
  <2>4. Pc' = u
    BY <2>2, ConstantFacts DEF Pc, TypeInv, TasksOK
  <2> HIDE DEF u
  <2> QED BY <2>3, <2>4 DEF op
<1>5. ~ok => Pc' = Idle
  BY EndFacts, ConstantFacts DEF TypeInv, Pc
<1> WITNESS w \in BOOLEAN, ok \in BOOLEAN
<1> QED BY <1>1, <1>2, <1>3, <1>4, <1>5 DEF Pc

(* The write of a satellite: what it overwrites is not known any more, or  *)
(* it is a new satellite and what it overwrites was not listed.            *)
LEMMA SatSaveSats ==
    ASSUME TypeInv, TypeInv', SatInv, SatSave
    PROVE  SatInv'
<1> PICK w \in BOOLEAN, ok \in BOOLEAN :
        /\ up = "on" /\ Pc.op = "save" /\ Pc.id \in Sats /\ Pc.n \in SatValues \ {0}
        /\ UNCHANGED <<Sat_num, Sat_Total_num, Sat_ID, up, ackedSats>>
        /\ Sat' = (IF w THEN [Sat EXCEPT ![Pc.id] = Pc.n] ELSE Sat)
        /\ ok => w
        /\ count'.cmds = count.cmds /\ SatFaults' = SatFaults + (IF ok THEN 0 ELSE 1)
        /\ ok => /\ Pc'.op = (IF Pc.num = 1 THEN "count" ELSE "list")
                 /\ Pc'.id = Pc.id /\ Pc'.n = Pc.n /\ Pc'.num = Pc.num
        /\ ~ok => Pc' = Idle
  BY SatSaveEffect
<1> DEFINE id == Pc.id
           n == Pc.n
           o == Sat[id]
<1>1. id \in Sats /\ n \in SatValues /\ n # 0 /\ o \in SatValues
  BY DEF TypeInv, StoresOK
<1>2. Sat \in [Sats -> SatValues]
  BY DEF TypeInv, StoresOK
<1>3. Known' = Known /\ SatsToFind' = SatsToFind
  BY DEF Known, SatsToFind
<1>4. /\ Adding = 0 /\ Listing = 0 /\ Listing' = 0 /\ Reviving' = 0
      /\ Adding' = (IF ok /\ Pc.num = 1 THEN 1 ELSE 0)
      /\ Reviving = (IF Pc.num # 1 /\ id \notin Sat_ID THEN 1 ELSE 0)
      /\ Relisting = Reviving
      /\ Relisting' = (IF ok THEN Relisting ELSE 0)
  BY IdleTyped DEF Adding, Listing, Reviving, Relisting
<1>5. \A i \in Sats : n = Sat[i] => i = id
  BY DEF SatInv, OneHome, SatOps
<1>6. SatFaults' = SatFaults + (IF ok THEN 0 ELSE 1) /\ SatFaults \in Nat
  BY SatNumbers
<1>7. CASE ~w
  <2>1. Pc' = Idle /\ Pc'.op = "idle" /\ Sat' = Sat /\ SatFaults <= SatFaults'
    BY <1>6, <1>7, IdleTyped
  <2>2. OneHome' /\ Fresh' /\ CommandTrue'
    BY <2>1 DEF SatInv, OneHome, Fresh, CommandTrue, SatOps
  <2>3. StoredBound' /\ ListedBound'
    <3>1. /\ Adding' >= Adding /\ Listing' = Listing
          /\ SatFaults + Reviving' <= SatFaults' + Reviving
          /\ SatFaults + Relisting' <= SatFaults' + Relisting
      BY <1>4, <1>6, <1>7
    <3> QED BY <1>3, <2>1, <3>1, SameBounds DEF satVars
  <2> QED BY <2>2, <2>3 DEF SatInv
<1>8. CASE w
  <2>1. Sat' = [Sat EXCEPT ![id] = n]
    BY <1>8
  <2>2. Pc'.op \in SatOps => ok
    BY IdleTyped DEF SatOps
  <2> HIDE DEF id, n, o
  <2>3. Sat'[id] = n /\ \A i \in Sats : i # id => Sat'[i] = Sat[i]
    BY <1>1, <1>2, <2>1
  <2>4. OneHome'
    <3>1. \A i, j \in Sats : Sat'[i] # 0 /\ Sat'[i] = Sat'[j] => i = j
      BY <1>1, <1>5, <2>3 DEF SatInv, OneHome
    <3>2. \A i \in Sats : n = Sat'[i] => i = id
      BY <1>5, <2>3
    <3> QED BY <2>2, <3>1, <3>2 DEF SatInv, OneHome, id, n
  <2>5. Fresh'
    <3>1. n <= SatMax + count.cmds
      BY DEF SatInv, Fresh, SatOps, n
    <3>2. \A i \in Sats : Sat'[i] <= SatMax + count'.cmds
      BY <2>3, <3>1 DEF SatInv, Fresh
    <3> QED BY <2>2, <3>1, <3>2 DEF SatInv, Fresh, n
  <2>6. Pc.num # 1 => o \in {0, n}
    BY DEF SatInv, CommandTrue, SatOps, id, n, o
  <2>7. Pc.num = 1 => n \notin ackedSats /\ id \notin Sat_ID
    BY DEF SatInv, CommandTrue, SatOps, id, n
  <2>9. CommandTrue'
    <3>1. CASE ok
      BY <2>3, <2>7, <3>1 DEF CommandTrue, id, n
    <3>2. CASE ~ok
      BY <3>2, IdleTyped DEF CommandTrue, SatOps
    <3> QED BY <3>1, <3>2
  <2>10. /\ Stored' = Stored \cup {id} /\ (o # 0 => Stored' = Stored)
         /\ (o = 0 => id \notin Stored)
    BY <1>1, <2>3 DEF Stored, o
  <2>11. /\ Cardinality(Stored) \in Nat
         /\ Cardinality(Stored') = Cardinality(Stored) + (IF o = 0 THEN 1 ELSE 0)
    <3>1. id \in SatValues
      BY <1>1, SatsFinite
    <3>2. id \notin Stored => Cardinality(Stored \cup {id}) = Cardinality(Stored) + 1
      BY <3>1, SatSets, OneMore
    <3> QED BY <2>10, <3>2, SatCards
  <2>12. Sat_ID \subseteq Stored' /\ Sat_ID \subseteq Sats
    BY <2>10 DEF SatInv, ListedBound, TypeInv, ListsOK
  <2>13. /\ Unlisted' \subseteq Unlisted
         /\ Cardinality(Gone') <= SatFaults'
         /\ Cardinality(Gone') + Cardinality(Stored')
              <= Cardinality(Gone) + Cardinality(Stored) + Reviving + Adding' + (IF ok THEN 0 ELSE 1)
    <3>1. CASE Pc.num # 1
      <4>1. \A m \in Known, i \in Sats : Sat[i] = m => Sat'[i] = m
        BY <1>1, <2>3, <2>6, <3>1 DEF o, Known
      <4>2. Gone' \subseteq Gone
        BY <1>3, <4>1 DEF Gone
      <4>3. Unlisted' \subseteq Unlisted
        BY <1>3, <2>12, <4>1 DEF Unlisted
      <4>4. Cardinality(Gone') <= Cardinality(Gone) /\ Cardinality(Gone') \in Nat /\ Cardinality(Gone) \in Nat
        BY <4>2, SatSets, Fewer
      <4>5. o = 0 => Reviving = 1
        <5>1. id \in Sat_ID => o # 0
          BY DEF SatInv, ListedBound, Stored, o
        <5> QED BY <1>4, <3>1, <5>1 DEF id
      <4>6. Cardinality(Gone) <= SatFaults
        BY DEF SatInv, StoredBound
      <4> QED BY <1>4, <1>6, <2>11, <3>1, <4>3, <4>4, <4>5, <4>6, SatNumbers
    <3>2. CASE Pc.num = 1
      <4>1. \A i \in Sat_ID : Sat'[i] = Sat[i]
        BY <2>3, <2>7, <2>12, <3>2
      <4>2. Unlisted' = Unlisted
        BY <1>3, <4>1 DEF Unlisted
      <4>3. Cardinality(Gone') <= Cardinality(Unlisted) /\ Cardinality(Gone') \in Nat
        <5>1. Gone' \subseteq Unlisted'
          BY <2>12 DEF Gone, Unlisted
        <5> QED BY <4>2, <5>1, SatSets, Fewer
      <4>4. Cardinality(Unlisted) <= SatFaults
        BY <1>4, <2>12, SatCards, SatNumbers, ConstantFacts DEF SatInv, ListedBound
      <4>5. /\ Cardinality(Gone') <= Cardinality(Gone) + (IF o = 0 THEN 0 ELSE 1)
            /\ Cardinality(Gone) \in Nat
        <5>1. \A m \in Known : m # o => \A i \in Sats : Sat[i] = m => Sat'[i] = m
          BY <2>3 DEF o
        <5>2. Gone' \subseteq Gone \cup {o} /\ 0 \notin Gone'
          BY <1>3, <5>1 DEF Gone, Known
        <5>3. o = 0 => Gone' \subseteq Gone
          BY <5>2
        <5>4. Cardinality(Gone') <= Cardinality(Gone) + 1 /\ Cardinality(Gone) \in Nat
          BY <1>1, <5>2, SatSets, OneMore
        <5>5. o = 0 => Cardinality(Gone') <= Cardinality(Gone)
          BY <5>3, SatSets, Fewer
        <5> QED BY <5>4, <5>5
      <4> QED BY <1>4, <1>6, <2>11, <3>2, <4>2, <4>3, <4>4, <4>5, SatCards
    <3> QED BY <3>1, <3>2
  <2>14. Cardinality(Unlisted') <= Cardinality(Unlisted)
    BY <2>13, SatSets, Fewer
  <2>15. StoredBound'
    BY <1>3, <1>4, <1>6, <2>13, SatCards, SatNumbers, ConstantFacts DEF SatInv, StoredBound
  <2>16. ListedBound'
    <3>1. Cardinality(Sat_ID) \in Nat /\ Cardinality(Sat_ID)' = Cardinality(Sat_ID)
      BY <2>12, SatCards
    <3> QED BY <1>4, <1>6, <2>12, <2>13, <2>14, <3>1, SatCards, SatNumbers, ConstantFacts DEF SatInv, ListedBound
  <2> QED BY <2>4, <2>5, <2>9, <2>15, <2>16 DEF SatInv
<1> QED BY <1>7, <1>8

LEMMA SatCountSats ==
    ASSUME TypeInv, TypeInv', SatInv, SatCount
    PROVE  SatInv'
<1> PICK w \in BOOLEAN, ok \in BOOLEAN :
          Save(w, ok, count) /\ Sat_num' = (IF w THEN Sat_Total_num + 1 ELSE Sat_num)
  BY DEF SatCount
<1>1. /\ up = "on" /\ Pc.op = "count" /\ Sat_Total_num' = Sat_Total_num + 1
      /\ UNCHANGED <<Sat, Sat_ID, up, ackedSats>>
  BY DEF SatCount, At, Pc, clientVars
<1>2. /\ Sat_Total_num < SatMax /\ Pc'.op = "list" /\ Pc'.id = Pc.id
      /\ Pc'.n = Pc.n /\ Pc'.num = 1
  BY SatCountTypes
<1>3. Pc.num = 1
  BY <1>1, ConstantFacts DEF TypeInv, TasksOK, Typed, Pc
<1>4. count'.cmds = count.cmds /\ SatFaults' = SatFaults + (IF ok THEN 0 ELSE 1) /\ (ok => w)
  BY SaveFaults DEF TypeInv
<1>5. /\ Adding = 1 /\ Adding' = 0 /\ Listing = 0 /\ Listing' = 1
      /\ Reviving = 0 /\ Reviving' = 0 /\ Relisting = 0 /\ Relisting' = 0
  BY <1>1, <1>2, <1>3 DEF Adding, Listing, Reviving, Relisting
<1>6. OneHome' /\ Fresh' /\ CommandTrue'
  BY <1>1, <1>2, <1>3, <1>4 DEF SatInv, OneHome, Fresh, CommandTrue, SatOps
<1>7. Known' = Known /\ Gone' = Gone /\ Unlisted' = Unlisted /\ Stored' = Stored
  BY <1>1 DEF Known, Gone, Unlisted, Stored
<1>8. SatsToFind' = (IF w THEN Sat_Total_num + 1 ELSE SatsToFind)
  BY <1>2, SatNumbers, ConstantFacts DEF SatsToFind
<1>9. Sat_ID \subseteq Sats
  BY DEF TypeInv, ListsOK
<1>10. /\ Cardinality(Gone)' = Cardinality(Gone) /\ Cardinality(Unlisted)' = Cardinality(Unlisted)
       /\ Cardinality(Stored)' = Cardinality(Stored) /\ Cardinality(Sat_ID)' = Cardinality(Sat_ID)
  BY <1>1, <1>7
<1>11. StoredBound'
  BY <1>1, <1>4, <1>5, <1>8, <1>9, <1>10, SatCards, SatNumbers, ConstantFacts DEF SatInv, StoredBound, ListedBound
<1>12. ListedBound'
  BY <1>1, <1>4, <1>5, <1>7, <1>9, <1>10, SatCards, SatNumbers, ConstantFacts DEF SatInv, ListedBound
<1> QED BY <1>6, <1>11, <1>12 DEF SatInv

(* A satellite that is listed is found under its id. *)
LEMMA SatListedSats ==
    ASSUME TypeInv, TypeInv', SatInv, SatListed
    PROVE  SatInv'
<1> DEFINE id == Pc.id
           n == Pc.n
<1>1. /\ up = "on" /\ Pc.op = "list" /\ Sat_ID' = Sat_ID \cup {id}
      /\ ackedSats' = ackedSats \cup {n}
      /\ UNCHANGED <<Sat_num, Sat, Sat_Total_num, up, count>>
  BY DEF SatListed, At, Pc, eepromVars
<1>2. Pc' = Idle /\ Pc'.op = "idle"
  BY SatListedTypes, IdleTyped
<1>3. id \in Sats /\ n \in SatValues \ {0} /\ Sat[id] = n
  BY <1>1, ConstantFacts DEF TypeInv, TasksOK, Typed, SatOps, Pc, SatInv, CommandTrue
<1>4. \A i \in Sats : n = Sat[i] => i = id
  BY <1>1 DEF SatInv, OneHome, SatOps
<1>5. n <= SatMax + count.cmds
  BY <1>1 DEF SatInv, Fresh, SatOps
<1>6. Pc.num = 1 => id \notin Sat_ID
  BY <1>1 DEF SatInv, CommandTrue, SatOps
<1>8. /\ Adding = 0 /\ Adding' = 0 /\ Listing' = 0 /\ Listing = (IF Pc.num = 1 THEN 1 ELSE 0)
      /\ Reviving = 0 /\ Reviving' = 0 /\ Relisting' = 0
      /\ Relisting = (IF Pc.num # 1 /\ id \notin Sat_ID THEN 1 ELSE 0)
  BY <1>1, <1>2 DEF Adding, Listing, Reviving, Relisting
<1> HIDE DEF id, n
<1>10. OneHome'
  BY <1>1, <1>2 DEF SatInv, OneHome, SatOps
<1>11. Fresh'
  BY <1>1, <1>2, <1>5 DEF SatInv, Fresh, SatOps
<1>13. CommandTrue'
  BY <1>2 DEF CommandTrue, SatOps
<1>14. \A m \in Known' : m = n \/ m \in Known
  BY <1>1 DEF Known
<1>15. Gone' \subseteq Gone /\ Stored' = Stored /\ SatsToFind' = SatsToFind
  BY <1>1, <1>3, <1>14 DEF Gone, Stored, SatsToFind
<1>16. Unlisted' \subseteq Unlisted /\ n \notin Unlisted'
  BY <1>1, <1>3, <1>14 DEF Unlisted
<1>17. Sat_ID \subseteq Sats /\ Sat_ID \subseteq SatValues /\ id \in SatValues
  BY <1>3, SatsFinite DEF TypeInv, ListsOK
<1>18. /\ Cardinality(Sat_ID) \in Nat
       /\ Cardinality(Sat_ID') = Cardinality(Sat_ID) + (IF id \in Sat_ID THEN 0 ELSE 1)
  <2>1. id \notin Sat_ID => Cardinality(Sat_ID \cup {id}) = Cardinality(Sat_ID) + 1
    BY <1>17, OneMore
  <2>2. id \in Sat_ID => Sat_ID \cup {id} = Sat_ID
    OBVIOUS
  <2> QED BY <1>1, <1>17, <2>1, <2>2, SatCards
<1>19. Cardinality(Gone') <= Cardinality(Gone) /\ Cardinality(Unlisted') <= Cardinality(Unlisted)
  BY <1>15, <1>16, SatSets, Fewer
<1>21. StoredBound'
  <2>1. SatFaults' = SatFaults
    BY <1>1 DEF SatFaults
  <2> QED BY <1>8, <1>15, <1>19, <2>1, SatCards, SatNumbers, ConstantFacts DEF SatInv, StoredBound
<1>22. ListedBound'
  <2>1. SatFaults' = SatFaults
    BY <1>1 DEF SatFaults
  <2>2. Sat_ID' \subseteq Stored'
    BY <1>1, <1>3, <1>15 DEF SatInv, ListedBound, Stored
  <2>3. /\ Cardinality(Gone) + Cardinality(Stored) - Sat_Total_num + Reviving <= SatFaults + Adding
        /\ Cardinality(Unlisted) + Cardinality(Sat_ID) - Sat_Total_num + Listing + Relisting <= SatFaults
        /\ Sat_Total_num <= Cardinality(Sat_ID) + Listing
    BY <1>1 DEF SatInv, ListedBound
  <2>4. Cardinality(Gone') + Cardinality(Stored') - Sat_Total_num' + Reviving' <= SatFaults' + Adding'
    BY <1>1, <1>8, <1>15, <1>19, <2>1, <2>3, SatCards, SatNumbers, ConstantFacts
  <2>5. Cardinality(Unlisted') + Cardinality(Sat_ID') - Sat_Total_num' + Listing' + Relisting' <= SatFaults'
    BY <1>1, <1>6, <1>8, <1>18, <1>19, <2>1, <2>3, SatCards, SatNumbers, ConstantFacts
  <2>6. Sat_Total_num' <= Cardinality(Sat_ID') + Listing'
    BY <1>1, <1>6, <1>8, <1>18, <2>3, SatNumbers, ConstantFacts
  <2> QED BY <2>2, <2>4, <2>5, <2>6 DEF ListedBound
<1> QED BY <1>10, <1>11, <1>13, <1>21, <1>22 DEF SatInv

LEMMA DelSatSetSats ==
    ASSUME TypeInv, TypeInv', SatInv, NEW ids \in SUBSET Sats, DelSatSet(ids)
    PROVE  SatInv'
<1>1. Pc = Idle /\ Pc'.op = "del" /\ Pc'.todo = ids
  BY DelSatSetTypes
<1>2. /\ ackedSats' = ackedSats \ {Sat[i] : i \in ids}
      /\ UNCHANGED <<Sat_num, Sat, satVars, up>>
  BY DEF DelSatSet, eepromVars
<1>3. count'.cmds = count.cmds + 1 /\ SatFaults' = SatFaults /\ up = "on"
  <2>1. \E t : BeginCounting("pc", "delsat", t, 0)
    BY DEF DelSatSet, Begin
  <2> QED BY <2>1, BeginCounts, SatNumbers
<1>4. SatMax \in Nat /\ count.cmds \in Nat /\ SatFaults \in Nat
  BY ConstantFacts, SatNumbers
<1>5. /\ \A i \in Sats : Sat[i] \in Nat
      /\ \A n \in ackedSats : n \in Nat
  BY DEF TypeInv, StoresOK, ClientsOK, SatValues
<1>7. OneHome'
  BY <1>1, <1>2 DEF SatInv, OneHome, SatOps
<1>8. Fresh'
  BY <1>1, <1>2, <1>3, <1>4, <1>5 DEF SatInv, Fresh, SatOps
<1>10. CommandTrue'
  BY <1>1, <1>2 DEF CommandTrue, SatOps
<1>11. Known' \subseteq Known
  BY <1>2 DEF Known
<1>12. /\ Adding' >= Adding /\ Listing' = Listing /\ SatFaults <= SatFaults' /\ up # "sats"
       /\ SatFaults + Reviving' <= SatFaults' + Reviving
       /\ SatFaults + Relisting' <= SatFaults' + Relisting
  BY <1>1, <1>3, <1>4, IdleTyped DEF Adding, Listing, Reviving, Relisting
<1>13. StoredBound' /\ ListedBound'
  BY <1>2, <1>11, <1>12, SameBounds
<1> QED BY <1>7, <1>8, <1>10, <1>13 DEF SatInv

(* A satellite that is deleted is not known any more. *)
LEMMA DelSatSats ==
    ASSUME TypeInv, TypeInv', SatInv, NEW i \in Sats, DelSat(i)
    PROVE  SatInv'
<1>1. /\ up = "on" /\ Pc.op = "del" /\ i \in Pc.todo
      /\ UNCHANGED <<Sat_num, up, ackedSats>>
  BY DEF DelSat, At, Pc, clientVars
<1>2. Pc'.op = "del" /\ Pc'.todo = Pc.todo \ {i}
  BY DelSatTypes
<1>3. /\ Adding = 0 /\ Adding' = 0 /\ Listing = 0 /\ Listing' = 0
      /\ Reviving = 0 /\ Reviving' = 0 /\ Relisting = 0 /\ Relisting' = 0
  BY <1>1, <1>2 DEF Adding, Listing, Reviving, Relisting
<1>4. Sat[i] \notin ackedSats
  BY <1>1 DEF SatInv, CommandTrue
<1>5. Sat[i] \notin Known
  BY <1>4 DEF Known
<1>6. Known' = Known /\ SatsToFind' = SatsToFind
  BY <1>1 DEF Known, SatsToFind
<1>7. CASE i \notin Sat_ID /\ UNCHANGED <<satVars, Sat, count>>
  <2>1. UNCHANGED <<Sat_num, Sat, satVars, up, count, Sat_ID>>
    BY <1>1, <1>7 DEF satVars
  <2>2. OneHome' /\ Fresh' /\ CommandTrue'
    BY <1>1, <1>2, <2>1 DEF SatInv, OneHome, Fresh, CommandTrue, SatOps
  <2>3. /\ Adding' >= Adding /\ Listing' = Listing /\ SatFaults <= SatFaults' /\ up # "sats"
        /\ SatFaults + Reviving' <= SatFaults' + Reviving
        /\ SatFaults + Relisting' <= SatFaults' + Relisting
    BY <1>1, <1>3, <2>1, SatNumbers DEF SatFaults
  <2>4. StoredBound' /\ ListedBound'
    BY <1>6, <2>1, <2>3, SameBounds
  <2> QED BY <2>2, <2>4 DEF SatInv
<1>8. CASE /\ i \in Sat_ID
           /\ Sat_ID' = Sat_ID \ {i}
           /\ Sat_Total_num' = Less(Sat_Total_num)
           /\ \E w, ok \in BOOLEAN :
                 Save(w, ok, count) /\ Sat' = (IF w THEN [Sat EXCEPT ![i] = 0] ELSE Sat)
  <2> PICK w \in BOOLEAN, ok \in BOOLEAN :
           Save(w, ok, count) /\ Sat' = (IF w THEN [Sat EXCEPT ![i] = 0] ELSE Sat)
    BY <1>8
  <2>1. count'.cmds = count.cmds /\ SatFaults' = SatFaults + (IF ok THEN 0 ELSE 1) /\ (ok => w)
    BY SaveFaults DEF TypeInv
  <2>2. /\ \A j \in Sats : j # i => Sat'[j] = Sat[j]
        /\ Sat'[i] = (IF w THEN 0 ELSE Sat[i])
    BY DEF TypeInv, StoresOK
  <2>3. Sat_ID \subseteq Sats /\ Sat_ID \subseteq Stored
    BY <1>1 DEF TypeInv, ListsOK, SatInv, ListedBound
  <2>4. OneHome'
    <3>1. \A x, y \in Sats : Sat'[x] # 0 /\ Sat'[x] = Sat'[y] => x = y
      BY <2>2 DEF SatInv, OneHome
    <3> QED BY <1>1, <1>2, <3>1 DEF SatInv, OneHome, SatOps
  <2>5. Fresh'
    <3>1. 0 <= SatMax + count.cmds
      BY ConstantFacts, SatNumbers
    <3>2. \A x \in Sats : Sat'[x] <= SatMax + count.cmds
      BY <2>2, <3>1 DEF SatInv, Fresh
    <3> QED BY <1>1, <1>2, <2>1, <3>2 DEF SatInv, Fresh, SatOps
  <2>6. 0 \notin ackedSats
    BY DEF TypeInv, ClientsOK
  <2>8. CommandTrue'
    <3>1. Pc.todo \subseteq Sats
      BY <1>1, ConstantFacts DEF TypeInv, TasksOK, Typed, Pc
    <3>2. \A j \in Pc.todo : Sat'[j] \notin ackedSats
      BY <1>1, <2>2, <2>6, <3>1 DEF SatInv, CommandTrue
    <3> QED BY <1>1, <1>2, <3>2 DEF CommandTrue, SatOps
  <2>9. \A m \in Known, j \in Sats : Sat[j] = m => Sat'[j] = m /\ j # i
    BY <1>5, <2>2
  <2>10. Gone' \subseteq Gone
    BY <1>6, <2>9 DEF Gone
  <2>11. Unlisted' \subseteq Unlisted
    BY <1>6, <1>8, <2>3, <2>9 DEF Unlisted
  <2>12. Cardinality(Gone') <= Cardinality(Gone) /\ Cardinality(Unlisted') <= Cardinality(Unlisted)
    BY <2>10, <2>11, SatSets, Fewer
  <2>13. /\ Stored' = (IF w THEN Stored \ {i} ELSE Stored) /\ i \in Stored
         /\ Sat_ID' \subseteq Stored'
    BY <1>8, <2>2, <2>3 DEF Stored
  <2>14. Cardinality(Stored') = Cardinality(Stored) - (IF w THEN 1 ELSE 0)
    <3>1. IsFiniteSet(Stored)
      BY SatSets, SatsFinite
    <3>2. Cardinality(Stored \ {i}) = Cardinality(Stored) - 1
      BY <2>13, <3>1, FS_RemoveElement
    <3> QED BY <2>13, <3>2, SatCards
  <2>15. Cardinality(Sat_ID) \in Nat /\ Cardinality(Sat_ID') \in Nat /\ Cardinality(Sat_ID') = Cardinality(Sat_ID) - 1
    <3>1. IsFiniteSet(Sat_ID) /\ Sat_ID' \subseteq Sats
      BY <1>8, <2>3, IdsFinite
    <3>2. Cardinality(Sat_ID \ {i}) = Cardinality(Sat_ID) - 1
      BY <1>8, <3>1, FS_RemoveElement
    <3> QED BY <1>8, <2>3, <3>1, <3>2, SatCards
  <2>16. StoredBound'
    BY <1>3, <1>6, <2>1, <2>12, <2>14, SatCards, SatNumbers, ConstantFacts DEF SatInv, StoredBound
  <2>17. ListedBound'
    <3>1. /\ Cardinality(Gone) + Cardinality(Stored) - Sat_Total_num <= SatFaults
          /\ Cardinality(Unlisted) + Cardinality(Sat_ID) - Sat_Total_num <= SatFaults
          /\ Sat_Total_num <= Cardinality(Sat_ID)
      BY <1>1, <1>3, <2>15, SatCards, SatNumbers, ConstantFacts DEF SatInv, ListedBound
    <3>2. /\ Sat_Total_num' \in Nat /\ Sat_Total_num' >= Sat_Total_num - 1
          /\ Sat_Total_num' <= Cardinality(Sat_ID')
      BY <1>8, <2>15, <3>1, SatNumbers, ConstantFacts DEF Less
    <3>3. Cardinality(Gone') + Cardinality(Stored') - Sat_Total_num' <= SatFaults'
      BY <2>1, <2>12, <2>14, <3>1, <3>2, SatCards, SatNumbers, ConstantFacts
    <3>4. Cardinality(Unlisted') + Cardinality(Sat_ID') - Sat_Total_num' <= SatFaults'
      BY <2>1, <2>12, <2>15, <3>1, <3>2, SatCards, SatNumbers, ConstantFacts
    <3> QED BY <1>3, <2>13, <2>15, <3>2, <3>3, <3>4, SatCards, SatNumbers DEF ListedBound
  <2> QED BY <2>4, <2>5, <2>8, <2>16, <2>17 DEF SatInv
<1> QED BY <1>7, <1>8 DEF DelSat

LEMMA DelSatCountSats ==
    ASSUME TypeInv, TypeInv', SatInv, DelSatCount
    PROVE  SatInv'
<1> PICK w \in BOOLEAN, ok \in BOOLEAN :
        Save(w, ok, count) /\ Sat_num' = (IF w THEN Sat_Total_num ELSE Sat_num)
  BY DEF DelSatCount
<1>1. /\ up = "on" /\ Pc.op = "del"
      /\ UNCHANGED <<Sat, Sat_Total_num, Sat_ID, up, ackedSats>>
  BY DEF DelSatCount, At, Pc, satVars, clientVars
<1>2. Pc' = Idle /\ Pc'.op = "idle"
  BY DelSatCountTypes, IdleTyped
<1>3. count'.cmds = count.cmds /\ SatFaults' = SatFaults + (IF ok THEN 0 ELSE 1) /\ (ok => w)
  BY SaveFaults DEF TypeInv
<1>4. /\ Adding = 0 /\ Adding' = 0 /\ Listing = 0 /\ Listing' = 0
      /\ Reviving = 0 /\ Reviving' = 0 /\ Relisting = 0 /\ Relisting' = 0
  BY <1>1, <1>2 DEF Adding, Listing, Reviving, Relisting
<1>5. OneHome' /\ Fresh' /\ CommandTrue'
  BY <1>1, <1>2, <1>3 DEF SatInv, OneHome, Fresh, CommandTrue, SatOps
<1>6. Known' = Known /\ Gone' = Gone /\ Unlisted' = Unlisted /\ Stored' = Stored
  BY <1>1 DEF Known, Gone, Unlisted, Stored
<1>7. SatsToFind' = (IF w THEN Sat_Total_num ELSE SatsToFind)
  BY SatNumbers, ConstantFacts DEF SatsToFind
<1>8. Sat_ID \subseteq Sats
  BY DEF TypeInv, ListsOK
<1>9. /\ Cardinality(Gone)' = Cardinality(Gone) /\ Cardinality(Unlisted)' = Cardinality(Unlisted)
      /\ Cardinality(Stored)' = Cardinality(Stored) /\ Cardinality(Sat_ID)' = Cardinality(Sat_ID)
  BY <1>1, <1>6
<1>10. StoredBound'
  BY <1>1, <1>3, <1>4, <1>7, <1>8, <1>9, SatCards, SatNumbers, ConstantFacts DEF SatInv, StoredBound, ListedBound
<1>11. ListedBound'
  BY <1>1, <1>3, <1>4, <1>6, <1>8, <1>9, SatCards, SatNumbers, ConstantFacts DEF SatInv, ListedBound
<1> QED BY <1>5, <1>10, <1>11 DEF SatInv

(* At the start the satellites stored are those acknowledged. *)
LEMMA InitSatInv == Init => SatInv
<1> SUFFICES ASSUME Init PROVE SatInv
  OBVIOUS
<1> PICK S \in IF "sat" \in kinds THEN SUBSET Sats ELSE {{}} :
        /\ Sat = [i \in Sats |-> IF i \in S THEN i ELSE 0]
        /\ Sat_num \in {Cardinality(S)} \cup (IF S = {} THEN {SatMax + 1} ELSE {})
        /\ ackedSats = S
  BY DEF Init
<1>1. S \subseteq Sats /\ Sats \subseteq Nat \ {0} /\ up = "sats" /\ count.cmds = 0 /\ SatFaults = 0
      /\ \A i \in Sats : i <= SatMax
  BY ConstantFacts DEF Init, SatFaults, Sats
<1>2. \A i \in Sats : Sat[i] = IF i \in S THEN i ELSE 0
  OBVIOUS
<1>3. Pc.op = "idle" /\ Adding = 0 /\ Reviving = 0
  BY IdleTyped, ConstantFacts DEF Init, Pc, Adding, Reviving
<1>4. OneHome /\ CommandTrue /\ ListedBound
  BY <1>1, <1>2, <1>3 DEF OneHome, CommandTrue, ListedBound, SatOps
<1>5. Fresh
  BY <1>1, <1>2, <1>3, ConstantFacts DEF Fresh, SatOps
<1>6. Stored = S /\ Gone = {}
  BY <1>1, <1>2 DEF Stored, Gone, Known
<1>7. Cardinality(S) \in 0..SatMax /\ Cardinality(Gone) = 0
  BY <1>1, <1>6, IdsFinite, FS_EmptySet
<1>8. SatsToFind = Cardinality(S)
  <2>1. CASE Sat_num = Cardinality(S)
    BY <1>7, <2>1, ConstantFacts DEF SatsToFind
  <2>2. CASE S = {} /\ Sat_num = SatMax + 1
    BY <2>2, ConstantFacts, FS_EmptySet DEF SatsToFind
  <2> QED BY <2>1, <2>2
<1>9. StoredBound
  BY <1>1, <1>3, <1>6, <1>7, <1>8, ConstantFacts DEF StoredBound
<1> QED BY <1>4, <1>5, <1>9 DEF SatInv

(* A step that still knows the number keeps what is known of satellites.   *)
LEMMA NextSats ==
    ASSUME TypeInv, SightedInv, [Next]_paramVars
    PROVE  SightedInv'
<1> SUFFICES ASSUME count'.blind = 0 PROVE SatInv'
  BY DEF SightedInv
<1>0. TypeInv' /\ SatInv
  <2>1. count.blind <= count'.blind /\ count.blind \in Nat
    BY CountsStay DEF TypeInv, CountsOK, CountState
  <2> QED BY <2>1, NextTypes DEF SightedInv
<1>1. CASE UNCHANGED paramVars
  <2>1. RecordStep
    BY <1>1, SatNumbers DEF paramVars, eepromVars, satVars, clientVars, RecordStep, SatFaults, Pc
  <2> QED BY <1>0, <2>1, RecordStepSats
<1>2. CASE Crash \/ InitSats
  BY <1>0, <1>2, CrashSats, InitSatsSats
<1>3. CASE InitSatsBlind
  BY <1>3, InitSatsBlindTypes
<1>4. CASE InitRecords
  BY <1>0, <1>4, InitRecordsSats, RecordStepSats
<1>5. CASE SatAdd \/ SatSave \/ SatCount \/ SatListed \/ DelSatCount
  BY <1>0, <1>5, SatAddSats, SatSaveSats, SatCountSats, SatListedSats, DelSatCountSats
<1>6. CASE \E i \in Sats : SatModify(i) \/ DelSat(i)
  BY <1>0, <1>6, SatModifySats, DelSatSats
<1>7. CASE \E ids \in SUBSET Sats \ {{}} : DelSatSet(ids)
  BY <1>0, <1>7, DelSatSetSats
<1>8. CASE RecordCommand
  BY <1>0, <1>8, RecordCommandTypes, RecordStepSats
<1> QED BY <1>1, <1>2, <1>3, <1>4, <1>5, <1>6, <1>7, <1>8, Zenon DEF Next, Step, RecordCommand

(* What was acknowledged is stored and listed, up to the faults so far, as *)
(* long as the number of satellites has been readable at every start.      *)
THEOREM SatsInductive == Spec => [](TypeInv /\ SightedInv)
<1>1. Init => TypeInv /\ SightedInv
  BY InitTypes, InitSatInv DEF SightedInv
<1>2. TypeInv /\ SightedInv /\ [Next]_paramVars => (TypeInv /\ SightedInv)'
  BY NextTypes, NextSats
<1> QED BY <1>1, <1>2, PTL DEF Spec

(* The query leaves out at most one acknowledged satellite for each        *)
(* command that was cut off, each save that failed, each record that could *)
(* not be read at a start and each change that came for a satellite not    *)
(* listed: the search of APP_PARAM_Init that stops at a stored number does *)
(* no more damage than that, however many commands and starts follow.      *)
THEOREM SatellitesKept == Spec => []SatsKept
<1>1. TypeInv /\ SightedInv => SatsKept
  <2> SUFFICES ASSUME TypeInv, SatInv, up = "on"
               PROVE  Cardinality(LostSats) <= SatFaults
    BY DEF SatsKept, SightedInv
  <2> DEFINE k == IF Sat_Total_num = 0 THEN 1 ELSE Sat_Total_num
             rest == Sat_ID \ Answer
  <2>1. Sat_ID \subseteq Sats /\ Sat_ID \subseteq Stored /\ Sat \in [Sats -> SatValues]
    BY DEF TypeInv, ListsOK, StoresOK, SatInv, ListedBound
  <2>2. IsFiniteSet(Sat_ID) /\ Cardinality(Sat_ID) \in Nat /\ Sat_ID \subseteq Nat
    <3>1. IsFiniteSet(Sat_ID) /\ Cardinality(Sat_ID) \in 0..SatMax
      BY <2>1, IdsFinite
    <3> QED BY <2>1, <3>1, ConstantFacts
  <2>3. k \in Nat /\ Answer = Lowest(Sat_ID, k)
    <3>1. Sat_ID \cap Stored = Sat_ID
      BY <2>1
    <3> QED BY <3>1, SatNumbers DEF Answer
  <2>4. Cardinality(rest) <= (IF Cardinality(Sat_ID) > k THEN Cardinality(Sat_ID) - k ELSE 0)
    <3> HIDE DEF k
    <3> QED BY <2>2, <2>3, LowestRest
  <2>5. LostSats \subseteq Unlisted \cup {Sat[i] : i \in rest}
    <3>1. ackedSats \subseteq Known
      BY DEF TypeInv, ClientsOK, Known
    <3> QED BY <3>1 DEF LostSats, Unlisted
  <2>6. /\ Cardinality(LostSats) <= Cardinality(Unlisted) + Cardinality(rest)
        /\ Cardinality(LostSats) \in Nat /\ Cardinality(rest) \in Nat
    <3>1. rest \subseteq Sats
      BY <2>1
    <3> HIDE DEF rest
    <3> QED BY <2>1, <2>5, <3>1, SatSets, HomesCount DEF rest
  <2> QED BY <2>2, <2>4, <2>6, SatCards, SatNumbers, ConstantFacts DEF SatInv, ListedBound
<1> QED BY <1>1, SatsInductive, PTL
-----------------------------------------------------------------------------
(* The number of satellites and the list.                                  *)

LEMMA CountedNumbers ==
    ASSUME TypeInv, TypeInv'
    PROVE  /\ Cardinality(Sat_ID) \in Nat /\ Cardinality(Sat_ID') \in Nat
           /\ Sat_Total_num \in Nat /\ Sat_Total_num' \in Nat
           /\ count.stale \in Nat /\ count'.stale \in Nat
           /\ Listing \in Nat /\ Listing' \in Nat /\ Relisting \in Nat /\ Relisting' \in Nat
           /\ "pc" \in Senders
<1>1. Listing \in Nat /\ Listing' \in Nat /\ Relisting \in Nat /\ Relisting' \in Nat
  BY DEF Listing, Relisting
<1>2. Cardinality(Sat_ID) \in Nat /\ Cardinality(Sat_ID') \in Nat
  BY SatCards DEF TypeInv, ListsOK
<1> QED BY <1>1, <1>2, ConstantFacts DEF TypeInv, ListsOK, CountsOK, CountState

(* A step that leaves list and number alone. *)
LEMMA CountedSame ==
    ASSUME TypeInv, TypeInv', CountedInv, UNCHANGED <<Sat_Total_num, Sat_ID>>,
           up' # "sats" => up # "sats", Listing' = Listing,
           count.stale + Relisting' <= count'.stale + Relisting,
           Pc'.op \in SatOps /\ Pc'.num = 1 => Pc'.id \notin Sat_ID
    PROVE  CountedInv'
<1>1. Cardinality(Sat_ID)' = Cardinality(Sat_ID)
  OBVIOUS
<1> QED BY <1>1, CountedNumbers DEF CountedInv

(* The commands that begin. *)
LEMMA BegunCounted ==
    ASSUME TypeInv, TypeInv', CountedInv, count.stale <= count'.stale,
           \/ SatAdd
           \/ \E id \in Sats : SatModify(id)
           \/ \E ids \in SUBSET Sats : DelSatSet(ids)
    PROVE  CountedInv'
<1>1. CASE SatAdd
  <2>1. Pc = Idle /\ Pc'.op = "save" /\ Pc'.id = NewSatId /\ Pc'.num = 1
    BY <1>1, SatAddTypes
  <2>2. NewSatId \notin Sat_ID
    <3>1. Sats \ Sat_ID \subseteq Nat /\ Sats \ Sat_ID # {}
      BY <1>1, ConstantFacts DEF SatAdd
    <3> QED BY <3>1, MinIn DEF NewSatId
  <2>3. Listing = 0 /\ Listing' = 0 /\ Relisting = 0 /\ Relisting' = 0
    BY <2>1, IdleTyped DEF Listing, Relisting
  <2>4. UNCHANGED <<Sat_Total_num, Sat_ID, up>>
    BY <1>1 DEF SatAdd, satVars
  <2> QED BY <2>1, <2>2, <2>3, <2>4, CountedNumbers, CountedSame
<1>2. ASSUME NEW id \in Sats, SatModify(id)
      PROVE  CountedInv'
  <2>1. Pc = Idle /\ Pc'.op = "save" /\ Pc'.id = id /\ Pc'.num = 0
    BY <1>2, SatModifyTypes
  <2>2. UNCHANGED <<Sat_Total_num, Sat_ID, up>>
    BY <1>2 DEF SatModify, satVars
  <2>3. count'.stale = count.stale + (IF id \in Sat_ID THEN 0 ELSE 1)
    <3> DEFINE o == IF \E r \in Senders : task[r] # Idle THEN 1 ELSE 0
               stale == IF id \in Sat_ID THEN 0 ELSE 1
    <3>1. count' = [count EXCEPT !.cmds = count.cmds + 1, !.overlaps = count.overlaps + o,
                                 !.stale = count.stale + stale]
      BY <1>2 DEF SatModify, BeginCounting
    <3> HIDE DEF o, stale
    <3>2. count'.stale = count.stale + stale
      BY <3>1, Zenon DEF TypeInv, CountsOK, CountState
    <3> QED BY <3>2 DEF stale
  <2>4. /\ Listing = 0 /\ Listing' = 0 /\ Relisting = 0
        /\ Relisting' = (IF id \in Sat_ID THEN 0 ELSE 1)
    BY <2>1, <2>2, IdleTyped DEF Listing, Relisting
  <2> QED BY <2>1, <2>2, <2>3, <2>4, CountedNumbers, CountedSame
<1>3. ASSUME NEW ids \in SUBSET Sats, DelSatSet(ids)
      PROVE  CountedInv'
  <2>1. Pc = Idle /\ Pc'.op = "del"
    BY <1>3, DelSatSetTypes
  <2>2. Listing = 0 /\ Listing' = 0 /\ Relisting = 0 /\ Relisting' = 0
    BY <2>1, IdleTyped DEF Listing, Relisting
  <2>3. UNCHANGED <<Sat_Total_num, Sat_ID, up>>
    BY <1>3 DEF DelSatSet, satVars
  <2> QED BY <2>1, <2>2, <2>3, CountedNumbers, CountedSame DEF SatOps
<1> QED BY <1>1, <1>2, <1>3

(* A satellite that is added is counted and then listed; one that is       *)
(* changed is listed.                                                      *)
LEMMA SavedCounted ==
    ASSUME TypeInv, TypeInv', CountedInv, count.stale <= count'.stale,
           SatSave \/ SatCount \/ SatListed
    PROVE  CountedInv'
<1>1. CASE SatSave
  <2> PICK w \in BOOLEAN, ok \in BOOLEAN :
          /\ up = "on" /\ Pc.op = "save" /\ UNCHANGED <<Sat_Total_num, Sat_ID, up>>
          /\ ok => /\ Pc'.op = (IF Pc.num = 1 THEN "count" ELSE "list")
                   /\ Pc'.id = Pc.id /\ Pc'.num = Pc.num
          /\ ~ok => Pc' = Idle
    BY <1>1, SatSaveEffect
  <2>1. Listing = 0 /\ Listing' = 0 /\ Relisting' <= Relisting
    BY IdleTyped DEF Listing, Relisting
  <2>2. Pc'.op \in SatOps /\ Pc'.num = 1 => Pc'.id \notin Sat_ID
    BY IdleTyped DEF CountedInv, SatOps
  <2> QED BY <2>1, <2>2, CountedNumbers, CountedSame
<1>2. CASE SatCount
  <2>1. /\ up = "on" /\ up' = up /\ Pc.op = "count" /\ Sat_Total_num' = Sat_Total_num + 1
        /\ Sat_ID' = Sat_ID
    BY <1>2 DEF SatCount, At, Pc
  <2>2. Pc'.op = "list" /\ Pc'.id = Pc.id /\ Pc'.num = 1
    BY <1>2, SatCountTypes
  <2>3. Pc.num = 1
    BY <2>1, ConstantFacts DEF TypeInv, TasksOK, Typed, Pc
  <2>4. Listing = 0 /\ Listing' = 1 /\ Relisting = 0 /\ Relisting' = 0
    BY <2>1, <2>2, <2>3 DEF Listing, Relisting
  <2>5. Cardinality(Sat_ID') = Cardinality(Sat_ID) /\ Pc'.id \notin Sat_ID'
    BY <2>1, <2>2, <2>3 DEF CountedInv, SatOps
  <2> QED BY <2>1, <2>4, <2>5, CountedNumbers DEF CountedInv
<1>3. CASE SatListed
  <2>1. /\ up = "on" /\ up' = up /\ Pc.op = "list" /\ Sat_ID' = Sat_ID \cup {Pc.id}
        /\ Sat_Total_num' = Sat_Total_num
    BY <1>3 DEF SatListed, At, Pc
  <2>2. Pc' = Idle /\ Pc'.op = "idle"
    BY <1>3, SatListedTypes, IdleTyped
  <2>3. Sat_ID \subseteq SatValues /\ Pc.id \in SatValues
    <3>1. Pc.id \in Sats
      BY <2>1, ConstantFacts DEF TypeInv, TasksOK, Typed, SatOps, Pc
    <3> QED BY <3>1, SatsFinite DEF TypeInv, ListsOK
  <2>4. Cardinality(Sat_ID') = Cardinality(Sat_ID) + (IF Pc.id \in Sat_ID THEN 0 ELSE 1)
    <3>1. Pc.id \notin Sat_ID => Cardinality(Sat_ID \cup {Pc.id}) = Cardinality(Sat_ID) + 1
      BY <2>3, OneMore
    <3>2. Pc.id \in Sat_ID => Sat_ID \cup {Pc.id} = Sat_ID
      OBVIOUS
    <3>3. Cardinality(Sat_ID) + 0 = Cardinality(Sat_ID)
      BY CountedNumbers
    <3> QED BY <2>1, <3>1, <3>2, <3>3
  <2>5. /\ Listing = (IF Pc.num = 1 THEN 1 ELSE 0) /\ Listing' = 0 /\ Relisting' = 0
        /\ Relisting = (IF Pc.num # 1 /\ Pc.id \notin Sat_ID THEN 1 ELSE 0)
    BY <2>1, <2>2 DEF Listing, Relisting
  <2>6. Pc.num = 1 => Pc.id \notin Sat_ID
    BY <2>1 DEF CountedInv, SatOps
  <2> QED BY <2>1, <2>2, <2>4, <2>5, <2>6, CountedNumbers DEF CountedInv, SatOps
<1> QED BY <1>1, <1>2, <1>3

(* A deletion takes one from both, unless the number is 0 already. *)
LEMMA DelSatCounted ==
    ASSUME TypeInv, TypeInv', CountedInv, count.stale <= count'.stale, NEW i \in Sats, DelSat(i)
    PROVE  CountedInv'
<1>1. up = "on" /\ up' = up /\ Pc.op = "del"
  BY DEF DelSat, At, Pc
<1>2. Pc'.op = "del"
  BY DelSatTypes
<1>3. Listing = 0 /\ Listing' = 0 /\ Relisting = 0 /\ Relisting' = 0
  BY <1>1, <1>2 DEF Listing, Relisting
<1>4. CASE UNCHANGED satVars
  BY <1>1, <1>2, <1>3, <1>4, CountedNumbers, CountedSame DEF satVars, SatOps
<1>5. CASE i \in Sat_ID /\ Sat_ID' = Sat_ID \ {i} /\ Sat_Total_num' = Less(Sat_Total_num)
  <2>1. IsFiniteSet(Sat_ID)
    BY IdsFinite DEF TypeInv, ListsOK
  <2>2. Cardinality(Sat_ID') = Cardinality(Sat_ID) - 1
    BY <1>5, <2>1, FS_RemoveElement
  <2> QED BY <1>1, <1>2, <1>3, <1>5, <2>2, CountedNumbers DEF CountedInv, SatOps, Less
<1> QED BY <1>4, <1>5 DEF DelSat

LEMMA DelSatCountCounted ==
    ASSUME TypeInv, TypeInv', CountedInv, count.stale <= count'.stale, DelSatCount
    PROVE  CountedInv'
<1>1. Pc.op = "del" /\ UNCHANGED <<Sat_Total_num, Sat_ID, up>>
  BY DEF DelSatCount, At, Pc, satVars
<1>2. Pc' = Idle /\ Pc'.op = "idle"
  BY DelSatCountTypes, IdleTyped
<1>3. Listing = 0 /\ Listing' = 0 /\ Relisting = 0 /\ Relisting' = 0
  BY <1>1, <1>2 DEF Listing, Relisting
<1> QED BY <1>1, <1>2, <1>3, CountedNumbers, CountedSame DEF SatOps

(* A start counts what it finds, and that is nothing if it cannot read the *)
(* number.                                                                 *)
LEMMA StartCounted ==
    ASSUME TypeInv, TypeInv', CountedInv, Crash \/ InitSats \/ InitSatsBlind
    PROVE  CountedInv'
<1>1. Pc' = Idle /\ Pc'.op = "idle"
  <2>1. CASE Crash
    BY <2>1, IdleTyped, ConstantFacts DEF Crash, Pc
  <2>2. CASE InitSats \/ InitSatsBlind
    <3>1. up = "sats" /\ task' = task
      BY <2>2 DEF InitSats, InitSatsBlind
    <3> QED BY <3>1, IdleTyped, ConstantFacts DEF TypeInv, Pc
  <2> QED BY <2>1, <2>2
<1>2. Listing' = 0 /\ Relisting' = 0
  BY <1>1 DEF Listing, Relisting
<1>3. up' = "sats" \/ Cardinality(Sat_ID') = Sat_Total_num'
  <2>1. CASE Crash
    BY <2>1 DEF Crash
  <2>2. CASE InitSats
    BY <2>2 DEF InitSats, RepairedNum
  <2>3. CASE InitSatsBlind
    BY <2>3, FS_EmptySet DEF InitSatsBlind
  <2> QED BY <2>1, <2>2, <2>3
<1> QED BY <1>1, <1>2, <1>3, CountedNumbers DEF CountedInv, SatOps

LEMMA RecordStepCounted ==
    ASSUME TypeInv, TypeInv', CountedInv, count.stale <= count'.stale, RecordStep
    PROVE  CountedInv'
<1>1. UNCHANGED <<Sat_Total_num, Sat_ID>> /\ (up' # "sats" => up # "sats")
  BY DEF RecordStep
<1>2. /\ Listing' = Listing /\ Relisting' = Relisting
      /\ Pc'.op \in SatOps => Pc' = Pc
  BY <1>1 DEF RecordStep, Listing, Relisting, SatOps
<1>3. Pc'.op \in SatOps /\ Pc'.num = 1 => Pc'.id \notin Sat_ID
  BY <1>2 DEF CountedInv
<1> QED BY <1>1, <1>2, <1>3, CountedNumbers, CountedSame

LEMMA NextCounted ==
    ASSUME TypeInv, CountedInv, [Next]_paramVars
    PROVE  CountedInv'
<1>0. TypeInv' /\ count.stale <= count'.stale
  BY NextTypes, CountsStay
<1>1. CASE UNCHANGED paramVars
  <2>1. RecordStep
    BY <1>1, SatNumbers DEF paramVars, eepromVars, satVars, clientVars, RecordStep, SatFaults, Pc
  <2> QED BY <1>0, <2>1, RecordStepCounted
<1>2. CASE Crash \/ InitSats \/ InitSatsBlind
  BY <1>0, <1>2, StartCounted
<1>3. CASE InitRecords
  BY <1>0, <1>3, InitRecordsSats, RecordStepCounted
<1>4. CASE SatSave \/ SatCount \/ SatListed
  BY <1>0, <1>4, SavedCounted
<1>5. CASE SatAdd \/ (\E i \in Sats : SatModify(i)) \/ \E ids \in SUBSET Sats \ {{}} : DelSatSet(ids)
  BY <1>0, <1>5, BegunCounted
<1>6. CASE DelSatCount \/ \E i \in Sats : DelSat(i)
  BY <1>0, <1>6, DelSatCountCounted, DelSatCounted
<1>7. CASE RecordCommand
  BY <1>0, <1>7, RecordCommandTypes, RecordStepCounted
<1> QED BY <1>1, <1>2, <1>3, <1>4, <1>5, <1>6, <1>7, Zenon DEF Next, Step, RecordCommand

(* The number in RAM and the list of satellites differ by what the changes *)
(* of satellites not listed have added to the list.                        *)
THEOREM CountsInductive == Spec => [](TypeInv /\ CountedInv)
<1>1. Init => TypeInv /\ CountedInv
  <2> SUFFICES ASSUME Init PROVE CountedInv
    BY InitTypes
  <2>1. up = "sats" /\ Pc.op = "idle"
    BY IdleTyped, ConstantFacts DEF Init, Pc
  <2> QED BY <2>1 DEF CountedInv, SatOps
<1>2. TypeInv /\ CountedInv /\ [Next]_paramVars => (TypeInv /\ CountedInv)'
  BY NextTypes, NextCounted
<1> QED BY <1>1, <1>2, PTL DEF Spec
=============================================================================
