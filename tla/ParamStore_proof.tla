-------------------------- MODULE ParamStore_proof --------------------------
(***************************************************************************)
(* Type correctness of the parameter store, for any numbers of satellites  *)
(* and records, any commands, power failures, failed saves and unreadable  *)
(* records, and the lemmas about its operators and its steps that the      *)
(* proofs about the satellites and about the antenna records rest on.      *)
(***************************************************************************)
EXTENDS ParamStore, FiniteSetTheorems, TLAPS

(* The places of a command; those of the satellites are run by the PC. *)
SatOps == {"save", "count", "list"}

AddOps == {"head", "tail", "compare", "number"}

ClearOps == {"clear", "clearall"}

Ops == {"idle", "del", "unlist", "wipe"} \cup SatOps \cup AddOps \cup ClearOps

MaxId == IF SatMax > RecMax THEN SatMax ELSE RecMax

SatValues == 0 .. SatMax + MaxCmds

RecordValues == 0 .. RecMax + MaxCmds

TaskState == [op : Ops, id : 0..MaxId, n : Nat, num : Nat, todo : SUBSET Nat]

CountState == [cmds : Nat, restarts : Nat, torn : Nat, fails : Nat, misreads : Nat,
               blind : Nat, stale : Nat, overlaps : Nat]

(* The locals that a command of sender s may have. *)
Typed(s, t) ==
    /\ t \in TaskState
    /\ t.op \in SatOps => s = "pc" /\ t.id \in Sats /\ t.n \in SatValues \ {0}
    /\ t.op = "count" => t.num = 1
    /\ t.op = "del" => s = "pc" /\ t.todo \subseteq Sats
    /\ t.op \in AddOps => t.id \in Records /\ t.n \in RecordValues \ {0} /\ t.num \in 0..RecMax
    /\ t.op \in {"unlist", "wipe"} => t.todo \subseteq Records
    /\ t.op = "wipe" => t.id \in Records
    /\ t.op \in ClearOps => s = "pc" /\ t.todo \subseteq Records /\ t.todo # {}

TasksOK ==
    /\ task \in [Senders -> TaskState]
    /\ \A s \in Senders : Typed(s, task[s])

StoresOK ==
    /\ Sat_num \in 0 .. SatMax + 1
    /\ Sat \in [Sats -> SatValues]
    /\ record_num \in 0 .. RecMax + 1
    /\ record \in [Records -> RecordValues \X RecordValues]

ListsOK ==
    /\ Sat_Total_num \in 0..SatMax
    /\ Sat_ID \subseteq Sats
    /\ record_Total_num \in 0..RecMax
    /\ record_ID \subseteq Records

ClientsOK ==
    /\ ackedSats \subseteq SatValues \ {0}
    /\ ackedRecords \subseteq RecordValues \ {0}

CountsOK == count \in CountState /\ count.cmds <= MaxCmds

Pc == task["pc"]

(* There is room for a satellite that is being added. *)
RoomLeft == Pc.op \in {"save", "count"} /\ Pc.num = 1 => Sat_Total_num < SatMax

(* Inductive type correctness. *)
TypeInv ==
    /\ StoresOK
    /\ ListsOK
    /\ up \in {"sats", "records", "on"}
    /\ ClientsOK
    /\ CountsOK
    /\ TasksOK
    /\ RoomLeft
    /\ up # "on" => \A s \in Senders : task[s] = Idle
-----------------------------------------------------------------------------
(* The operators.                                                          *)

(* A set of natural numbers that is not empty has a lowest member. *)
LEMMA MinIn ==
    ASSUME NEW S, S \subseteq Nat, S # {}
    PROVE  Min(S) \in S
<1> DEFINE R == {ss \in Nat \X Nat : ss[1] < ss[2]}
<1>1. IsWellFoundedOn(R, Nat)
  BY NatLessThanWellFounded, Zenon DEF OpToRel
<1> HIDE DEF R
<1>2. PICK x \in S : \A y \in S : ~(<<y, x>> \in R)
  BY <1>1, WFMin
<1>3. \A y \in S : ~(y < x)
  BY <1>2 DEF R
<1>4. \A y \in S : x <= y
  BY <1>3
<1> QED BY <1>4 DEF Min

(* A part of a finite set is counted with what is left of it. *)
LEMMA CardSplit ==
    ASSUME NEW S, IsFiniteSet(S), NEW T, T \subseteq S
    PROVE  /\ IsFiniteSet(T) /\ IsFiniteSet(S \ T)
           /\ Cardinality(S) \in Nat /\ Cardinality(T) \in Nat /\ Cardinality(S \ T) \in Nat
           /\ Cardinality(S) = Cardinality(T) + Cardinality(S \ T)
<1>1. IsFiniteSet(T) /\ IsFiniteSet(S \ T)
  BY FS_Subset
<1>2. S \cap T = T
  OBVIOUS
<1>3. Cardinality(S \ T) = Cardinality(S) - Cardinality(T)
  BY <1>2, FS_Difference
<1>4. Cardinality(S) \in Nat /\ Cardinality(T) \in Nat /\ Cardinality(S \ T) \in Nat
  BY <1>1, FS_CardinalityType
<1> QED BY <1>1, <1>3, <1>4

(* Lowest(S, k) leaves out no more members of S than are above k. *)
LEMMA LowestRest ==
    ASSUME NEW S, IsFiniteSet(S), S \subseteq Nat, NEW k \in Nat
    PROVE  /\ Lowest(S, k) \subseteq S
           /\ Cardinality(S \ Lowest(S, k)) <= (IF Cardinality(S) > k THEN Cardinality(S) - k ELSE 0)
<1> DEFINE Below(i) == {j \in S : j <= i}
           n == Cardinality(S)
           T == S \ Lowest(S, k)
           U == (k + 1)..n
           rank == [i \in T |-> Cardinality(Below(i))]
<1>1. n \in Nat
  BY FS_CardinalityType
<1>2. \A i \in S : Below(i) \subseteq S /\ IsFiniteSet(Below(i))
  <2> TAKE i \in S
  <2>1. Below(i) \subseteq S
    OBVIOUS
  <2> QED BY <2>1, FS_Subset
<1>3. \A i \in S : Cardinality(Below(i)) \in 0..n
  <2> TAKE i \in S
  <2>1. Cardinality(Below(i)) \in Nat
    BY <1>2, FS_CardinalityType
  <2>2. Cardinality(Below(i)) <= n
    BY <1>2, FS_Subset
  <2> QED BY <1>1, <2>1, <2>2
<1>4. \A i, j \in S : i < j => Cardinality(Below(i)) # Cardinality(Below(j))
  <2> SUFFICES ASSUME NEW i \in S, NEW j \in S, i < j
               PROVE  Cardinality(Below(i)) # Cardinality(Below(j))
    OBVIOUS
  <2>1. i \in Nat /\ j \in Nat
    OBVIOUS
  <2>2. Below(i) \subseteq Below(j) /\ j \in Below(j) /\ j \notin Below(i)
    <3>1. \A x \in S : x <= i => x <= j
      BY <2>1
    <3>2. j <= j /\ ~(j <= i)
      BY <2>1
    <3> QED BY <3>1, <3>2
  <2>3. Below(i) # Below(j)
    BY <2>2
  <2>4. IsFiniteSet(Below(j))
    BY <1>2
  <2> HIDE DEF Below
  <2> QED BY <2>2, <2>3, <2>4, FS_Subset
<1>5. \A i \in T : Cardinality(Below(i)) > k
  BY <1>3 DEF Lowest
<1> HIDE DEF Below, T
<1>6. T \subseteq S
  BY DEF T
<1>7. rank \in [T -> U]
  <2>1. \A i \in T : Cardinality(Below(i)) \in U
    BY <1>1, <1>3, <1>5, <1>6
  <2> QED BY <2>1
<1>8. \A i, j \in T : rank[i] = rank[j] => i = j
  <2> SUFFICES ASSUME NEW i \in T, NEW j \in T, rank[i] = rank[j]
               PROVE  i = j
    OBVIOUS
  <2>1. i \in Nat /\ j \in Nat /\ i \in S /\ j \in S
    BY <1>6
  <2>2. Cardinality(Below(i)) = Cardinality(Below(j))
    OBVIOUS
  <2> QED BY <1>4, <2>1, <2>2
<1>9. rank \in Injection(T, U)
  <2> HIDE DEF rank
  <2> QED BY <1>7, <1>8 DEF Injection, IsInjective
<1>10. IsFiniteSet(U) /\ Cardinality(U) = IF k + 1 > n THEN 0 ELSE n - (k + 1) + 1
  <2>1. k + 1 \in Int /\ n \in Int
    BY <1>1
  <2> HIDE DEF n
  <2> QED BY <2>1, FS_Interval
<1>11. Cardinality(T) <= Cardinality(U)
  <2> HIDE DEF rank, U
  <2> QED BY <1>9, <1>10, FS_Injection
<1>12. Cardinality(T) <= IF n > k THEN n - k ELSE 0
  BY <1>1, <1>10, <1>11
<1>13. Lowest(S, k) \subseteq S
  BY DEF Lowest
<1> QED BY <1>12, <1>13 DEF T
-----------------------------------------------------------------------------
(* Types.                                                                  *)

LEMMA ConstantFacts ==
    /\ SatMax \in Nat \ {0} /\ RecMax \in Nat \ {0} /\ MaxCmds \in Nat
    /\ Sats \subseteq Nat /\ Records \subseteq Nat
    /\ Sats \subseteq 0..MaxId /\ Records \subseteq 0..MaxId
    /\ 0 \in 0..MaxId
    /\ Straddling \subseteq Records
    /\ "pc" \in Senders
BY ParamStoreAssumption DEF Sats, Records, MaxId

(* Sets of ids are finite. *)
LEMMA IdsFinite ==
    /\ IsFiniteSet(Sats) /\ Cardinality(Sats) = SatMax
    /\ IsFiniteSet(Records) /\ Cardinality(Records) = RecMax
    /\ \A S : S \subseteq Sats => IsFiniteSet(S) /\ Cardinality(S) \in 0..SatMax
    /\ \A S : S \subseteq Records => IsFiniteSet(S) /\ Cardinality(S) \in 0..RecMax
<1>1. 1 \in Int /\ SatMax \in Int /\ RecMax \in Int /\ SatMax >= 1 /\ RecMax >= 1
  BY ConstantFacts
<1>2. IsFiniteSet(Sats) /\ Cardinality(Sats) = IF 1 > SatMax THEN 0 ELSE SatMax - 1 + 1
  BY <1>1, FS_Interval DEF Sats
<1>3. IsFiniteSet(Records) /\ Cardinality(Records) = IF 1 > RecMax THEN 0 ELSE RecMax - 1 + 1
  BY <1>1, FS_Interval DEF Records
<1>4. Cardinality(Sats) = SatMax /\ Cardinality(Records) = RecMax
  BY <1>1, <1>2, <1>3
<1>5. \A S : S \subseteq Sats => IsFiniteSet(S) /\ Cardinality(S) \in 0..SatMax
  <2> SUFFICES ASSUME NEW S, S \subseteq Sats
               PROVE  IsFiniteSet(S) /\ Cardinality(S) \in 0..SatMax
    OBVIOUS
  <2>1. IsFiniteSet(S) /\ Cardinality(S) <= Cardinality(Sats)
    BY <1>2, FS_Subset
  <2>2. Cardinality(S) \in Nat
    BY <2>1, FS_CardinalityType
  <2> QED BY <1>1, <1>4, <2>1, <2>2
<1>6. \A S : S \subseteq Records => IsFiniteSet(S) /\ Cardinality(S) \in 0..RecMax
  <2> SUFFICES ASSUME NEW S, S \subseteq Records
               PROVE  IsFiniteSet(S) /\ Cardinality(S) \in 0..RecMax
    OBVIOUS
  <2>1. IsFiniteSet(S) /\ Cardinality(S) <= Cardinality(Records)
    BY <1>3, FS_Subset
  <2>2. Cardinality(S) \in Nat
    BY <2>1, FS_CardinalityType
  <2> QED BY <1>1, <1>4, <2>1, <2>2
<1> QED BY <1>2, <1>3, <1>4, <1>5, <1>6

(* The fields of a command's locals. *)
LEMMA TaskFields ==
    ASSUME NEW t \in TaskState
    PROVE  /\ t.op \in Ops /\ t.id \in 0..MaxId /\ t.n \in Nat /\ t.num \in Nat
           /\ t.todo \subseteq Nat
BY DEF TaskState

LEMMA IdleTyped ==
    Idle \in TaskState /\ Idle.op = "idle" /\ Idle.num = 0 /\ \A s : Typed(s, Idle)
<1>1. Idle \in TaskState /\ Idle.op = "idle" /\ Idle.num = 0
  BY ConstantFacts DEF Idle, TaskState, Ops
<1> QED BY <1>1 DEF Typed, SatOps, AddOps, ClearOps

(* The locals of one command change. *)
LEMMA TaskSet ==
    ASSUME TasksOK, NEW s \in Senders, NEW t, Typed(s, t), task' = [task EXCEPT ![s] = t]
    PROVE  TasksOK' /\ task'[s] = t /\ \A r \in Senders : r # s => task'[r] = task[r]
<1>1. t \in TaskState
  BY DEF Typed
<1>2. task'[s] = t /\ \A r \in Senders : r # s => task'[r] = task[r]
  BY DEF TasksOK
<1>3. task' \in [Senders -> TaskState]
  BY <1>1 DEF TasksOK
<1> QED BY <1>2, <1>3 DEF TasksOK

(* What a save does to the counts. *)
LEMMA SaveCounts ==
    ASSUME NEW c \in CountState, NEW w \in BOOLEAN, NEW ok \in BOOLEAN, Save(w, ok, c)
    PROVE  /\ count' \in CountState
           /\ count'.cmds = c.cmds /\ count'.overlaps = c.overlaps /\ count'.torn = c.torn
           /\ count'.misreads = c.misreads /\ count'.blind = c.blind /\ count'.stale = c.stale
           /\ ok => w /\ count'.fails = c.fails
           /\ ~ok => count'.fails = c.fails + 1
<1>1. CASE ok
  BY <1>1 DEF Save
<1>2. CASE ~ok
  <2>1. count' = [c EXCEPT !.fails = c.fails + 1]
    BY <1>2 DEF Save
  <2>2. c.fails + 1 \in Nat
    BY DEF CountState
  <2> QED BY <1>2, <2>1, <2>2, Zenon DEF CountState
<1> QED BY <1>1, <1>2

(* What the start of a command does to the counts and the senders. *)
LEMMA BeginCountingFacts ==
    ASSUME CountsOK, TasksOK, NEW s \in Senders, NEW k, NEW t, Typed(s, t), NEW stale \in {0, 1},
           BeginCounting(s, k, t, stale)
    PROVE  /\ CountsOK' /\ TasksOK'
           /\ up = "on" /\ task[s] = Idle /\ task'[s] = t
           /\ \A r \in Senders : r # s => task'[r] = task[r]
           /\ count.cmds < MaxCmds /\ count'.cmds = count.cmds + 1
           /\ count'.torn = count.torn /\ count'.fails = count.fails
           /\ count'.misreads = count.misreads /\ count'.blind = count.blind
           /\ count'.stale = count.stale + stale
           /\ count'.overlaps = count.overlaps + (IF \E r \in Senders : task[r] # Idle THEN 1 ELSE 0)
<1> DEFINE o == IF \E r \in Senders : task[r] # Idle THEN 1 ELSE 0
<1>1. o \in {0, 1}
  OBVIOUS
<1>2. /\ count' = [count EXCEPT !.cmds = count.cmds + 1, !.overlaps = count.overlaps + o,
                                !.stale = count.stale + stale]
      /\ task' = [task EXCEPT ![s] = t]
      /\ up = "on" /\ task[s] = Idle /\ count.cmds < MaxCmds
  BY DEF BeginCounting
<1> HIDE DEF o
<1>3. count.cmds + 1 \in Nat /\ count.overlaps + o \in Nat /\ count.stale + stale \in Nat
  BY <1>1 DEF CountsOK, CountState
<1>4. /\ count' \in CountState /\ count'.cmds = count.cmds + 1 /\ count'.torn = count.torn
      /\ count'.fails = count.fails /\ count'.misreads = count.misreads
      /\ count'.blind = count.blind /\ count'.stale = count.stale + stale
      /\ count'.overlaps = count.overlaps + o
  BY <1>2, <1>3, Zenon DEF CountsOK, CountState
<1>5. CountsOK'
  <2>1. count.cmds + 1 <= MaxCmds
    BY <1>2, ConstantFacts DEF CountsOK, CountState
  <2> QED BY <1>4, <2>1 DEF CountsOK
<1>6. TasksOK' /\ task'[s] = t /\ \A r \in Senders : r # s => task'[r] = task[r]
  BY <1>2, TaskSet
<1> QED BY <1>2, <1>4, <1>5, <1>6 DEF o

(* All commands but a change of a satellite count no stale one.            *)
LEMMA BeginFacts ==
    ASSUME CountsOK, TasksOK, NEW s \in Senders, NEW k, NEW t, Typed(s, t), Begin(s, k, t)
    PROVE  /\ CountsOK' /\ TasksOK'
           /\ up = "on" /\ task[s] = Idle /\ task'[s] = t
           /\ \A r \in Senders : r # s => task'[r] = task[r]
           /\ count.cmds < MaxCmds /\ count'.cmds = count.cmds + 1
           /\ count'.torn = count.torn /\ count'.fails = count.fails
           /\ count'.misreads = count.misreads /\ count'.blind = count.blind
           /\ count'.stale = count.stale
           /\ count'.overlaps = count.overlaps + (IF \E r \in Senders : task[r] # Idle THEN 1 ELSE 0)
<1>1. BeginCounting(s, k, t, 0)
  BY DEF Begin
<1>2. count'.stale = count.stale + 0 /\ count.stale \in Nat
  BY <1>1, BeginCountingFacts DEF CountsOK, CountState
<1> QED BY <1>1, <1>2, BeginCountingFacts

(* The locals of a command that goes on at op. *)
LEMMA Reop ==
    ASSUME NEW t \in TaskState, NEW op \in Ops, NEW u, u = [t EXCEPT !.op = op]
    PROVE  u \in TaskState /\ u.op = op /\ u.id = t.id /\ u.n = t.n /\ u.num = t.num /\ u.todo = t.todo
BY DEF TaskState

LEMMA CrashTypes ==
    ASSUME TypeInv, Crash
    PROVE  TypeInv'
<1> DEFINE o == IF \E s \in Senders : task[s] # Idle THEN 1 ELSE 0
<1>1. /\ count' = [count EXCEPT !.restarts = count.restarts + 1, !.torn = count.torn + o]
      /\ task' = [s \in Senders |-> Idle]
  BY DEF Crash
<1>2. o \in {0, 1}
  OBVIOUS
<1> HIDE DEF o
<1>3. count.restarts + 1 \in Nat /\ count.torn + o \in Nat
  BY <1>2 DEF TypeInv, CountsOK, CountState
<1>4. CountsOK'
  BY <1>1, <1>3, Zenon DEF TypeInv, CountsOK, CountState
<1>5. TasksOK'
  BY <1>1, IdleTyped DEF TasksOK
<1>6. RoomLeft'
  BY <1>1, IdleTyped, ConstantFacts DEF RoomLeft, Pc
<1>7. StoresOK' /\ ClientsOK'
  BY DEF Crash, TypeInv, StoresOK, ClientsOK, eepromVars, clientVars
<1>8. ListsOK' /\ up' = "sats"
  BY ConstantFacts DEF Crash, ListsOK
<1>9. \A s \in Senders : task'[s] = Idle
  BY <1>1
<1> QED BY <1>4, <1>5, <1>6, <1>7, <1>8, <1>9 DEF TypeInv

(* The counts of a start. *)
LEMMA MisreadCounts ==
    ASSUME CountsOK, NEW bad, Cardinality(bad) \in Nat
    PROVE  /\ Misread(bad) \in CountState
           /\ Misread(bad).cmds = count.cmds /\ Misread(bad).overlaps = count.overlaps
           /\ Misread(bad).torn = count.torn /\ Misread(bad).fails = count.fails
           /\ Misread(bad).misreads = count.misreads + Cardinality(bad)
           /\ Misread(bad).blind = count.blind /\ Misread(bad).stale = count.stale
<1>1. count.misreads + Cardinality(bad) \in Nat
  BY DEF CountsOK, CountState
<1> QED BY <1>1, Zenon DEF CountsOK, CountState, Misread

LEMMA InitSatsTypes ==
    ASSUME TypeInv, InitSats
    PROVE  TypeInv'
<1> PICK bad \in SUBSET Stored, w \in BOOLEAN, ok \in BOOLEAN :
        /\ Sat_ID' = FoundSats(bad)
        /\ Sat_Total_num' = RepairedNum(FoundSats(bad))
        /\ IF Cardinality(FoundSats(bad)) < SatsToFind
           THEN Save(w, ok, Misread(bad)) /\ Sat_num' = (IF w THEN RepairedNum(FoundSats(bad)) ELSE Sat_num)
           ELSE count' = Misread(bad) /\ UNCHANGED Sat_num
  BY DEF InitSats
<1>1. FoundSats(bad) \subseteq Sats /\ bad \subseteq Sats
  BY DEF FoundSats, Lowest, Stored
<1>2. Cardinality(FoundSats(bad)) \in 0..SatMax /\ Cardinality(bad) \in Nat
  BY <1>1, IdsFinite
<1>3. CountsOK'
  <2>1. Misread(bad) \in CountState /\ Misread(bad).cmds = count.cmds
    BY <1>2, MisreadCounts DEF TypeInv
  <2>2. CASE Save(w, ok, Misread(bad))
    BY <2>1, <2>2, SaveCounts DEF TypeInv, CountsOK
  <2>3. CASE count' = Misread(bad)
    BY <2>1, <2>3 DEF TypeInv, CountsOK
  <2> QED BY <2>2, <2>3
<1>4. Sat_num' \in 0 .. SatMax + 1
  BY <1>2, ConstantFacts DEF TypeInv, StoresOK, RepairedNum
<1>5. /\ up = "sats" /\ up' = "records"
      /\ UNCHANGED <<Sat, record_num, record, record_Total_num, record_ID, task, ackedSats, ackedRecords>>
  BY DEF InitSats, recordVars, clientVars
<1>6. StoresOK' /\ ClientsOK' /\ TasksOK'
  BY <1>4, <1>5 DEF TypeInv, StoresOK, ClientsOK, TasksOK
<1>7. ListsOK'
  BY <1>1, <1>2, <1>5 DEF TypeInv, ListsOK, RepairedNum
<1>8. RoomLeft' /\ \A s \in Senders : task'[s] = Idle
  BY <1>5, IdleTyped, ConstantFacts DEF TypeInv, RoomLeft, Pc
<1> QED BY <1>3, <1>5, <1>6, <1>7, <1>8 DEF TypeInv

LEMMA InitSatsBlindTypes ==
    ASSUME TypeInv, InitSatsBlind
    PROVE  TypeInv' /\ count'.blind # 0
<1>1. /\ up = "sats" /\ up' = "records" /\ Sat_ID' = {} /\ Sat_Total_num' = 0
      /\ UNCHANGED <<Sat_num, Sat, record_num, record, record_Total_num, record_ID, task>>
      /\ UNCHANGED <<ackedSats, ackedRecords>>
      /\ count' = [count EXCEPT !.blind = count.blind + 1]
  BY DEF InitSatsBlind, eepromVars, recordVars, clientVars
<1>2. count.blind \in Nat /\ count.blind + 1 \in Nat /\ count.blind + 1 # 0
  BY DEF TypeInv, CountsOK, CountState
<1>3. CountsOK' /\ count'.blind = count.blind + 1
  BY <1>1, <1>2, Zenon DEF TypeInv, CountsOK, CountState
<1>4. StoresOK' /\ ClientsOK' /\ TasksOK'
  BY <1>1 DEF TypeInv, StoresOK, ClientsOK, TasksOK
<1>5. ListsOK'
  BY <1>1, ConstantFacts DEF TypeInv, ListsOK
<1>6. RoomLeft' /\ \A s \in Senders : task'[s] = Idle
  BY <1>1, IdleTyped, ConstantFacts DEF TypeInv, RoomLeft, Pc
<1> QED BY <1>1, <1>2, <1>3, <1>4, <1>5, <1>6 DEF TypeInv

LEMMA InitRecordsTypes ==
    ASSUME TypeInv, InitRecords
    PROVE  TypeInv'
<1> PICK bad \in SUBSET StoredRecords, w \in BOOLEAN, ok \in BOOLEAN :
        LET found == StoredRecords \ bad
            n == Cardinality(found)
        IN
        /\ record_ID' = found
        /\ record_Total_num' = n
        /\ IF n # record_num
           THEN Save(w, ok, Misread(bad)) /\ record_num' = (IF w THEN n ELSE record_num)
           ELSE count' = Misread(bad) /\ UNCHANGED record_num
  BY DEF InitRecords
<1> DEFINE found == StoredRecords \ bad
<1>1. found \subseteq Records /\ bad \subseteq Records
  BY DEF StoredRecords
<1>2. Cardinality(found) \in 0..RecMax /\ Cardinality(bad) \in Nat
  BY <1>1, IdsFinite
<1>3. CountsOK'
  <2>1. Misread(bad) \in CountState /\ Misread(bad).cmds = count.cmds
    BY <1>2, MisreadCounts DEF TypeInv
  <2>2. CASE Save(w, ok, Misread(bad))
    BY <2>1, <2>2, SaveCounts DEF TypeInv, CountsOK
  <2>3. CASE count' = Misread(bad)
    BY <2>1, <2>3 DEF TypeInv, CountsOK
  <2> QED BY <2>2, <2>3
<1>4. record_num' \in 0 .. RecMax + 1
  BY <1>2, ConstantFacts DEF TypeInv, StoresOK
<1>5. /\ up = "records" /\ up' = "on"
      /\ UNCHANGED <<Sat_num, Sat, record, Sat_Total_num, Sat_ID, task, ackedSats, ackedRecords>>
  BY DEF InitRecords, satVars, clientVars
<1>6. StoresOK' /\ ClientsOK' /\ TasksOK'
  BY <1>4, <1>5 DEF TypeInv, StoresOK, ClientsOK, TasksOK
<1>7. ListsOK'
  BY <1>1, <1>2, <1>5 DEF TypeInv, ListsOK
<1>8. RoomLeft'
  BY <1>5 DEF TypeInv, RoomLeft, Pc
<1> QED BY <1>3, <1>5, <1>6, <1>7, <1>8 DEF TypeInv

LEMMA SatAddTypes ==
    ASSUME TypeInv, SatAdd
    PROVE  TypeInv' /\ Pc = Idle /\ Pc'.op = "save" /\ Pc'.id = NewSatId /\ Pc'.num = 1
           /\ Pc'.n = SatMax + count.cmds + 1
<1> DEFINE t == [Idle EXCEPT !.op = "save", !.id = NewSatId,
                     !.n = SatMax + count.cmds + 1, !.num = 1]
<1>1. Begin("pc", "sat", t) /\ Sat_Total_num < SatMax /\ Sats \ Sat_ID # {} /\ count.cmds < MaxCmds
  BY DEF SatAdd, Begin, BeginCounting
<1>2. NewSatId \in Sats
  <2>1. Sats \ Sat_ID \subseteq Nat
    BY ConstantFacts
  <2> QED BY <1>1, <2>1, MinIn DEF NewSatId
<1>3. SatMax + count.cmds + 1 \in SatValues \ {0}
  BY <1>1, ConstantFacts DEF TypeInv, CountsOK, CountState, SatValues
<1>4. /\ t \in TaskState /\ t.op = "save" /\ t.id = NewSatId /\ t.n = SatMax + count.cmds + 1
      /\ t.num = 1
  <2>1. "save" \in Ops /\ NewSatId \in 0..MaxId /\ SatMax + count.cmds + 1 \in Nat /\ 1 \in Nat
    BY <1>2, <1>3, ConstantFacts DEF Ops, SatOps, SatValues
  <2> QED BY <2>1, IdleTyped, Zenon DEF TaskState
<1> HIDE DEF t
<1>5. Typed("pc", t)
  BY <1>2, <1>3, <1>4 DEF Typed, SatOps, AddOps, ClearOps
<1>6. CountsOK' /\ TasksOK' /\ up = "on" /\ task["pc"] = Idle /\ task'["pc"] = t
  BY <1>1, <1>5, BeginFacts, ConstantFacts DEF TypeInv
<1>7. UNCHANGED <<eepromVars, satVars, recordVars, up, clientVars>>
  BY DEF SatAdd
<1>8. StoresOK' /\ ListsOK' /\ ClientsOK'
  BY <1>7 DEF TypeInv, StoresOK, ListsOK, ClientsOK, eepromVars, satVars, recordVars, clientVars
<1>9. RoomLeft'
  BY <1>1, <1>7 DEF RoomLeft, satVars
<1> QED BY <1>4, <1>6, <1>7, <1>8, <1>9 DEF TypeInv, Pc

(* A satellite that is changed keeps its number, or has a new one. *)
LEMMA SatModifyTypes ==
    ASSUME TypeInv, NEW id \in Sats, SatModify(id)
    PROVE  /\ TypeInv' /\ Pc = Idle
           /\ Pc'.op = "save" /\ Pc'.id = id /\ Pc'.num = 0 /\ Pc'.n = Changed(id)
           /\ up = "on" /\ count'.cmds = count.cmds + 1
           /\ SatFaults' = SatFaults + (IF id \in Sat_ID THEN 0 ELSE 1)
<1> DEFINE t == [Idle EXCEPT !.op = "save", !.id = id, !.n = Changed(id)]
           stale == IF id \in Sat_ID THEN 0 ELSE 1
<1>1. BeginCounting("pc", "sat", t, stale) /\ count.cmds < MaxCmds
  BY DEF SatModify, BeginCounting
<1>2. Changed(id) \in SatValues \ {0}
  <2>1. SatMax + count.cmds + 1 \in SatValues \ {0}
    BY <1>1, ConstantFacts DEF TypeInv, CountsOK, CountState, SatValues
  <2>2. Sat[id] \in SatValues
    BY DEF TypeInv, StoresOK
  <2> QED BY <2>1, <2>2 DEF Changed
<1>3. t \in TaskState /\ t.op = "save" /\ t.id = id /\ t.n = Changed(id) /\ t.num = 0
  <2>1. "save" \in Ops /\ id \in 0..MaxId /\ Changed(id) \in Nat
    BY <1>2, ConstantFacts DEF Ops, SatOps, SatValues
  <2> QED BY <2>1, IdleTyped, Zenon DEF TaskState
<1>4. stale \in {0, 1}
  OBVIOUS
<1> HIDE DEF t, stale
<1>5. Typed("pc", t)
  BY <1>2, <1>3 DEF Typed, SatOps, AddOps, ClearOps
<1>6. /\ CountsOK' /\ TasksOK' /\ up = "on" /\ task["pc"] = Idle /\ task'["pc"] = t
      /\ count'.cmds = count.cmds + 1 /\ count'.torn = count.torn /\ count'.fails = count.fails
      /\ count'.misreads = count.misreads /\ count'.stale = count.stale + stale
  BY <1>1, <1>4, <1>5, BeginCountingFacts, ConstantFacts DEF TypeInv
<1>7. SatFaults' = SatFaults + stale
  BY <1>4, <1>6 DEF SatFaults, TypeInv, CountsOK, CountState
<1>8. UNCHANGED <<eepromVars, satVars, recordVars, up, clientVars>>
  BY DEF SatModify
<1>9. StoresOK' /\ ListsOK' /\ ClientsOK'
  BY <1>8 DEF TypeInv, StoresOK, ListsOK, ClientsOK, eepromVars, satVars, recordVars, clientVars
<1>10. RoomLeft'
  BY <1>3, <1>6 DEF RoomLeft, Pc
<1> QED BY <1>3, <1>6, <1>7, <1>8, <1>9, <1>10 DEF TypeInv, Pc, stale

(* A command of s goes on at op. *)
LEMMA GotoFacts ==
    ASSUME TypeInv, NEW s \in Senders, NEW op \in Ops, Goto(s, op), Typed(s, [task[s] EXCEPT !.op = op])
    PROVE  /\ TasksOK'
           /\ task'[s].op = op /\ task'[s].id = task[s].id /\ task'[s].n = task[s].n
           /\ task'[s].num = task[s].num /\ task'[s].todo = task[s].todo
           /\ \A r \in Senders : r # s => task'[r] = task[r]
<1> DEFINE u == [task[s] EXCEPT !.op = op]
<1>1. task[s] \in TaskState
  BY DEF TypeInv, TasksOK
<1>2. /\ u \in TaskState /\ u.op = op /\ u.id = task[s].id /\ u.n = task[s].n
      /\ u.num = task[s].num /\ u.todo = task[s].todo
  BY <1>1, Reop
<1>3. task' = [task EXCEPT ![s] = u]
  BY DEF Goto
<1> HIDE DEF u
<1> QED BY <1>2, <1>3, TaskSet DEF TypeInv, u

(* The command of s ends. *)
LEMMA EndFacts ==
    ASSUME TasksOK, NEW s \in Senders, End(s)
    PROVE  TasksOK' /\ task'[s] = Idle /\ \A r \in Senders : r # s => task'[r] = task[r]
BY IdleTyped, TaskSet DEF End

LEMMA SatSaveTypes ==
    ASSUME TypeInv, SatSave
    PROVE  TypeInv'
<1> PICK w \in BOOLEAN, ok \in BOOLEAN :
          /\ Save(w, ok, count)
          /\ Sat' = IF w THEN [Sat EXCEPT ![task["pc"].id] = task["pc"].n] ELSE Sat
          /\ IF ok THEN Goto("pc", IF task["pc"].num = 1 THEN "count" ELSE "list") ELSE End("pc")
  BY DEF SatSave
<1>1. up = "on" /\ task["pc"].op = "save"
  BY DEF SatSave, At
<1>2. UNCHANGED <<Sat_num, record_num, record, satVars, recordVars, up, clientVars>>
  BY DEF SatSave
<1>3. CountsOK'
  BY SaveCounts DEF TypeInv, CountsOK
<1>4. task["pc"] \in TaskState /\ task["pc"].id \in Sats /\ task["pc"].n \in SatValues \ {0}
  BY <1>1, ConstantFacts DEF TypeInv, TasksOK, Typed, SatOps
<1>5. StoresOK'
  BY <1>2, <1>4 DEF TypeInv, StoresOK
<1>6. TasksOK' /\ RoomLeft'
  <2>1. CASE ok
    <3> DEFINE op == IF task["pc"].num = 1 THEN "count" ELSE "list"
               u == [task["pc"] EXCEPT !.op = op]
    <3>1. op \in Ops /\ op \in SatOps /\ (op = "count" => task["pc"].num = 1)
      BY DEF Ops, SatOps
    <3>2. Goto("pc", op)
      BY <2>1
    <3> HIDE DEF op
    <3>3. u \in TaskState /\ u.op = op /\ u.id = task["pc"].id /\ u.n = task["pc"].n /\ u.num = task["pc"].num
      BY <1>4, <3>1, Reop
    <3> HIDE DEF u
    <3>4. Typed("pc", u)
      BY <1>4, <3>1, <3>3 DEF Typed, SatOps, AddOps, ClearOps
    <3>5. TasksOK' /\ task'["pc"].num = task["pc"].num
      BY <3>1, <3>2, <3>4, GotoFacts, ConstantFacts DEF u
    <3> QED BY <1>1, <1>2, <3>5 DEF TypeInv, RoomLeft, Pc, satVars
  <2>2. CASE ~ok
    BY <2>2, EndFacts, IdleTyped, ConstantFacts DEF TypeInv, RoomLeft, Pc
  <2> QED BY <2>1, <2>2
<1>7. ListsOK' /\ ClientsOK'
  BY <1>2 DEF TypeInv, ListsOK, ClientsOK, satVars, recordVars, clientVars
<1> QED BY <1>1, <1>2, <1>3, <1>5, <1>6, <1>7 DEF TypeInv

LEMMA SatCountTypes ==
    ASSUME TypeInv, SatCount
    PROVE  /\ TypeInv' /\ Sat_Total_num < SatMax /\ Pc'.op = "list" /\ Pc'.id = Pc.id
           /\ Pc'.n = Pc.n /\ Pc'.num = 1
<1> PICK w \in BOOLEAN, ok \in BOOLEAN :
          Save(w, ok, count) /\ Sat_num' = (IF w THEN Sat_Total_num + 1 ELSE Sat_num)
  BY DEF SatCount
<1>1. up = "on" /\ task["pc"].op = "count" /\ Goto("pc", "list") /\ Sat_Total_num' = Sat_Total_num + 1
  BY DEF SatCount, At
<1>2. UNCHANGED <<Sat, record_num, record, Sat_ID, recordVars, up, clientVars>>
  BY DEF SatCount
<1>3. CountsOK'
  BY SaveCounts DEF TypeInv, CountsOK
<1>4. /\ task["pc"] \in TaskState /\ task["pc"].id \in Sats /\ task["pc"].n \in SatValues \ {0}
      /\ task["pc"].num = 1
  BY <1>1, ConstantFacts DEF TypeInv, TasksOK, Typed, SatOps
<1>5. Sat_Total_num < SatMax
  BY <1>1, <1>4 DEF TypeInv, RoomLeft, Pc
<1>6. StoresOK'
  BY <1>2, <1>5, ConstantFacts DEF TypeInv, StoresOK, ListsOK
<1>7. /\ TasksOK' /\ task'["pc"].op = "list" /\ task'["pc"].id = task["pc"].id
      /\ task'["pc"].n = task["pc"].n /\ task'["pc"].num = task["pc"].num
  <2> DEFINE u == [task["pc"] EXCEPT !.op = "list"]
  <2>1. "list" \in Ops
    BY DEF Ops, SatOps
  <2>2. u \in TaskState /\ u.op = "list" /\ u.id = task["pc"].id /\ u.n = task["pc"].n
    BY <1>4, <2>1, Reop
  <2> HIDE DEF u
  <2>3. Typed("pc", u)
    BY <1>4, <2>2 DEF Typed, SatOps, AddOps, ClearOps
  <2> QED BY <1>1, <2>1, <2>3, GotoFacts, ConstantFacts DEF u
<1>8. RoomLeft'
  BY <1>7 DEF RoomLeft, Pc
<1>9. ListsOK' /\ ClientsOK'
  BY <1>1, <1>2, <1>5, ConstantFacts DEF TypeInv, ListsOK, ClientsOK, recordVars, clientVars
<1> QED BY <1>1, <1>2, <1>3, <1>4, <1>5, <1>6, <1>7, <1>8, <1>9 DEF TypeInv, Pc

LEMMA SatListedTypes ==
    ASSUME TypeInv, SatListed
    PROVE  TypeInv' /\ Pc' = Idle
<1>1. up = "on" /\ task["pc"].op = "list" /\ End("pc")
  BY DEF SatListed, At
<1>2. task["pc"].id \in Sats /\ task["pc"].n \in SatValues \ {0}
  BY <1>1, ConstantFacts DEF TypeInv, TasksOK, Typed, SatOps
<1>3. TasksOK' /\ task'["pc"] = Idle
  BY <1>1, EndFacts, ConstantFacts DEF TypeInv
<1>4. RoomLeft'
  BY <1>3, IdleTyped DEF RoomLeft, Pc
<1>5. StoresOK' /\ CountsOK' /\ up' = up
  BY DEF SatListed, TypeInv, StoresOK, CountsOK, eepromVars
<1>6. ListsOK' /\ ClientsOK'
  BY <1>2 DEF SatListed, TypeInv, ListsOK, ClientsOK, recordVars
<1> QED BY <1>1, <1>3, <1>4, <1>5, <1>6 DEF TypeInv, Pc

LEMMA DelSatSetTypes ==
    ASSUME TypeInv, NEW ids \in SUBSET Sats, DelSatSet(ids)
    PROVE  TypeInv' /\ Pc = Idle /\ Pc'.op = "del" /\ Pc'.todo = ids
<1> DEFINE t == [Idle EXCEPT !.op = "del", !.todo = ids]
<1>1. Begin("pc", "delsat", t)
  BY DEF DelSatSet
<1>2. t \in TaskState /\ t.op = "del" /\ t.todo = ids
  <2>1. "del" \in Ops /\ ids \in SUBSET Nat
    BY ConstantFacts DEF Ops
  <2> QED BY <2>1, IdleTyped, Zenon DEF TaskState
<1> HIDE DEF t
<1>3. Typed("pc", t)
  BY <1>2 DEF Typed, SatOps, AddOps, ClearOps
<1>4. CountsOK' /\ TasksOK' /\ up = "on" /\ task["pc"] = Idle /\ task'["pc"] = t
  BY <1>1, <1>3, BeginFacts, ConstantFacts DEF TypeInv
<1>5. UNCHANGED <<eepromVars, satVars, recordVars, up, ackedRecords, adjusted>>
  BY DEF DelSatSet
<1>6. StoresOK' /\ ListsOK'
  BY <1>5 DEF TypeInv, StoresOK, ListsOK, eepromVars, satVars, recordVars
<1>7. ClientsOK'
  <2>1. ackedSats' \subseteq ackedSats
    BY DEF DelSatSet
  <2> QED BY <1>5, <2>1 DEF TypeInv, ClientsOK
<1>8. RoomLeft'
  BY <1>2, <1>4 DEF RoomLeft, Pc
<1> QED BY <1>2, <1>4, <1>5, <1>6, <1>7, <1>8 DEF TypeInv, Pc

(* The ids of a deletion are worked off; those of the list are unlisted. *)
LEMMA DelSatTypes ==
    ASSUME TypeInv, NEW i \in Sats, DelSat(i)
    PROVE  TypeInv' /\ Pc'.op = "del" /\ Pc'.todo = Pc.todo \ {i}
<1>1. up = "on" /\ task["pc"].op = "del" /\ task' = [task EXCEPT !["pc"].todo = @ \ {i}]
  BY DEF DelSat, At
<1>2. task["pc"] \in TaskState /\ task["pc"].todo \subseteq Sats
  BY <1>1, ConstantFacts DEF TypeInv, TasksOK, Typed
<1>3. TasksOK' /\ task'["pc"].op = "del" /\ task'["pc"].todo = task["pc"].todo \ {i}
  <2> DEFINE u == [task["pc"] EXCEPT !.todo = task["pc"].todo \ {i}]
  <2>1. task["pc"].todo \ {i} \in SUBSET Nat
    BY <1>2, ConstantFacts
  <2>2. u \in TaskState /\ u.op = "del" /\ u.todo = task["pc"].todo \ {i}
    BY <1>1, <1>2, <2>1, Zenon DEF TaskState
  <2>3. task' = [task EXCEPT !["pc"] = u]
    BY <1>1
  <2> HIDE DEF u
  <2>4. Typed("pc", u)
    BY <1>2, <2>2 DEF Typed, SatOps, AddOps, ClearOps
  <2> QED BY <2>2, <2>3, <2>4, TaskSet, ConstantFacts DEF TypeInv
<1>4. UNCHANGED <<Sat_num, record_num, record, recordVars, up, clientVars>>
  BY DEF DelSat
<1>5. /\ Sat_ID' \subseteq Sat_ID
      /\ Sat_Total_num' \in {Sat_Total_num, Less(Sat_Total_num)}
      /\ CountsOK'
      /\ Sat' \in {Sat, [Sat EXCEPT ![i] = 0]}
  <2>1. CASE i \in Sat_ID /\ Sat_ID' = Sat_ID \ {i} /\ Sat_Total_num' = Less(Sat_Total_num)
             /\ \E w, ok \in BOOLEAN :
                   Save(w, ok, count) /\ Sat' = (IF w THEN [Sat EXCEPT ![i] = 0] ELSE Sat)
    <3> PICK w \in BOOLEAN, ok \in BOOLEAN :
           Save(w, ok, count) /\ Sat' = (IF w THEN [Sat EXCEPT ![i] = 0] ELSE Sat)
      BY <2>1
    <3>1. CountsOK'
      BY SaveCounts DEF TypeInv, CountsOK
    <3> QED BY <2>1, <3>1
  <2>2. CASE UNCHANGED <<satVars, Sat, count>>
    BY <2>2 DEF satVars, TypeInv, CountsOK
  <2> QED BY <2>1, <2>2 DEF DelSat
<1>6. StoresOK'
  <2>1. 0 \in SatValues
    BY ConstantFacts DEF SatValues
  <2> QED BY <1>4, <1>5, <2>1 DEF TypeInv, StoresOK
<1>7. ListsOK'
  <2>1. Less(Sat_Total_num) \in 0..SatMax
    BY ConstantFacts DEF TypeInv, ListsOK, Less
  <2> QED BY <1>4, <1>5, <2>1 DEF TypeInv, ListsOK, recordVars
<1>8. ClientsOK' /\ RoomLeft'
  BY <1>3, <1>4 DEF TypeInv, ClientsOK, RoomLeft, Pc, clientVars
<1> QED BY <1>1, <1>3, <1>4, <1>5, <1>6, <1>7, <1>8 DEF TypeInv, Pc

LEMMA DelSatCountTypes ==
    ASSUME TypeInv, DelSatCount
    PROVE  TypeInv' /\ Pc' = Idle
<1> PICK w \in BOOLEAN, ok \in BOOLEAN :
        Save(w, ok, count) /\ Sat_num' = (IF w THEN Sat_Total_num ELSE Sat_num)
  BY DEF DelSatCount
<1>1. up = "on" /\ End("pc") /\ UNCHANGED <<Sat, record_num, record, satVars, recordVars, up, clientVars>>
  BY DEF DelSatCount, At
<1>2. CountsOK'
  BY SaveCounts DEF TypeInv, CountsOK
<1>3. TasksOK' /\ task'["pc"] = Idle
  BY <1>1, EndFacts, ConstantFacts DEF TypeInv
<1>4. StoresOK'
  BY <1>1, ConstantFacts DEF TypeInv, StoresOK, ListsOK
<1>5. ListsOK' /\ ClientsOK' /\ RoomLeft'
  BY <1>1, <1>3, IdleTyped DEF TypeInv, ListsOK, ClientsOK, RoomLeft, Pc, satVars, recordVars, clientVars
<1> QED BY <1>1, <1>2, <1>3, <1>4, <1>5 DEF TypeInv, Pc

-----------------------------------------------------------------------------
(* The commands about antenna records.                                     *)

(* A step that is not about satellites. *)
RecordStep ==
    /\ UNCHANGED <<Sat_num, Sat, Sat_Total_num, Sat_ID, ackedSats>>
    /\ up' = "sats" \/ up # "sats"
    /\ count.cmds <= count'.cmds /\ SatFaults <= SatFaults'
    /\ Pc' = Pc \/ {Pc.op, Pc'.op} \cap (SatOps \cup {"del"}) = {}

(* What a step of a command of s about records has to keep in order. *)
LEMMA RecordTypes ==
    ASSUME TypeInv, NEW s \in Senders, up = "on",
           UNCHANGED <<Sat_num, Sat, satVars, up, ackedSats>>,
           record_num' \in 0 .. RecMax + 1, record' \in [Records -> RecordValues \X RecordValues],
           record_Total_num' \in 0..RecMax, record_ID' \subseteq Records,
           ackedRecords' \subseteq RecordValues \ {0},
           CountsOK', count.cmds <= count'.cmds, SatFaults <= SatFaults',
           TasksOK', \A r \in Senders : r # s => task'[r] = task[r],
           {task[s].op, task'[s].op} \cap (SatOps \cup {"del"}) = {}
    PROVE  TypeInv' /\ RecordStep
<1>1. StoresOK' /\ ListsOK' /\ ClientsOK'
  BY DEF TypeInv, StoresOK, ListsOK, ClientsOK, satVars
<1>2. Pc' = Pc \/ {Pc.op, Pc'.op} \cap (SatOps \cup {"del"}) = {}
  BY ConstantFacts DEF Pc
<1>3. RoomLeft'
  BY <1>2 DEF TypeInv, RoomLeft, SatOps, satVars
<1> QED BY <1>1, <1>2, <1>3 DEF TypeInv, RecordStep, satVars

(* The places of the commands about records are others. *)
LEMMA RecordPlaces ==
    /\ AddOps \cup {"idle", "unlist", "wipe"} \cup ClearOps \subseteq Ops
    /\ (AddOps \cup {"idle", "unlist", "wipe"} \cup ClearOps) \cap (SatOps \cup {"del"}) = {}
BY DEF Ops, SatOps, AddOps, ClearOps

(* A save changes no counts but that of the failed ones. *)
LEMMA SaveFaults ==
    ASSUME CountsOK, NEW w \in BOOLEAN, NEW ok \in BOOLEAN, Save(w, ok, count)
    PROVE  /\ CountsOK' /\ count'.cmds = count.cmds /\ count'.overlaps = count.overlaps
           /\ count'.misreads = count.misreads /\ count'.blind = count.blind
           /\ SatFaults \in Nat /\ SatFaults' = SatFaults + (IF ok THEN 0 ELSE 1)
           /\ ok => w
<1>1. count \in CountState
  BY DEF CountsOK
<1>2. /\ count' \in CountState /\ count'.cmds = count.cmds /\ count'.overlaps = count.overlaps
      /\ count'.torn = count.torn /\ count'.misreads = count.misreads
      /\ count'.blind = count.blind /\ count'.stale = count.stale
      /\ ok => w /\ count'.fails = count.fails
      /\ ~ok => count'.fails = count.fails + 1
  BY <1>1, SaveCounts
<1>3. /\ count.torn \in Nat /\ count.fails \in Nat /\ count.misreads \in Nat /\ count.stale \in Nat
  BY <1>1 DEF CountState
<1> QED BY <1>2, <1>3 DEF CountsOK, SatFaults

LEMMA AntennaRecordTypes ==
    ASSUME TypeInv, NEW s \in Senders, AntennaRecord(s)
    PROVE  /\ TypeInv' /\ RecordStep
           /\ task'[s].op = "head" /\ task'[s].id = NewRecordId /\ NewRecordId \in Records \ record_ID
           /\ task'[s].n = RecMax + count.cmds + 1 /\ task'[s].num = record_Total_num
<1> DEFINE t == [Idle EXCEPT !.op = "head", !.id = NewRecordId,
                     !.n = RecMax + count.cmds + 1, !.num = record_Total_num]
<1>1. Begin(s, "rec", t) /\ Records \ record_ID # {} /\ count.cmds < MaxCmds
  BY DEF AntennaRecord, Begin, BeginCounting
<1>2. NewRecordId \in Records \ record_ID
  <2>1. Records \ record_ID \subseteq Nat
    BY ConstantFacts
  <2> QED BY <1>1, <2>1, MinIn DEF NewRecordId
<1>3. RecMax + count.cmds + 1 \in RecordValues \ {0}
  BY <1>1, ConstantFacts DEF TypeInv, CountsOK, CountState, RecordValues
<1>4. record_Total_num \in 0..RecMax
  BY DEF TypeInv, ListsOK
<1>5. /\ t \in TaskState /\ t.op = "head" /\ t.id = NewRecordId /\ t.n = RecMax + count.cmds + 1
      /\ t.num = record_Total_num
  <2>1. /\ "head" \in Ops /\ NewRecordId \in 0..MaxId /\ RecMax + count.cmds + 1 \in Nat
        /\ record_Total_num \in Nat
    BY <1>2, <1>3, <1>4, ConstantFacts DEF Ops, AddOps, RecordValues
  <2> QED BY <2>1, IdleTyped, Zenon DEF TaskState
<1> HIDE DEF t
<1>6. Typed(s, t)
  BY <1>2, <1>3, <1>4, <1>5 DEF Typed, SatOps, AddOps, ClearOps
<1>7. /\ CountsOK' /\ TasksOK' /\ up = "on" /\ task[s] = Idle /\ task'[s] = t
      /\ \A r \in Senders : r # s => task'[r] = task[r]
      /\ count.cmds + 1 = count'.cmds /\ SatFaults' = SatFaults
  BY <1>1, <1>6, BeginFacts DEF TypeInv, SatFaults
<1>8. UNCHANGED <<eepromVars, satVars, recordVars, up, clientVars>>
  BY DEF AntennaRecord
<1>9. count.cmds <= count'.cmds /\ SatFaults <= SatFaults'
  BY <1>7 DEF TypeInv, CountsOK, CountState, SatFaults
<1>10. {task[s].op, task'[s].op} \cap (SatOps \cup {"del"}) = {}
  BY <1>5, <1>7, IdleTyped DEF SatOps
<1>11. /\ UNCHANGED <<Sat_num, Sat, satVars, up, ackedSats>>
       /\ record_num' \in 0 .. RecMax + 1 /\ record' \in [Records -> RecordValues \X RecordValues]
       /\ record_Total_num' \in 0..RecMax /\ record_ID' \subseteq Records
       /\ ackedRecords' \subseteq RecordValues \ {0}
  BY <1>8 DEF TypeInv, StoresOK, ListsOK, ClientsOK, eepromVars, satVars, recordVars, clientVars
<1>12. TypeInv' /\ RecordStep
  BY <1>7, <1>9, <1>10, <1>11, RecordTypes
<1> QED BY <1>2, <1>5, <1>7, <1>12

(* What a command of s that writes a record is about. *)
LEMMA WritesRecord ==
    ASSUME TypeInv, NEW s \in Senders, task[s].op \in AddOps
    PROVE  /\ task[s] \in TaskState /\ task[s].id \in Records /\ task[s].n \in RecordValues \ {0}
           /\ task[s].num \in 0..RecMax
           /\ record[task[s].id] \in RecordValues \X RecordValues
BY DEF TypeInv, TasksOK, Typed, StoresOK

(* It goes on at another place. *)
LEMMA GotoAdd ==
    ASSUME TypeInv, NEW s \in Senders, task[s].op \in AddOps, NEW op \in AddOps, Goto(s, op)
    PROVE  /\ TasksOK'
           /\ task'[s].op = op /\ task'[s].id = task[s].id /\ task'[s].n = task[s].n
           /\ task'[s].num = task[s].num
           /\ \A r \in Senders : r # s => task'[r] = task[r]
<1> DEFINE u == [task[s] EXCEPT !.op = op]
<1>1. op \in Ops
  BY RecordPlaces
<1>2. /\ u \in TaskState /\ u.op = op /\ u.id = task[s].id /\ u.n = task[s].n
      /\ u.num = task[s].num /\ u.todo = task[s].todo
  BY <1>1, WritesRecord, Reop
<1> HIDE DEF u
<1>3. Typed(s, u)
  BY <1>2, WritesRecord DEF Typed, SatOps, AddOps, ClearOps
<1> QED BY <1>1, <1>3, GotoFacts DEF u

LEMMA RecordHeadTypes ==
    ASSUME TypeInv, NEW s \in Senders, RecordHead(s)
    PROVE  TypeInv' /\ RecordStep
<1> DEFINE t == task[s]
           op == IF t.id \in Straddling THEN "tail" ELSE "compare"
<1> PICK w \in BOOLEAN, ok \in BOOLEAN :
          /\ Save(w, ok, count)
          /\ record' = IF w THEN [record EXCEPT ![t.id] = FirstPage(@, t.id, t.n)] ELSE record
          /\ IF ok THEN Goto(s, op) ELSE End(s)
  BY DEF RecordHead
<1>1. up = "on" /\ t.op = "head" /\ t.op \in AddOps
  BY DEF RecordHead, At, AddOps
<1>2. UNCHANGED <<Sat_num, Sat, record_num, satVars, recordVars, up, clientVars>>
  BY DEF RecordHead
<1>3. CountsOK' /\ count'.cmds = count.cmds /\ SatFaults <= SatFaults'
  BY SaveFaults DEF TypeInv
<1>4. record' \in [Records -> RecordValues \X RecordValues]
  <2>1. t.id \in Records /\ t.n \in RecordValues /\ record[t.id] \in RecordValues \X RecordValues
    BY <1>1, WritesRecord
  <2> HIDE DEF t
  <2>2. FirstPage(record[t.id], t.id, t.n) \in RecordValues \X RecordValues
    BY <2>1 DEF FirstPage, Whole
  <2> QED BY <2>1, <2>2 DEF TypeInv, StoresOK
<1>5. /\ TasksOK' /\ task'[s].op \in AddOps \cup {"idle"}
      /\ \A r \in Senders : r # s => task'[r] = task[r]
  <2>1. op \in AddOps
    BY DEF AddOps
  <2> HIDE DEF op
  <2>2. CASE ok
    BY <1>1, <2>1, <2>2, GotoAdd
  <2>3. CASE ~ok
    BY <2>3, EndFacts, IdleTyped DEF TypeInv
  <2> QED BY <2>2, <2>3
<1>6. {task[s].op, task'[s].op} \cap (SatOps \cup {"del"}) = {}
  BY <1>1, <1>5, RecordPlaces
<1>7. /\ UNCHANGED <<Sat_num, Sat, satVars, up, ackedSats>>
      /\ record_num' \in 0 .. RecMax + 1
      /\ record_Total_num' \in 0..RecMax /\ record_ID' \subseteq Records
      /\ ackedRecords' \subseteq RecordValues \ {0} /\ count.cmds <= count'.cmds
  BY <1>2, <1>3 DEF TypeInv, StoresOK, ListsOK, ClientsOK, CountsOK, CountState, recordVars, clientVars
<1> QED BY <1>1, <1>3, <1>4, <1>5, <1>6, <1>7, RecordTypes

LEMMA RecordTailTypes ==
    ASSUME TypeInv, NEW s \in Senders, RecordTail(s)
    PROVE  TypeInv' /\ RecordStep
<1> DEFINE t == task[s]
<1> PICK w \in BOOLEAN, ok \in BOOLEAN :
          /\ Save(w, ok, count)
          /\ record' = IF w THEN [record EXCEPT ![t.id][2] = t.n] ELSE record
          /\ IF ok THEN Goto(s, "compare") ELSE End(s)
  BY DEF RecordTail
<1>1. up = "on" /\ t.op = "tail" /\ t.op \in AddOps
  BY DEF RecordTail, At, AddOps
<1>2. UNCHANGED <<Sat_num, Sat, record_num, satVars, recordVars, up, clientVars>>
  BY DEF RecordTail
<1>3. CountsOK' /\ count'.cmds = count.cmds /\ SatFaults <= SatFaults'
  BY SaveFaults DEF TypeInv
<1>4. record' \in [Records -> RecordValues \X RecordValues]
  <2>1. t.id \in Records /\ t.n \in RecordValues /\ record[t.id] \in RecordValues \X RecordValues
    BY <1>1, WritesRecord
  <2> HIDE DEF t
  <2>2. [record[t.id] EXCEPT ![2] = t.n] \in RecordValues \X RecordValues
    BY <2>1
  <2> QED BY <2>1, <2>2 DEF TypeInv, StoresOK
<1>5. /\ TasksOK' /\ task'[s].op \in AddOps \cup {"idle"}
      /\ \A r \in Senders : r # s => task'[r] = task[r]
  <2>1. "compare" \in AddOps
    BY DEF AddOps
  <2>2. CASE ok
    BY <1>1, <2>1, <2>2, GotoAdd
  <2>3. CASE ~ok
    BY <2>3, EndFacts, IdleTyped DEF TypeInv
  <2> QED BY <2>2, <2>3
<1>6. {task[s].op, task'[s].op} \cap (SatOps \cup {"del"}) = {}
  BY <1>1, <1>5, RecordPlaces
<1>7. /\ UNCHANGED <<Sat_num, Sat, satVars, up, ackedSats>>
      /\ record_num' \in 0 .. RecMax + 1
      /\ record_Total_num' \in 0..RecMax /\ record_ID' \subseteq Records
      /\ ackedRecords' \subseteq RecordValues \ {0} /\ count.cmds <= count'.cmds
  BY <1>2, <1>3 DEF TypeInv, StoresOK, ListsOK, ClientsOK, CountsOK, CountState, recordVars, clientVars
<1> QED BY <1>1, <1>3, <1>4, <1>5, <1>6, <1>7, RecordTypes

LEMMA RecordCompareTypes ==
    ASSUME TypeInv, NEW s \in Senders, RecordCompare(s)
    PROVE  TypeInv' /\ RecordStep
<1>1. up = "on" /\ task[s].op = "compare" /\ task[s].op \in AddOps
  BY DEF RecordCompare, At, AddOps
<1>2. UNCHANGED <<eepromVars, satVars, record_Total_num, up, clientVars, count>>
  BY DEF RecordCompare
<1>3. /\ TasksOK' /\ task'[s].op \in AddOps \cup {"idle"}
      /\ \A r \in Senders : r # s => task'[r] = task[r]
      /\ record_ID' \subseteq Records
  <2>1. "number" \in AddOps
    BY DEF AddOps
  <2>2. CASE SameBytes(s) /\ record_ID' = record_ID \cup {task[s].id} /\ Goto(s, "number")
    BY <1>1, <2>1, <2>2, GotoAdd, WritesRecord DEF TypeInv, ListsOK
  <2>3. CASE End(s) /\ UNCHANGED record_ID
    BY <2>3, EndFacts, IdleTyped DEF TypeInv, ListsOK
  <2> QED BY <2>2, <2>3 DEF RecordCompare
<1>4. {task[s].op, task'[s].op} \cap (SatOps \cup {"del"}) = {}
  BY <1>1, <1>3, RecordPlaces
<1>5. /\ UNCHANGED <<Sat_num, Sat, satVars, up, ackedSats>>
      /\ record_num' \in 0 .. RecMax + 1 /\ record' \in [Records -> RecordValues \X RecordValues]
      /\ record_Total_num' \in 0..RecMax /\ ackedRecords' \subseteq RecordValues \ {0}
  BY <1>2 DEF TypeInv, StoresOK, ListsOK, ClientsOK, eepromVars, clientVars
<1>6. CountsOK' /\ count.cmds <= count'.cmds /\ SatFaults <= SatFaults'
  BY <1>2 DEF TypeInv, CountsOK, CountState, SatFaults
<1> QED BY <1>1, <1>3, <1>4, <1>5, <1>6, RecordTypes

LEMMA RecordNumberTypes ==
    ASSUME TypeInv, NEW s \in Senders, RecordNumber(s)
    PROVE  TypeInv' /\ RecordStep
<1>1. up = "on" /\ task[s].op = "number" /\ task[s].op \in AddOps /\ End(s)
  BY DEF RecordNumber, At, AddOps
<1>2. UNCHANGED <<Sat_num, Sat, record, satVars, record_ID, up, ackedSats, adjusted>>
  BY DEF RecordNumber
<1>3. task[s].n \in RecordValues \ {0} /\ task[s].num \in 0..RecMax
  BY <1>1, WritesRecord
<1>4. NewNumber(s) \in 0..RecMax /\ record_Total_num' = NewNumber(s)
  BY <1>3, ConstantFacts DEF RecordNumber, NewNumber
<1>5. /\ CountsOK' /\ count.cmds <= count'.cmds /\ SatFaults <= SatFaults'
      /\ record_num' \in 0 .. RecMax + 1
  <2>1. CASE \E w, ok \in BOOLEAN :
                Save(w, ok, count) /\ record_num' = (IF w THEN NewNumber(s) ELSE record_num)
    <3> PICK w \in BOOLEAN, ok \in BOOLEAN :
                Save(w, ok, count) /\ record_num' = (IF w THEN NewNumber(s) ELSE record_num)
      BY <2>1
    <3>1. CountsOK' /\ count'.cmds = count.cmds /\ SatFaults <= SatFaults'
      BY SaveFaults DEF TypeInv
    <3>2. record_num' \in 0 .. RecMax + 1
      BY <1>4, ConstantFacts DEF TypeInv, StoresOK
    <3> QED BY <3>1, <3>2 DEF TypeInv, CountsOK, CountState
  <2>2. CASE UNCHANGED <<record_num, count>>
    BY <2>2 DEF TypeInv, StoresOK, CountsOK, CountState, SatFaults
  <2> QED BY <2>1, <2>2 DEF RecordNumber
<1>6. TasksOK' /\ task'[s] = Idle /\ \A r \in Senders : r # s => task'[r] = task[r]
  BY <1>1, EndFacts DEF TypeInv
<1>7. {task[s].op, task'[s].op} \cap (SatOps \cup {"del"}) = {}
  BY <1>1, <1>6, IdleTyped, RecordPlaces
<1>8. /\ record' \in [Records -> RecordValues \X RecordValues]
      /\ record_Total_num' \in 0..RecMax /\ record_ID' \subseteq Records
      /\ ackedRecords' \subseteq RecordValues \ {0}
  BY <1>2, <1>3, <1>4 DEF TypeInv, StoresOK, ListsOK, ClientsOK, RecordNumber
<1> QED BY <1>1, <1>2, <1>5, <1>6, <1>7, <1>8, RecordTypes

LEMMA DelAntennaRecordTypes ==
    ASSUME TypeInv, NEW s \in Senders, NEW ids \in SUBSET Records, DelAntennaRecord(s, ids)
    PROVE  TypeInv' /\ RecordStep
<1> DEFINE t == [Idle EXCEPT !.op = "unlist", !.todo = ids]
<1>1. Begin(s, "delrec", t)
  BY DEF DelAntennaRecord
<1>2. t \in TaskState /\ t.op = "unlist" /\ t.todo = ids
  <2>1. "unlist" \in Ops /\ ids \in SUBSET Nat
    BY ConstantFacts DEF Ops
  <2> QED BY <2>1, IdleTyped, Zenon DEF TaskState
<1> HIDE DEF t
<1>3. Typed(s, t)
  BY <1>2 DEF Typed, SatOps, AddOps, ClearOps
<1>4. /\ CountsOK' /\ TasksOK' /\ up = "on" /\ task[s] = Idle /\ task'[s] = t
      /\ \A r \in Senders : r # s => task'[r] = task[r]
      /\ count.cmds + 1 = count'.cmds /\ SatFaults' = SatFaults
  BY <1>1, <1>3, BeginFacts DEF TypeInv, SatFaults
<1>5. UNCHANGED <<eepromVars, satVars, recordVars, up, ackedSats>> /\ ackedRecords' \subseteq ackedRecords
  BY DEF DelAntennaRecord
<1>6. count.cmds <= count'.cmds /\ SatFaults <= SatFaults'
  BY <1>4 DEF TypeInv, CountsOK, CountState, SatFaults
<1>7. {task[s].op, task'[s].op} \cap (SatOps \cup {"del"}) = {}
  BY <1>2, <1>4, IdleTyped DEF SatOps
<1>8. /\ UNCHANGED <<Sat_num, Sat, satVars, up, ackedSats>>
      /\ record_num' \in 0 .. RecMax + 1 /\ record' \in [Records -> RecordValues \X RecordValues]
      /\ record_Total_num' \in 0..RecMax /\ record_ID' \subseteq Records
      /\ ackedRecords' \subseteq RecordValues \ {0}
  BY <1>5 DEF TypeInv, StoresOK, ListsOK, ClientsOK, eepromVars, recordVars
<1> QED BY <1>4, <1>6, <1>7, <1>8, RecordTypes

LEMMA DelRecordTypes ==
    ASSUME TypeInv, NEW s \in Senders, NEW i \in Records, DelRecord(s, i)
    PROVE  TypeInv' /\ RecordStep
<1>1. up = "on" /\ task[s].op = "unlist" /\ UNCHANGED <<eepromVars, satVars, up, clientVars, count>>
  BY DEF DelRecord, At
<1>2. task[s] \in TaskState /\ task[s].todo \subseteq Records
  BY <1>1 DEF TypeInv, TasksOK, Typed
<1> DEFINE rest == task[s].todo \ {i}
           u == [task[s] EXCEPT !.op = "wipe", !.id = i, !.todo = rest]
           v == [task[s] EXCEPT !.todo = rest]
<1>3. rest \in SUBSET Nat /\ rest \subseteq Records /\ "wipe" \in Ops /\ i \in 0..MaxId
  BY <1>2, ConstantFacts DEF Ops
<1>4. u \in TaskState /\ u.op = "wipe" /\ u.id = i /\ u.todo = rest
  <2> HIDE DEF rest
  <2> QED BY <1>2, <1>3, Zenon DEF TaskState
<1>5. v \in TaskState /\ v.op = "unlist" /\ v.todo = rest
  <2> HIDE DEF rest
  <2> QED BY <1>1, <1>2, <1>3, Zenon DEF TaskState
<1>6. /\ task' = [task EXCEPT ![s] = u] \/ task' = [task EXCEPT ![s] = v]
      /\ record_ID' \subseteq record_ID
      /\ record_Total_num' \in {record_Total_num, Less(record_Total_num)}
  <2>1. task \in [Senders -> TaskState]
    BY DEF TypeInv, TasksOK
  <2>2. CASE /\ record_ID' = record_ID \ {i}
             /\ record_Total_num' = Less(record_Total_num)
             /\ task' = [task EXCEPT ![s].op = "wipe", ![s].id = i, ![s].todo = @ \ {i}]
    <3>1. task' = [task EXCEPT ![s] = u]
      BY <2>1, <2>2, Zenon
    <3> QED BY <2>2, <3>1
  <2>3. CASE task' = [task EXCEPT ![s].todo = @ \ {i}] /\ UNCHANGED recordVars
    BY <2>3 DEF recordVars
  <2> QED BY <2>2, <2>3 DEF DelRecord
<1> HIDE DEF u, v
<1>7. Typed(s, u) /\ Typed(s, v)
  <2>1. Typed(s, u)
    BY <1>3, <1>4 DEF Typed, SatOps, AddOps, ClearOps
  <2>2. Typed(s, v)
    BY <1>3, <1>5 DEF Typed, SatOps, AddOps, ClearOps
  <2> QED BY <2>1, <2>2
<1>8. TasksOK' /\ task'[s] \in {u, v} /\ \A r \in Senders : r # s => task'[r] = task[r]
  <2>1. CASE task' = [task EXCEPT ![s] = u]
    BY <1>7, <2>1, TaskSet DEF TypeInv
  <2>2. CASE task' = [task EXCEPT ![s] = v]
    BY <1>7, <2>2, TaskSet DEF TypeInv
  <2> QED BY <1>6, <2>1, <2>2
<1>9. {task[s].op, task'[s].op} \cap (SatOps \cup {"del"}) = {}
  BY <1>1, <1>4, <1>5, <1>8, RecordPlaces
<1>10. /\ UNCHANGED <<Sat_num, Sat, satVars, up, ackedSats>>
       /\ record_num' \in 0 .. RecMax + 1 /\ record' \in [Records -> RecordValues \X RecordValues]
       /\ ackedRecords' \subseteq RecordValues \ {0}
       /\ CountsOK' /\ count.cmds <= count'.cmds /\ SatFaults <= SatFaults'
  BY <1>1 DEF TypeInv, StoresOK, ClientsOK, CountsOK, CountState, SatFaults, eepromVars, clientVars
<1>11. record_Total_num' \in 0..RecMax /\ record_ID' \subseteq Records
  BY <1>6, ConstantFacts DEF TypeInv, ListsOK, Less
<1> QED BY <1>1, <1>8, <1>9, <1>10, <1>11, RecordTypes

LEMMA WipeRecordTypes ==
    ASSUME TypeInv, NEW s \in Senders, WipeRecord(s)
    PROVE  TypeInv' /\ RecordStep
<1> PICK w \in BOOLEAN, ok \in BOOLEAN :
          Save(w, ok, count) /\ record' = (IF w THEN [record EXCEPT ![task[s].id] = None] ELSE record)
  BY DEF WipeRecord
<1>1. up = "on" /\ task[s].op = "wipe" /\ Goto(s, "unlist")
  BY DEF WipeRecord, At
<1>2. UNCHANGED <<Sat_num, Sat, record_num, satVars, recordVars, up, clientVars>>
  BY DEF WipeRecord
<1>3. CountsOK' /\ count'.cmds = count.cmds /\ SatFaults <= SatFaults'
  BY SaveFaults DEF TypeInv
<1>4. task[s] \in TaskState /\ task[s].todo \subseteq Records
  BY <1>1 DEF TypeInv, TasksOK, Typed
<1>5. record' \in [Records -> RecordValues \X RecordValues]
  <2>1. None \in RecordValues \X RecordValues
    BY ConstantFacts DEF None, RecordValues
  <2> QED BY <2>1 DEF TypeInv, StoresOK
<1>6. /\ TasksOK' /\ task'[s].op = "unlist"
      /\ \A r \in Senders : r # s => task'[r] = task[r]
  <2> DEFINE u == [task[s] EXCEPT !.op = "unlist"]
  <2>1. "unlist" \in Ops
    BY DEF Ops
  <2>2. u \in TaskState /\ u.op = "unlist" /\ u.todo = task[s].todo
    BY <1>4, <2>1, Reop
  <2> HIDE DEF u
  <2>3. Typed(s, u)
    BY <1>4, <2>2 DEF Typed, SatOps, AddOps, ClearOps
  <2> QED BY <1>1, <2>1, <2>3, GotoFacts DEF u
<1>7. {task[s].op, task'[s].op} \cap (SatOps \cup {"del"}) = {}
  BY <1>1, <1>6 DEF SatOps
<1>8. /\ UNCHANGED <<Sat_num, Sat, satVars, up, ackedSats>>
      /\ record_num' \in 0 .. RecMax + 1
      /\ record_Total_num' \in 0..RecMax /\ record_ID' \subseteq Records
      /\ ackedRecords' \subseteq RecordValues \ {0} /\ count.cmds <= count'.cmds
  BY <1>2, <1>3 DEF TypeInv, StoresOK, ListsOK, ClientsOK, CountsOK, CountState, recordVars, clientVars
<1> QED BY <1>1, <1>3, <1>5, <1>6, <1>7, <1>8, RecordTypes

LEMMA DelRecordEndTypes ==
    ASSUME TypeInv, NEW s \in Senders, DelRecordEnd(s)
    PROVE  TypeInv' /\ RecordStep
<1>1. up = "on" /\ task[s].op = "unlist" /\ End(s)
  BY DEF DelRecordEnd, At
<1>2. UNCHANGED <<eepromVars, satVars, recordVars, up, clientVars, count>>
  BY DEF DelRecordEnd
<1>3. TasksOK' /\ task'[s] = Idle /\ \A r \in Senders : r # s => task'[r] = task[r]
  BY <1>1, EndFacts DEF TypeInv
<1>4. {task[s].op, task'[s].op} \cap (SatOps \cup {"del"}) = {}
  BY <1>1, <1>3, IdleTyped DEF SatOps
<1>5. /\ UNCHANGED <<Sat_num, Sat, satVars, up, ackedSats>>
      /\ record_num' \in 0 .. RecMax + 1 /\ record' \in [Records -> RecordValues \X RecordValues]
      /\ record_Total_num' \in 0..RecMax /\ record_ID' \subseteq Records
      /\ ackedRecords' \subseteq RecordValues \ {0}
      /\ CountsOK' /\ count.cmds <= count'.cmds /\ SatFaults <= SatFaults'
  BY <1>2 DEF TypeInv, StoresOK, ListsOK, ClientsOK, CountsOK, CountState, SatFaults, eepromVars,
        recordVars, clientVars
<1> QED BY <1>1, <1>3, <1>4, <1>5, RecordTypes

LEMMA AdjustTypes ==
    ASSUME TypeInv, NEW k, ClearRecords(k)
    PROVE  TypeInv' /\ RecordStep
<1> DEFINE t == [Idle EXCEPT !.op = "clear", !.todo = Records]
<1>1. Begin("pc", k, t)
  BY DEF ClearRecords
<1>2. t \in TaskState /\ t.op = "clear" /\ t.todo = Records
  <2>1. "clear" \in Ops /\ Records \in SUBSET Nat
    BY ConstantFacts DEF Ops, ClearOps
  <2> QED BY <2>1, IdleTyped, Zenon DEF TaskState
<1> HIDE DEF t
<1>3. Typed("pc", t)
  <2>1. 1 \in Records
    BY ConstantFacts DEF Records
  <2> QED BY <1>2, <2>1 DEF Typed, SatOps, AddOps, ClearOps
<1>4. /\ CountsOK' /\ TasksOK' /\ up = "on" /\ task["pc"] = Idle /\ task'["pc"] = t
      /\ \A r \in Senders : r # "pc" => task'[r] = task[r]
      /\ count.cmds + 1 = count'.cmds /\ SatFaults' = SatFaults
  BY <1>1, <1>3, BeginFacts, ConstantFacts DEF TypeInv, SatFaults
<1>5. /\ UNCHANGED <<eepromVars, satVars, up, ackedSats>> /\ ackedRecords' = {}
      /\ record_ID' = {} /\ record_Total_num' = 0
  BY DEF ClearRecords
<1>6. count.cmds <= count'.cmds /\ SatFaults <= SatFaults'
  BY <1>4 DEF TypeInv, CountsOK, CountState, SatFaults
<1>7. {task["pc"].op, task'["pc"].op} \cap (SatOps \cup {"del"}) = {}
  BY <1>2, <1>4, IdleTyped DEF SatOps
<1>8. /\ UNCHANGED <<Sat_num, Sat, satVars, up, ackedSats>>
      /\ record_num' \in 0 .. RecMax + 1 /\ record' \in [Records -> RecordValues \X RecordValues]
      /\ record_Total_num' \in 0..RecMax /\ record_ID' \subseteq Records
      /\ ackedRecords' \subseteq RecordValues \ {0}
  BY <1>5, ConstantFacts DEF TypeInv, StoresOK, eepromVars
<1> QED BY <1>4, <1>6, <1>7, <1>8, RecordTypes, ConstantFacts

(* A failed adjustment costs a command and a save. *)
LEMMA AdjustFailsTypes ==
    ASSUME TypeInv, AntennaParamAdjustFails
    PROVE  /\ TypeInv' /\ RecordStep /\ task' = task
           /\ UNCHANGED <<record_num, record, recordVars, up, ackedRecords>>
           /\ count'.overlaps = count.overlaps /\ count'.misreads = count.misreads
<1> DEFINE c == [count EXCEPT !.cmds = count.cmds + 1]
<1> PICK w \in BOOLEAN : Save(w, FALSE, c)
  BY DEF AntennaParamAdjustFails
<1>1. /\ count.cmds < MaxCmds /\ up = "on" /\ task["pc"] = Idle
      /\ UNCHANGED <<eepromVars, satVars, recordVars, up, task, ackedSats, ackedRecords>>
  BY DEF AntennaParamAdjustFails
<1>2. count.cmds + 1 \in Nat /\ count.cmds + 1 <= MaxCmds
  BY <1>1, ConstantFacts DEF TypeInv, CountsOK, CountState
<1>3. /\ c \in CountState /\ c.cmds = count.cmds + 1 /\ c.torn = count.torn /\ c.fails = count.fails
      /\ c.misreads = count.misreads /\ c.stale = count.stale /\ c.overlaps = count.overlaps
      /\ c.blind = count.blind
  BY <1>2, Zenon DEF TypeInv, CountsOK, CountState
<1> HIDE DEF c
<1>4. /\ count' \in CountState /\ count'.cmds = c.cmds /\ count'.torn = c.torn
      /\ count'.misreads = c.misreads /\ count'.stale = c.stale /\ count'.fails = c.fails + 1
      /\ count'.overlaps = c.overlaps /\ count'.blind = c.blind
  BY <1>3, SaveCounts
<1>5. CountsOK'
  BY <1>2, <1>3, <1>4 DEF CountsOK
<1>6. count.cmds <= count'.cmds /\ SatFaults <= SatFaults'
  BY <1>3, <1>4 DEF SatFaults, TypeInv, CountsOK, CountState
<1>7. /\ StoresOK' /\ ListsOK' /\ ClientsOK' /\ TasksOK' /\ RoomLeft'
      /\ UNCHANGED <<Sat_num, Sat, Sat_Total_num, Sat_ID, ackedSats, up, task>>
      /\ UNCHANGED <<record_num, record, recordVars, up, ackedRecords>>
  BY <1>1 DEF TypeInv, StoresOK, ListsOK, ClientsOK, TasksOK, RoomLeft, Pc, eepromVars, satVars, recordVars
<1>8. Pc' = Pc
  BY <1>7 DEF Pc
<1> QED BY <1>1, <1>3, <1>4, <1>5, <1>6, <1>7, <1>8 DEF TypeInv, RecordStep

LEMMA ClearNumberTypes ==
    ASSUME TypeInv, ClearNumber
    PROVE  TypeInv' /\ RecordStep
<1> PICK w \in BOOLEAN, ok \in BOOLEAN :
          Save(w, ok, count) /\ record_num' = (IF w THEN 0 ELSE record_num)
  BY DEF ClearNumber
<1>1. up = "on" /\ task["pc"].op = "clear" /\ Goto("pc", "clearall")
  BY DEF ClearNumber, At
<1>2. UNCHANGED <<Sat_num, Sat, record, satVars, recordVars, up, clientVars>>
  BY DEF ClearNumber
<1>3. CountsOK' /\ count'.cmds = count.cmds /\ SatFaults <= SatFaults'
  BY SaveFaults DEF TypeInv
<1>4. task["pc"] \in TaskState /\ task["pc"].todo \subseteq Records /\ task["pc"].todo # {}
  BY <1>1, ConstantFacts DEF TypeInv, TasksOK, Typed, ClearOps
<1>5. /\ TasksOK' /\ task'["pc"].op = "clearall"
      /\ \A r \in Senders : r # "pc" => task'[r] = task[r]
  <2> DEFINE u == [task["pc"] EXCEPT !.op = "clearall"]
  <2>1. "clearall" \in Ops
    BY DEF Ops, ClearOps
  <2>2. u \in TaskState /\ u.op = "clearall" /\ u.todo = task["pc"].todo
    BY <1>4, <2>1, Reop
  <2> HIDE DEF u
  <2>3. Typed("pc", u)
    BY <1>4, <2>2 DEF Typed, SatOps, AddOps, ClearOps
  <2> QED BY <1>1, <2>1, <2>3, GotoFacts, ConstantFacts DEF u
<1>6. {task["pc"].op, task'["pc"].op} \cap (SatOps \cup {"del"}) = {}
  BY <1>1, <1>5 DEF SatOps
<1>7. /\ UNCHANGED <<Sat_num, Sat, satVars, up, ackedSats>>
      /\ record_num' \in 0 .. RecMax + 1 /\ record' \in [Records -> RecordValues \X RecordValues]
      /\ record_Total_num' \in 0..RecMax /\ record_ID' \subseteq Records
      /\ ackedRecords' \subseteq RecordValues \ {0} /\ count.cmds <= count'.cmds
  BY <1>2, <1>3, ConstantFacts DEF TypeInv, StoresOK, ListsOK, ClientsOK, CountsOK, CountState,
        recordVars, clientVars
<1> QED BY <1>1, <1>3, <1>5, <1>6, <1>7, RecordTypes, ConstantFacts

LEMMA ClearRecordTypes ==
    ASSUME TypeInv, ClearRecord
    PROVE  TypeInv' /\ RecordStep
<1> DEFINE i == Min(task["pc"].todo)
<1> PICK w \in BOOLEAN, ok \in BOOLEAN :
          /\ Save(w, ok, count)
          /\ record' = IF w THEN [record EXCEPT ![i] = None] ELSE record
          /\ IF task["pc"].todo = {i} THEN End("pc")
             ELSE task' = [task EXCEPT !["pc"].todo = @ \ {i}]
  BY DEF ClearRecord
<1>1. up = "on" /\ task["pc"].op = "clearall"
  BY DEF ClearRecord, At
<1>2. UNCHANGED <<Sat_num, Sat, record_num, satVars, recordVars, up, clientVars>>
  BY DEF ClearRecord
<1>3. CountsOK' /\ count'.cmds = count.cmds /\ SatFaults <= SatFaults'
  BY SaveFaults DEF TypeInv
<1>4. task["pc"] \in TaskState /\ task["pc"].todo \subseteq Records /\ task["pc"].todo # {}
  BY <1>1, ConstantFacts DEF TypeInv, TasksOK, Typed, ClearOps
<1>5. record' \in [Records -> RecordValues \X RecordValues]
  <2>1. None \in RecordValues \X RecordValues
    BY ConstantFacts DEF None, RecordValues
  <2> QED BY <2>1 DEF TypeInv, StoresOK
<1> HIDE DEF i
<1>6. /\ TasksOK' /\ task'["pc"].op \in {"idle", "clearall"}
      /\ \A r \in Senders : r # "pc" => task'[r] = task[r]
  <2>1. CASE task["pc"].todo = {i}
    BY <2>1, EndFacts, IdleTyped, ConstantFacts DEF TypeInv
  <2>2. CASE task["pc"].todo # {i}
    <3> DEFINE S == task["pc"].todo \ {i}
               u == [task["pc"] EXCEPT !.todo = S]
    <3>1. S \in SUBSET Nat /\ S \subseteq Records /\ S # {}
      BY <1>4, <2>2, ConstantFacts
    <3>2. task' = [task EXCEPT !["pc"] = u]
      BY <2>2
    <3>3. u \in TaskState /\ u.op = "clearall" /\ u.todo = S
      <4> HIDE DEF S
      <4> QED BY <1>1, <1>4, <3>1, Zenon DEF TaskState
    <3> HIDE DEF u
    <3>4. Typed("pc", u)
      BY <3>1, <3>3 DEF Typed, SatOps, AddOps, ClearOps
    <3> QED BY <3>2, <3>3, <3>4, TaskSet, ConstantFacts DEF TypeInv
  <2> QED BY <2>1, <2>2
<1>7. {task["pc"].op, task'["pc"].op} \cap (SatOps \cup {"del"}) = {}
  BY <1>1, <1>6 DEF SatOps
<1>8. /\ UNCHANGED <<Sat_num, Sat, satVars, up, ackedSats>>
      /\ record_num' \in 0 .. RecMax + 1
      /\ record_Total_num' \in 0..RecMax /\ record_ID' \subseteq Records
      /\ ackedRecords' \subseteq RecordValues \ {0} /\ count.cmds <= count'.cmds
  BY <1>2, <1>3 DEF TypeInv, StoresOK, ListsOK, ClientsOK, CountsOK, CountState, recordVars, clientVars
<1> QED BY <1>1, <1>3, <1>5, <1>6, <1>7, <1>8, RecordTypes, ConstantFacts

(* The steps that are about antenna records. *)
RecordCommand ==
    \/ \E s \in Senders :
          \/ AntennaRecord(s) \/ RecordHead(s) \/ RecordTail(s) \/ RecordCompare(s) \/ RecordNumber(s)
          \/ \E ids \in SUBSET Records \ {{}} : DelAntennaRecord(s, ids)
          \/ \E i \in Records : DelRecord(s, i)
          \/ WipeRecord(s) \/ DelRecordEnd(s)
    \/ AntennaParamAdjust \/ AntennaParamAdjustFails \/ AntennaParamSet
    \/ ClearNumber \/ ClearRecord

LEMMA RecordCommandTypes ==
    ASSUME TypeInv, RecordCommand
    PROVE  TypeInv' /\ RecordStep
<1>1. CASE \E s \in Senders :
          \/ AntennaRecord(s) \/ RecordHead(s) \/ RecordTail(s) \/ RecordCompare(s) \/ RecordNumber(s)
          \/ \E ids \in SUBSET Records \ {{}} : DelAntennaRecord(s, ids)
          \/ \E i \in Records : DelRecord(s, i)
          \/ WipeRecord(s) \/ DelRecordEnd(s)
  BY <1>1, AntennaRecordTypes, RecordHeadTypes, RecordTailTypes, RecordCompareTypes, RecordNumberTypes,
     DelAntennaRecordTypes, DelRecordTypes, WipeRecordTypes, DelRecordEndTypes
<1>2. CASE AntennaParamAdjust \/ AntennaParamSet
  BY <1>2, AdjustTypes DEF AntennaParamAdjust, AntennaParamSet
<1>3. CASE AntennaParamAdjustFails \/ ClearNumber \/ ClearRecord
  BY <1>3, AdjustFailsTypes, ClearNumberTypes, ClearRecordTypes
<1> QED BY <1>1, <1>2, <1>3 DEF RecordCommand

(* The types hold at the start. *)
LEMMA InitTypes == Init => TypeInv
<1> SUFFICES ASSUME Init PROVE TypeInv
  OBVIOUS
<1> PICK S \in IF "sat" \in kinds THEN SUBSET Sats ELSE {{}} :
        /\ Sat = [i \in Sats |-> IF i \in S THEN i ELSE 0]
        /\ Sat_num \in {Cardinality(S)} \cup (IF S = {} THEN {SatMax + 1} ELSE {})
        /\ ackedSats = S
  BY DEF Init
<1> PICK R \in IF "rec" \in kinds THEN SUBSET Records ELSE {{}} :
        /\ record = [i \in Records |-> IF i \in R THEN Whole(i) ELSE None]
        /\ record_num \in {Cardinality(R)} \cup (IF R = {} THEN {RecMax + 1} ELSE {})
        /\ ackedRecords = R
  BY DEF Init
<1>1. S \subseteq Sats /\ R \subseteq Records
  OBVIOUS
<1>2. Cardinality(S) \in 0..SatMax /\ Cardinality(R) \in 0..RecMax
  BY <1>1, IdsFinite
<1>3. Sats \subseteq SatValues \ {0} /\ Records \subseteq RecordValues \ {0}
      /\ 0 \in SatValues /\ 0 \in RecordValues
  BY ConstantFacts DEF Sats, Records, SatValues, RecordValues
<1>4. Sat \in [Sats -> SatValues] /\ record \in [Records -> RecordValues \X RecordValues]
  <2>1. Sat \in [Sats -> SatValues]
    BY <1>3
  <2>2. \A i \in Records : Whole(i) \in RecordValues \X RecordValues /\ None \in RecordValues \X RecordValues
    BY <1>3 DEF Whole, None
  <2>3. record \in [Records -> RecordValues \X RecordValues]
    BY <2>2
  <2> QED BY <2>1, <2>3
<1>5. StoresOK
  BY <1>2, <1>4, ConstantFacts DEF StoresOK
<1>6. ListsOK /\ up = "sats"
  BY ConstantFacts DEF Init, ListsOK
<1>7. ClientsOK
  BY <1>1, <1>3, <1>4 DEF ClientsOK
<1>8. CountsOK
  BY ConstantFacts DEF Init, CountsOK, CountState
<1>9. task = [s \in Senders |-> Idle]
  BY DEF Init
<1>10. TasksOK /\ RoomLeft /\ \A s \in Senders : task[s] = Idle
  BY <1>9, IdleTyped, ConstantFacts DEF TasksOK, RoomLeft, Pc
<1> QED BY <1>5, <1>6, <1>7, <1>8, <1>10 DEF TypeInv

(* Every step keeps the types. *)
LEMMA NextTypes == TypeInv /\ [Next]_paramVars => TypeInv'
<1> SUFFICES ASSUME TypeInv, [Next]_paramVars PROVE TypeInv'
  OBVIOUS
<1>1. CASE UNCHANGED paramVars
  BY <1>1 DEF paramVars, eepromVars, satVars, recordVars, clientVars, TypeInv, StoresOK, ListsOK,
     ClientsOK, CountsOK, TasksOK, RoomLeft, Pc
<1>2. CASE Crash \/ InitSats \/ InitSatsBlind \/ InitRecords
  BY <1>2, CrashTypes, InitSatsTypes, InitSatsBlindTypes, InitRecordsTypes
<1>3. CASE SatAdd \/ SatSave \/ SatCount \/ SatListed \/ DelSatCount
  BY <1>3, SatAddTypes, SatSaveTypes, SatCountTypes, SatListedTypes, DelSatCountTypes
<1>4. CASE \E i \in Sats : SatModify(i) \/ DelSat(i)
  BY <1>4, SatModifyTypes, DelSatTypes
<1>5. CASE \E ids \in SUBSET Sats \ {{}} : DelSatSet(ids)
  BY <1>5, DelSatSetTypes
<1>6. CASE RecordCommand
  BY <1>6, RecordCommandTypes
<1> QED BY <1>1, <1>2, <1>3, <1>4, <1>5, <1>6, Zenon DEF Next, Step, RecordCommand

(* The starts that could not read the number of satellites, and the        *)
(* changes that came for satellites not listed, are not forgotten.         *)
LEMMA CountsStay ==
    ASSUME TypeInv, [Next]_paramVars
    PROVE  count.blind <= count'.blind /\ count.stale <= count'.stale
<1>0. count \in CountState /\ count.blind \in Nat /\ count.stale \in Nat
  BY DEF TypeInv, CountsOK, CountState
<1>1. ASSUME NEW w \in BOOLEAN, NEW ok \in BOOLEAN, Save(w, ok, count)
      PROVE  count.blind <= count'.blind /\ count.stale <= count'.stale
  BY <1>0, <1>1, SaveCounts
<1>2. ASSUME NEW s, NEW k, NEW t, NEW stale \in Nat, BeginCounting(s, k, t, stale)
      PROVE  count.blind <= count'.blind /\ count.stale <= count'.stale
  <2> DEFINE o == IF \E r \in Senders : task[r] # Idle THEN 1 ELSE 0
  <2>1. count' = [count EXCEPT !.cmds = count.cmds + 1, !.overlaps = count.overlaps + o,
                               !.stale = count.stale + stale]
    BY <1>2 DEF BeginCounting
  <2>2. count'.blind = count.blind /\ count'.stale = count.stale + stale
    BY <1>0, <2>1, Zenon DEF CountState
  <2> QED BY <1>0, <2>2
<1>3. ASSUME NEW s, NEW k, NEW t, Begin(s, k, t)
      PROVE  count.blind <= count'.blind /\ count.stale <= count'.stale
  BY <1>2, <1>3 DEF Begin
<1>4. ASSUME NEW bad, bad \subseteq Sats \/ bad \subseteq Records, NEW w \in BOOLEAN, NEW ok \in BOOLEAN,
             Save(w, ok, Misread(bad)) \/ count' = Misread(bad)
      PROVE  count.blind <= count'.blind /\ count.stale <= count'.stale
  <2>1. Cardinality(bad) \in Nat
    BY <1>4, IdsFinite
  <2>2. Misread(bad) \in CountState /\ Misread(bad).blind = count.blind /\ Misread(bad).stale = count.stale
    BY <2>1, MisreadCounts DEF TypeInv
  <2> QED BY <1>0, <1>4, <2>2, SaveCounts
<1>5. CASE UNCHANGED paramVars
  BY <1>0, <1>5 DEF paramVars
<1>6. CASE Crash
  <2> DEFINE o == IF \E s \in Senders : task[s] # Idle THEN 1 ELSE 0
  <2>1. count' = [count EXCEPT !.restarts = count.restarts + 1, !.torn = count.torn + o]
    BY <1>6 DEF Crash
  <2>2. count'.blind = count.blind /\ count'.stale = count.stale
    BY <1>0, <2>1, Zenon DEF CountState
  <2> QED BY <1>0, <2>2
<1>7. CASE InitSats
  <2>1. \A bad \in SUBSET Stored : bad \subseteq Sats
    BY DEF Stored
  <2> QED BY <1>4, <1>7, <2>1 DEF InitSats
<1>8. CASE InitRecords
  <2>1. \A bad \in SUBSET StoredRecords : bad \subseteq Records
    BY DEF StoredRecords
  <2> QED BY <1>4, <1>8, <2>1 DEF InitRecords
<1>9. CASE InitSatsBlind
  <2>1. count' = [count EXCEPT !.blind = count.blind + 1]
    BY <1>9 DEF InitSatsBlind
  <2>2. count'.blind = count.blind + 1 /\ count'.stale = count.stale
    BY <1>0, <2>1, Zenon DEF CountState
  <2> QED BY <1>0, <2>2
<1>10. CASE SatAdd \/ (\E i \in Sats : SatModify(i)) \/ (\E ids \in SUBSET Sats \ {{}} : DelSatSet(ids))
  <2>1. ASSUME NEW id \in Sats, SatModify(id)
        PROVE  count.blind <= count'.blind /\ count.stale <= count'.stale
    <3>1. (IF id \in Sat_ID THEN 0 ELSE 1) \in Nat
      OBVIOUS
    <3> QED BY <1>2, <2>1, <3>1, Zenon DEF SatModify
  <2> QED BY <1>0, <1>3, <1>10, <2>1 DEF SatAdd, DelSatSet
<1>11. CASE SatSave \/ SatCount \/ SatListed \/ DelSatCount \/ \E i \in Sats : DelSat(i)
  BY <1>0, <1>1, <1>11 DEF SatSave, SatCount, SatListed, DelSatCount, DelSat
<1>12. CASE \E s \in Senders :
               \/ AntennaRecord(s)
               \/ \E ids \in SUBSET Records \ {{}} : DelAntennaRecord(s, ids)
  BY <1>3, <1>12 DEF AntennaRecord, DelAntennaRecord
<1>13. CASE \E s \in Senders :
               \/ RecordHead(s) \/ RecordTail(s) \/ RecordCompare(s) \/ RecordNumber(s)
               \/ \E i \in Records : DelRecord(s, i)
               \/ WipeRecord(s) \/ DelRecordEnd(s)
  <2>1. count' = count => count.blind <= count'.blind /\ count.stale <= count'.stale
    BY <1>0
  <2>2. ASSUME NEW s \in Senders, RecordHead(s) \/ RecordTail(s) \/ RecordCompare(s) \/ RecordNumber(s)
        PROVE  count.blind <= count'.blind /\ count.stale <= count'.stale
    BY <1>1, <2>1, <2>2, Zenon DEF RecordHead, RecordTail, RecordCompare, RecordNumber
  <2>3. ASSUME NEW s \in Senders, (\E i \in Records : DelRecord(s, i)) \/ WipeRecord(s) \/ DelRecordEnd(s)
        PROVE  count.blind <= count'.blind /\ count.stale <= count'.stale
    BY <1>1, <2>1, <2>3, Zenon DEF DelRecord, WipeRecord, DelRecordEnd
  <2> QED BY <1>13, <2>2, <2>3
<1>14. CASE AntennaParamAdjust \/ AntennaParamSet \/ ClearNumber \/ ClearRecord
  BY <1>1, <1>3, <1>14 DEF AntennaParamAdjust, AntennaParamSet, ClearRecords, ClearNumber, ClearRecord
<1>15. CASE AntennaParamAdjustFails
  <2> DEFINE c == [count EXCEPT !.cmds = count.cmds + 1]
  <2>1. PICK w \in BOOLEAN : Save(w, FALSE, c)
    BY <1>15 DEF AntennaParamAdjustFails
  <2>2. count.cmds + 1 \in Nat
    BY <1>0 DEF CountState
  <2>3. c \in CountState /\ c.blind = count.blind /\ c.stale = count.stale
    BY <1>0, <2>2, Zenon DEF CountState
  <2> HIDE DEF c
  <2>4. count'.blind = c.blind /\ count'.stale = c.stale
    BY <2>1, <2>3, SaveCounts
  <2> QED BY <1>0, <2>3, <2>4
<1> QED BY <1>5, <1>6, <1>7, <1>8, <1>9, <1>10, <1>11, <1>12, <1>13, <1>14, <1>15, Zenon DEF Next, Step

(* The numbers and ids are within their lists, whatever fails and however  *)
(* the commands of the two senders overlap: a number of satellites that    *)
(* lost count does not pass below 0 (DelSat), nor an id its list.          *)
THEOREM StoreTypeCorrect == Spec => []TypeOK
<1>1. Init => TypeInv
  BY InitTypes
<1>2. TypeInv /\ [Next]_paramVars => TypeInv'
  BY NextTypes
<1>3. TypeInv => TypeOK
  <2> SUFFICES ASSUME TypeInv PROVE TypeOK
    OBVIOUS
  <2>1. \A s \in Senders : task[s].id \in 0..MaxId
    BY TaskFields DEF TypeInv, TasksOK
  <2> QED BY <2>1 DEF TypeInv, TypeOK, StoresOK, ListsOK, ClientsOK, SatValues, RecordValues, MaxId
<1> QED BY <1>1, <1>2, <1>3, PTL DEF Spec
=============================================================================
