------------------------------ MODULE FlashLog ------------------------------
(***************************************************************************)
(* The operation log and the warning log in the SPI flash                  *)
(* (APP/src/app_log.c, HW/ic_n25q128.c): saving a record, the search       *)
(* of the newest one at power up, the repair of a torn information area,   *)
(* and the query that walks back through the records                       *)
(* (APP/src/app_pccomm.c).                                                 *)
(*                                                                         *)
(* Each log has an information area, a sequence of slots that tell the     *)
(* number of records and where the newest one is, and a data area.  Every  *)
(* record points to the one before it.  Nothing but the areas' bounds      *)
(* keeps the two logs apart.  The flash is a function from the addresses   *)
(* that are not blank to cells: an information slot (32 bytes) is one      *)
(* cell, a record is one or more, SectorSize cells are erased together     *)
(* (4096 bytes).                                                           *)
(*                                                                         *)
(* Power may fail at every step; a write or an erasure that was under way  *)
(* is then done, not begun, or torn.  A write may also be found wrong by   *)
(* the comparison that follows it.  Records of a page are programmed in    *)
(* the order of their addresses unless TornSlots says otherwise.           *)
(***************************************************************************)
EXTENDS Integers, Sequences, FiniteSets, SequencesExt

CONSTANTS
    SectorSize,     \* cells of one sector (SPI_FLASH_SectorSize)
    InfoSectors,    \* sectors of each information area (250)
    DataSectors,    \* sectors of each data area (500)
    Sizes,          \* sizes of a record, in cells (len+26 bytes)
    TornSlots,      \* what a torn slot reads as: "torn" (its head is there),
                    \* "headless" (its head is blank, its tail is not)
    BadAreas,       \* areas whose writes may be found wrong: "data", "info"
    MaxSaves,       \* bound: saves begun
    MaxCrashes,     \* bound: power failures
    BootCrashes,    \* bound: power failures while the program starts
    MaxBad,         \* bound: writes found wrong
    MaxTimeouts     \* bound: saves that do not get Log_Sem in a second

ASSUME FlashLogAssumption ==
    /\ {SectorSize, InfoSectors, DataSectors} \subseteq Nat \ {0}
    /\ Sizes \subseteq 1..SectorSize
    /\ Sizes # {}
    /\ TornSlots \subseteq {"torn", "headless"}
    /\ BadAreas \subseteq {"data", "info"}
    /\ {MaxSaves, MaxCrashes, BootCrashes, MaxBad, MaxTimeouts} \subseteq Nat

VARIABLES
    flash,          \* the cells that are not blank
    info,           \* OptLogInfo and WarnLogInfo
    comm_stat,      \* SPIFlashInfo.comm_stat: 0 linked, 1 given up
    Log_Err_cnt,    \* saves in a row that failed
    boot,           \* the program: "off", in APP_LOG_Init, or "on"
    save,           \* the save that holds Log_Sem: its place and its locals
    acked,          \* records whose save returned SUCC
    begun,          \* saves begun so far, the code of the last one
    faults          \* faults so far

flashVars == <<flash, info, comm_stat, Log_Err_cnt, boot, save, acked, begun, faults>>

Logs == {"opt", "warn"}

Codes == 1..MaxSaves

(* The four areas lie one behind the other. *)
LogBegin(l) == IF l = "opt" THEN 0 ELSE (InfoSectors + DataSectors) * SectorSize
InfoBegin(l) == LogBegin(l)
InfoEnd(l) == LogBegin(l) + InfoSectors * SectorSize
DataBegin(l) == InfoEnd(l)
DataEnd(l) == DataBegin(l) + DataSectors * SectorSize

(* The chip goes on behind the areas. *)
Addresses == 0 .. DataEnd("warn") + 2 * SectorSize - 1

(* A cell: an information slot (k = "info") tells the number of records    *)
(* and of the newest its number, address and size; the first cell of a     *)
(* record (k = "log") its number, code and size and where the one before   *)
(* it is.                                                                  *)
Cell(k) == [k |-> k, total |-> 0, n |-> 0, c |-> 0, addr |-> 0, size |-> 0, len |-> 0]

(* How the cell at address a reads. *)
Kind(f, a) == IF a \in DOMAIN f THEN f[a].k ELSE "blank"

InfoSlot(i) ==
    [Cell("info") EXCEPT !.total = i.total, !.n = i.n, !.addr = i.addr, !.size = i.size]

Record(s, i) ==
    [Cell("log") EXCEPT !.n = s.n, !.c = s.c, !.len = s.size, !.addr = i.addr, !.size = i.size]

NoInfo == [total |-> 0, n |-> 0, addr |-> 0, size |-> 0, sys |-> 0]

NoSave == [pc |-> "idle", l |-> "opt", size |-> 0, addr |-> 0, n |-> 0, c |-> 0,
           slot |-> 0, ok |-> FALSE]

NoFaults == [crash |-> 0, boot |-> 0, bad |-> 0, timeout |-> 0]

Init ==
    /\ flash = <<>>
    /\ info = [l \in Logs |-> NoInfo]
    /\ comm_stat = 0
    /\ Log_Err_cnt = 0
    /\ boot = [pc |-> "off", l |-> "opt", try |-> 0]
    /\ save = NoSave
    /\ acked = [l \in Logs |-> {}]
    /\ begun = 0
    /\ faults = NoFaults
-----------------------------------------------------------------------------
(* The flash.                                                              *)

Sector(a) == a \div SectorSize

Span(a, n) == a .. a + n - 1

AllBlank(f, a, n) == Span(a, n) \cap DOMAIN f = {}

(* MICRON_FLASH_B3SubSectorErase. *)
Erased(f, a) == Restrict(f, {x \in DOMAIN f : Sector(x) # Sector(a)})

(* Cells that fill n addresses from a on: the first one is given. *)
Filled(f, a, n, first) ==
    [x \in DOMAIN f \cup Span(a, n) |->
        CASE x = a -> first
          [] x \in Span(a + 1, n - 1) -> Cell("body")
          [] OTHER -> f[x]]

(* A write or an erasure that is only begun. *)
Spoilt(f, a, n, k) ==
    [x \in DOMAIN f \cup Span(a, n) |-> IF x \in Span(a, n) THEN Cell(k) ELSE f[x]]

(* The bits of a number, as powers of two. *)
Bits(n) == {b \in {2^i : i \in 0..30} \cap 1..n : (n \div b) % 2 = 1}

(* The number that has the bits that both have. *)
BothBits(m, n) == Max({k \in 0..m : Bits(k) \subseteq Bits(m) \cap Bits(n)})

(* Bits can only be cleared: a slot written over a slot keeps its head and *)
(* tail and the bits that both have; anything else is neither the old      *)
(* contents nor the new ones.                                              *)
Overwritten(f, a, n, first) ==
    IF n = 1 /\ Kind(f, a) = "info" /\ first.k = "info"
    THEN [f EXCEPT ![a].total = BothBits(@, first.total), ![a].n = BothBits(@, first.n),
                   ![a].addr = BothBits(@, first.addr), ![a].size = BothBits(@, first.size)]
    ELSE Spoilt(f, a, n, "torn")

(* MICRON_FLASH_B3WriteDataBuff writes and compares. *)
WriteDataBuff(area, a, n, first, ok) ==
    \/ /\ AllBlank(flash, a, n)
       /\ ok
       /\ flash' = Filled(flash, a, n, first)
       /\ UNCHANGED faults
    \/ /\ AllBlank(flash, a, n)
       /\ area \in BadAreas
       /\ faults.bad < MaxBad
       /\ ~ok
       /\ flash' = Spoilt(flash, a, n, "torn")
       /\ faults' = [faults EXCEPT !.bad = @ + 1]
    \/ /\ ~AllBlank(flash, a, n)
       /\ flash' = Overwritten(flash, a, n, first)
       /\ ok = (flash'[a] = first)
       /\ UNCHANGED faults
-----------------------------------------------------------------------------
(* Power up: APP_LOG_Init.                                                 *)

(* The slots of log l that are in use, counted from the beginning. *)
GoodSlots(f, l) ==
    LET slots == InfoBegin(l) .. InfoEnd(l) - 1
        good == {a \in slots : \A x \in InfoBegin(l)..a : Kind(f, x) = "info"}
    IN Cardinality(good)

(* What the scan of the slots finds: the last one in use, or an empty log. *)
(* An empty log has the first values of lines 182 to 189, also in the slot *)
(* that a repair writes for it: the code stores zeros there, and its next  *)
(* start takes these values for a total of 0.                              *)
Found(f, l) ==
    IF GoodSlots(f, l) = 0
    THEN [total |-> 0, n |-> 1, addr |-> DataBegin(l), size |-> 0, sys |-> InfoBegin(l)]
    ELSE LET a == InfoBegin(l) + GoodSlots(f, l) - 1
         IN [total |-> f[a].total, n |-> f[a].n, addr |-> f[a].addr, size |-> f[a].size,
             sys |-> a]

(* Faulty variant of NeedsRepair: an unused slot is taken for a torn one. *)
NeedsRepair_Unused(f, l) ==
    /\ InfoBegin(l) + GoodSlots(f, l) < InfoEnd(l)
    /\ Kind(f, InfoBegin(l) + GoodSlots(f, l)) # "headless"

(* The scan ended at a slot whose head is neither good nor blank. *)
NeedsRepair(f, l) ==
    /\ InfoBegin(l) + GoodSlots(f, l) < InfoEnd(l)
    /\ Kind(f, InfoBegin(l) + GoodSlots(f, l)) \notin {"blank", "headless"}

(* On to the second log, or to the end of the start. *)
BootNext(b) ==
    IF b.l = "opt" THEN [pc |-> "scan", l |-> "warn", try |-> 0]
                   ELSE [pc |-> "on", l |-> "opt", try |-> 0]

PowerUp ==
    /\ boot.pc = "off"
    /\ boot' = [pc |-> "scan", l |-> "opt", try |-> 0]
    /\ UNCHANGED <<flash, info, comm_stat, Log_Err_cnt, save, acked, begun, faults>>

Scan ==
    /\ boot.pc = "scan"
    /\ info' = [info EXCEPT ![boot.l] = Found(flash, boot.l)]
    /\ boot' = IF NeedsRepair(flash, boot.l) THEN [boot EXCEPT !.pc = "erase"]
                                             ELSE BootNext(boot)
    /\ UNCHANGED <<flash, comm_stat, Log_Err_cnt, save, acked, begun, faults>>

(* The repair: the first sector of the area is erased ... *)
RepairErase ==
    /\ boot.pc = "erase"
    /\ flash' = Erased(flash, InfoBegin(boot.l))
    /\ boot' = [boot EXCEPT !.pc = "write"]
    /\ UNCHANGED <<info, comm_stat, Log_Err_cnt, save, acked, begun, faults>>

(* Faulty variant of RepairSlot: the slot behind the first is written. *)
RepairSlot_Second(l) == InfoBegin(l) + 1

(* The slot that takes what the scan found. *)
RepairSlot(l) == InfoBegin(l)

(* ... and its first slot takes what the scan had found; then the MCU is   *)
(* reset.  The second failure gives the flash up.                          *)
RepairWrite ==
    /\ boot.pc = "write"
    /\ \E ok \in BOOLEAN :
         /\ WriteDataBuff("info", RepairSlot(boot.l), 1, InfoSlot(info[boot.l]), ok)
         /\ boot' = IF ok THEN [pc |-> "off", l |-> "opt", try |-> 0]
                    ELSE IF boot.try = 0 THEN [boot EXCEPT !.pc = "erase", !.try = 1]
                    ELSE BootNext(boot)
         /\ comm_stat' = IF ok THEN 0 ELSE IF boot.try = 1 THEN 1 ELSE comm_stat
         /\ info' = IF ok THEN [l \in Logs |-> NoInfo] ELSE info
    /\ UNCHANGED <<Log_Err_cnt, save, acked, begun>>
-----------------------------------------------------------------------------
(* APP_OptLOG_Save, APP_OptLOG_SaveCode and their twins for warnings: the  *)
(* steps between Log_Sem's pend and post.                                  *)

On == boot.pc = "on"

At(pc) == On /\ save.pc = pc

(* Behind the newest record, or at the beginning of the area. *)
NewAddress(l) ==
    IF info[l].total = 0 \/ info[l].addr + info[l].size >= DataEnd(l)
    THEN DataBegin(l) ELSE info[l].addr + info[l].size

(* A task gets Log_Sem and enters Save2Flash. *)
SaveBegin(l, size) ==
    /\ At("idle")
    /\ begun < MaxSaves
    /\ begun' = begun + 1
    /\ LET first == info[l].total = 0 IN
         IF comm_stat = 1
         THEN /\ save' = [NoSave EXCEPT !.pc = "post", !.l = l, !.c = begun + 1]
              /\ UNCHANGED info
         ELSE /\ save' = [NoSave EXCEPT !.pc = "ahead", !.l = l, !.size = size,
                                        !.addr = NewAddress(l), !.c = begun + 1,
                                        !.n = IF first THEN 1 ELSE info[l].n + 1]
              /\ info' = IF first
                         THEN [info EXCEPT ![l].addr = DataBegin(l), ![l].n = 1,
                                           ![l].size = size]
                         ELSE info
    /\ UNCHANGED <<flash, comm_stat, Log_Err_cnt, boot, acked, faults>>

(* The record ends in another sector: that one is erased. *)
EraseAhead ==
    /\ At("ahead")
    /\ flash' = IF Sector(save.addr + save.size) # Sector(save.addr)
                THEN Erased(flash, save.addr + save.size) ELSE flash
    /\ save' = [save EXCEPT !.pc = "probe"]
    /\ UNCHANGED <<info, comm_stat, Log_Err_cnt, boot, acked, begun, faults>>

(* The place is not blank: the same place in the next sector, erased. *)
Probe ==
    /\ At("probe")
    /\ IF AllBlank(flash, save.addr, save.size)
       THEN /\ save' = [save EXCEPT !.pc = "write"]
            /\ UNCHANGED flash
       ELSE /\ save' = [save EXCEPT !.pc = "write", !.addr = @ + SectorSize]
            /\ flash' = Erased(flash, save.addr + SectorSize)
    /\ UNCHANGED <<info, comm_stat, Log_Err_cnt, boot, acked, begun, faults>>

WriteRecord ==
    /\ At("write")
    /\ \E ok \in BOOLEAN :
         /\ WriteDataBuff("data", save.addr, save.size, Record(save, info[save.l]), ok)
         /\ save' = [save EXCEPT !.pc = IF ok THEN "addr" ELSE "post"]
    /\ UNCHANGED <<info, comm_stat, Log_Err_cnt, boot, acked, begun>>

(* The fields of OptLogInfo are set one after the other; a query may see   *)
(* them in between.                                                        *)
SetAddress ==
    /\ At("addr")
    /\ info' = [info EXCEPT ![save.l].addr = save.addr]
    /\ save' = [save EXCEPT !.pc = "size"]
    /\ UNCHANGED <<flash, comm_stat, Log_Err_cnt, boot, acked, begun, faults>>

SetSize ==
    /\ At("size")
    /\ info' = [info EXCEPT ![save.l].n = save.n, ![save.l].size = save.size]
    /\ save' = [save EXCEPT !.pc = "total"]
    /\ UNCHANGED <<flash, comm_stat, Log_Err_cnt, boot, acked, begun, faults>>

(* The slot behind the one in use, at the end of the area the first. *)
NewSlot(i, l) ==
    IF i.total = 0 \/ i.sys + 1 >= InfoEnd(l) THEN InfoBegin(l) ELSE i.sys + 1

SetTotal ==
    /\ At("total")
    /\ LET slot == NewSlot(info[save.l], save.l) IN
         /\ info' = [info EXCEPT ![save.l].total = @ + 1, ![save.l].sys = slot]
         /\ save' = [save EXCEPT !.pc = "slotahead", !.slot = slot]
    /\ UNCHANGED <<flash, comm_stat, Log_Err_cnt, boot, acked, begun, faults>>

(* The last slot of a sector: the sector behind it is erased. *)
EraseSlotsAhead ==
    /\ At("slotahead")
    /\ flash' = IF Sector(save.slot + 1) # Sector(save.slot)
                THEN Erased(flash, save.slot + 1) ELSE flash
    /\ save' = [save EXCEPT !.pc = "slot"]
    /\ UNCHANGED <<info, comm_stat, Log_Err_cnt, boot, acked, begun, faults>>

(* The information slot; a slot found wrong is left for the next one. *)
WriteSlot ==
    /\ At("slot")
    /\ \E ok \in BOOLEAN :
         /\ WriteDataBuff("info", save.slot, 1, InfoSlot(info[save.l]), ok)
         /\ save' = IF ok THEN [save EXCEPT !.pc = "post", !.ok = TRUE]
                          ELSE [save EXCEPT !.pc = "slot2", !.slot = @ + 1]
    /\ UNCHANGED <<info, comm_stat, Log_Err_cnt, boot, acked, begun>>

WriteSlotAgain ==
    /\ At("slot2")
    /\ \E ok \in BOOLEAN :
         /\ WriteDataBuff("info", save.slot, 1, InfoSlot(info[save.l]), ok)
         /\ save' = [save EXCEPT !.pc = "post", !.ok = ok]
         /\ info' = IF ok THEN [info EXCEPT ![save.l].sys = save.slot] ELSE info
    /\ UNCHANGED <<comm_stat, Log_Err_cnt, boot, acked, begun>>

(* The program is gone; what was in RAM with it. *)
Stopped ==
    /\ info' = [l \in Logs |-> NoInfo]
    /\ comm_stat' = 0
    /\ Log_Err_cnt' = 0
    /\ boot' = [pc |-> "off", l |-> "opt", try |-> 0]
    /\ save' = NoSave

(* Faulty variant of TooMany: one failure more is suffered. *)
TooMany_Late(n) == n > 2

(* Failures in a row that make a save reset the MCU (APP_LOG_Reset). *)
TooMany(n) == n >= 2

(* Log_Sem is posted and the result counted; the second failure in a row   *)
(* resets the MCU (APP_LOG_Reset).                                         *)
SavePost ==
    /\ At("post")
    /\ acked' = IF save.ok THEN [acked EXCEPT ![save.l] = @ \cup {save.c}] ELSE acked
    /\ IF ~save.ok /\ TooMany(Log_Err_cnt + 1)
       THEN Stopped
       ELSE /\ Log_Err_cnt' = IF save.ok THEN 0 ELSE Log_Err_cnt + 1
            /\ save' = NoSave
            /\ UNCHANGED <<info, comm_stat, boot>>
    /\ UNCHANGED <<flash, begun, faults>>
-----------------------------------------------------------------------------
(* Faults.                                                                 *)

(* What the flash may hold when the step under way is cut off. *)
Interrupted ==
    LET erase == CASE boot.pc = "erase" -> {InfoBegin(boot.l)}
                   [] At("ahead") /\ Sector(save.addr + save.size) # Sector(save.addr) ->
                        {save.addr + save.size}
                   [] At("probe") /\ ~AllBlank(flash, save.addr, save.size) ->
                        {save.addr + SectorSize}
                   [] At("slotahead") /\ Sector(save.slot + 1) # Sector(save.slot) ->
                        {save.slot + 1}
                   [] OTHER -> {}
        slot == CASE boot.pc = "write" -> {InfoBegin(boot.l)}
                  [] save.pc \in {"slot", "slot2"} -> {save.slot}
                  [] OTHER -> {}
    IN {flash}
       \cup {Erased(flash, a) : a \in erase}
       \cup {Spoilt(flash, Sector(a) * SectorSize, SectorSize, "torn") : a \in erase}
       \cup {Spoilt(flash, a, 1, k) : a \in slot, k \in TornSlots}
       \cup IF At("write")
            THEN {Spoilt(flash, save.addr, n, "torn") : n \in 1..save.size} ELSE {}

(* Power fails.  A step that was done just before it is a step of its own. *)
Crash ==
    /\ boot.pc # "off"
    /\ faults.crash < MaxCrashes
    /\ On \/ faults.boot < BootCrashes
    /\ faults' = [faults EXCEPT !.crash = @ + 1, !.boot = IF On THEN @ ELSE @ + 1]
    /\ flash' \in Interrupted
    /\ Stopped
    /\ UNCHANGED <<acked, begun>>

(* Another task waits for Log_Sem for a second in vain: its record is not  *)
(* saved, and the second failure in a row resets the MCU in the middle of  *)
(* the save that holds the semaphore.                                      *)
SaveTimeout ==
    /\ On
    /\ save.pc # "idle"
    /\ faults.timeout < MaxTimeouts
    /\ faults' = [faults EXCEPT !.timeout = @ + 1]
    /\ IF TooMany(Log_Err_cnt + 1)
       THEN Stopped /\ flash' \in Interrupted
       ELSE /\ Log_Err_cnt' = Log_Err_cnt + 1
            /\ UNCHANGED <<flash, info, comm_stat, boot, save>>
    /\ UNCHANGED <<acked, begun>>

BootStep == PowerUp \/ Scan \/ RepairErase \/ RepairWrite

SaveStep ==
    \/ EraseAhead \/ Probe \/ WriteRecord \/ SetAddress \/ SetSize \/ SetTotal
    \/ EraseSlotsAhead \/ WriteSlot \/ WriteSlotAgain \/ SavePost

Next ==
    \/ BootStep
    \/ \E l \in Logs, size \in Sizes : SaveBegin(l, size)
    \/ SaveStep
    \/ Crash
    \/ SaveTimeout

(* A started program runs on: the start and a save wait for nobody. *)
Spec == Init /\ [][Next]_flashVars /\ WF_flashVars(BootStep) /\ WF_flashVars(SaveStep)
-----------------------------------------------------------------------------
(* The query of the newest records: APP_PCCOMM_OptLogQue and its twin for  *)
(* warnings.  It takes no semaphore.                                       *)

(* APP_LOG_Read1Log: the head and the checksum are right only if the size  *)
(* is the one that the record was written with.                            *)
Read1Log(f, p) ==
    /\ p.size > 0
    /\ Kind(f, p.addr) = "log"
    /\ f[p.addr].len = p.size
    /\ \A x \in Span(p.addr + 1, p.size - 1) : Kind(f, x) = "body"

(* Where record p says that the one before it is; nowhere if p cannot be   *)
(* read.                                                                   *)
Back(f, p) ==
    IF Read1Log(f, p) THEN [addr |-> f[p.addr].addr, size |-> f[p.addr].size]
                      ELSE [addr |-> 0, size |-> 0]

(* The places that a walk from p back comes to. *)
Places(f, p, n) ==
    LET at[k \in 0..n] == IF k = 0 THEN [addr |-> p.addr, size |-> p.size] ELSE Back(f, at[k - 1])
    IN at

(* The codes of at most n records from p back, until one cannot be read. *)
Walk(f, p, n) ==
    LET at == Places(f, p, n)
        read == {k \in 1..n : Read1Log(f, at[k - 1])}
    IN [k \in 1..Cardinality(read) |-> f[at[k - 1].addr].c]

(* Faulty variant of LogQue: the record in RAM is not looked at. *)
LogQue_All(l, n) == Walk(flash, info[l], n)

(* The answer to a query for n records. *)
LogQue(l, n) ==
    IF comm_stat = 1 THEN <<>>
    ELSE Walk(flash, info[l], IF n > info[l].total THEN info[l].total ELSE n)
-----------------------------------------------------------------------------
(* The records of log l that are safe: those that a start would find now,  *)
(* and during a repair those that the scan had found.  (TLC evaluates what *)
(* a set binds only once.)                                                 *)
Stored(l) ==
    LET found == IF boot.pc \in {"erase", "write"} /\ boot.l = l THEN info[l]
                                                               ELSE Found(flash, l)
    IN CHOOSE r \in {Reverse(Walk(flash, i, i.total)) : i \in {found}} : TRUE

Store == INSTANCE LogStore WITH log <- [l \in Logs |-> Stored(l)], acked <- acked

(* The logs keep the promise of LogStore: whatever step power fails in,    *)
(* whichever write is found wrong, a start finds every record stored       *)
(* before, in order, at most the one being saved besides, and no save      *)
(* returns SUCC before its record can be found (app_log.c lines 312-488).  *)
LogsKeepRecords == Store!Spec

(* A query answers with the newest records, newest first, none left out;   *)
(* one that falls into a save of the same log may miss the new record or   *)
(* get nothing, never a gap or a foreign record (app_pccomm.c 3325-3360).  *)
QueryAnswers ==
    On => \A l \in Logs, n \in 0..MaxSaves :
            LET ans == LogQue(l, n)
                old == Reverse(Stored(l))
                new == IF save.c \in ToSet(old) THEN old ELSE <<save.c>> \o old
            IN IF save.pc = "idle" \/ save.l # l
               THEN ans = SubSeq(old, 1, IF n < Len(old) THEN n ELSE Len(old))
               ELSE IsPrefix(ans, new) \/ IsPrefix(ans, Tail(new))

(* However it was stopped, the program gets through APP_LOG_Init, repairs  *)
(* and resets included (app_log.c lines 84-181).                           *)
StartEnds == boot.pc = "off" ~> On

(* A slot is written only where the area was erased before: "if it leaves  *)
(* the sector, a sector must be erased" (app_log.c line 356).              *)
SlotIsErased == At("slot") => Kind(flash, save.slot) = "blank"

TypeOK ==
    /\ DOMAIN flash \subseteq Addresses
    /\ \A a \in DOMAIN flash : flash[a].k \in {"torn", "headless", "body", "info", "log"}
    /\ \A l \in Logs : /\ info[l].addr \in Addresses
                       /\ info[l].sys \in Addresses
                       /\ info[l].total \in 0..MaxSaves
                       /\ acked[l] \subseteq Codes
    /\ Log_Err_cnt \in 0..1
    /\ save.addr + save.size \in Addresses
    /\ save.slot \in Addresses
=============================================================================
