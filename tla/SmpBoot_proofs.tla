--------------------------- MODULE SmpBoot_proofs ---------------------------
(***************************************************************************)
(* Proofs about the bring-up of the processors, for any number of CPUs and *)
(* every state of the memory manager.                                      *)
(***************************************************************************)
EXTENDS SmpBoot, FiniteSetTheorems, TLAPS

Stages ==
  {"off", "loop", "fill", "start", "wait", "test", "up", "lock", "low", "high", "ltr", "release",
   "stack", "thread", "increment", "incremented", "halt", "panic"}

(* What is used of the types: of a call only that it has a step.           *)
TypeOK ==
  /\ stage \in [CPUs -> Stages]
  /\ DOMAIN op = CPUs /\ \A c \in CPUs : "step" \in DOMAIN op[c]
  /\ tss_lock \in CPUs \cup {Nobody}
  /\ DOMAIN tss_descriptor = {"low", "high", "busy"}
  /\ DOMAIN tr = CPUs

(* pmm_alloc is called from three places.                                  *)
Callers ==
  \A c \in CPUs : Calling(c) => stage[c] \in {"loop", "stack", "thread"}

(* The lock belongs to the CPU in gdt_load_tss, and the descriptor is the  *)
(* one it has written.                                                     *)
Locked ==
  \A c \in CPUs :
    /\ stage[c] \in {"low", "high", "ltr", "release"} => tss_lock = c
    /\ stage[c] \in {"high", "ltr"} => tss_descriptor.low = c /\ tss_descriptor.busy = FALSE
    /\ stage[c] = "ltr" => tss_descriptor.high = c

TaskInv == TypeOK /\ Callers /\ Locked /\ OwnTaskState

-----------------------------------------------------------------------------
(* A step of pmm_alloc belongs to one of its callers, which it moves on.   *)
LEMMA CalledFrom ==
  ASSUME TaskInv, NEW c \in CPUs, Allocating(c)
  PROVE  /\ stage[c] \in {"loop", "stack", "thread"}
         /\ DOMAIN op' = CPUs /\ "step" \in DOMAIN op'[c]
         /\ \A d \in CPUs \ {c} : op'[d] = op[d]
         /\ \/ stage' = stage
            \/ /\ ~ Calling(c)'
               /\ stage' = [stage EXCEPT ![c] = "panic"] \/ stage' = [stage EXCEPT ![c] = After(stage[c])]
<1>1. stage[c] \in {"loop", "stack", "thread"}
  <2>1. Calling(c)
    BY DEF Allocating, SearchBit, SearchAgain, SearchFails, LoadByte, StoreByte, StoreCache, LoadFree, Return, Calling
  <2> QED
    BY <2>1 DEF TaskInv, Callers
<1>2. CASE SearchBit(c)
  BY <1>1, <1>2 DEF SearchBit, TaskInv, TypeOK
<1>3. CASE SearchAgain(c)
  BY <1>1, <1>3 DEF SearchAgain, TaskInv, TypeOK
<1>4. CASE SearchFails(c)
  BY <1>1, <1>4 DEF SearchFails, TaskInv, TypeOK, Calling
<1>5. CASE LoadByte(c)
  BY <1>1, <1>5 DEF LoadByte, TaskInv, TypeOK
<1>6. CASE StoreByte(c)
  BY <1>1, <1>6 DEF StoreByte, TaskInv, TypeOK
<1>7. CASE StoreCache(c)
  BY <1>1, <1>7 DEF StoreCache, TaskInv, TypeOK
<1>8. CASE LoadFree(c)
  BY <1>1, <1>8 DEF LoadFree, TaskInv, TypeOK
<1>9. CASE Return(c)
  BY <1>1, <1>9 DEF Return, TaskInv, TypeOK, Calling, Idle
<1> QED
  BY <1>2, <1>3, <1>4, <1>5, <1>6, <1>7, <1>8, <1>9 DEF Allocating

(* Where a CPU goes on when a call of pmm_alloc returns.                   *)
LEMMA Returns ==
  After("loop") = "fill" /\ After("stack") = "thread" /\ After("thread") = "increment"
  BY DEF After

(* Before smp_init nobody holds the lock or has a task register.           *)
LEMMA InitTask == Init => TaskInv
  BY SmpAssumption DEF Init, TaskInv, TypeOK, Callers, Locked, OwnTaskState, Calling, Idle, Stages

(* pmm_alloc does not touch the lock or the descriptor.                    *)
LEMMA AllocatingTask ==
  ASSUME TaskInv, NEW c \in CPUs, Allocating(c)
  PROVE  TaskInv'
<1>1. TypeOK'
  <2>1. stage' \in [CPUs -> Stages]
    BY CalledFrom, Returns DEF TaskInv, TypeOK, Stages
  <2>2. \A d \in CPUs : "step" \in DOMAIN op'[d]
    BY CalledFrom DEF TaskInv, TypeOK
  <2> QED
    BY <2>1, <2>2, CalledFrom DEF TaskInv, TypeOK, Allocating, tables
<1>2. Callers'
  <2> SUFFICES ASSUME NEW d \in CPUs, Calling(d)' PROVE stage'[d] \in {"loop", "stack", "thread"}
    BY DEF Callers
  <2>1. CASE d = c
    BY <2>1, CalledFrom
  <2>2. CASE d # c
    BY <2>2, CalledFrom DEF TaskInv, TypeOK, Callers, Calling
  <2> QED
    BY <2>1, <2>2
<1>3. \A d \in CPUs : stage'[d] = stage[d] \/ (d = c /\ stage'[d] \in {"panic", "fill", "thread", "increment"})
  BY CalledFrom, Returns DEF TaskInv, TypeOK
<1>4. \A d \in CPUs : stage'[d] \in {"low", "high", "ltr", "release"} => stage[d] = stage'[d]
  BY <1>3
<1>5. Locked' /\ OwnTaskState'
  <2>1. UNCHANGED <<tss_lock, tss_descriptor, tr>>
    BY DEF Allocating, tables
  <2>2. Locked'
    BY <1>3, <2>1 DEF TaskInv, Locked
  <2>3. OwnTaskState'
    <3> SUFFICES ASSUME NEW d \in CPUs,
                        stage'[d] \in {"release", "stack", "thread", "increment", "incremented", "halt"}
                 PROVE  tr[d] = <<d, d>>
      BY <2>1 DEF OwnTaskState
    <3>1. CASE stage'[d] = stage[d]
      BY <3>1 DEF TaskInv, OwnTaskState
    <3>2. CASE stage'[d] # stage[d]
      <4>1. d = c /\ stage'[c] \in {"thread", "increment"}
        BY <3>2, <1>3
      <4>2. stage'[c] = After(stage[c]) \/ stage'[c] = "panic"
        BY <3>2, <4>1, CalledFrom DEF TaskInv, TypeOK
      <4>3. stage[c] \in {"stack", "thread"}
        BY <4>1, <4>2, CalledFrom, Returns
      <4> QED
        BY <4>1, <4>3 DEF TaskInv, OwnTaskState
    <3> QED
      BY <3>1, <3>2
  <2> QED
    BY <2>2, <2>3
<1> QED
  BY <1>1, <1>2, <1>5 DEF TaskInv

(* The steps of gdt_load_tss.                                              *)
LEMMA LoadTssTask ==
  ASSUME TaskInv, NEW c \in CPUs,
         AcquireTss(c) \/ WriteLow(c) \/ WriteHigh(c) \/ LoadTaskRegister(c) \/ ReleaseTss(c)
  PROVE  TaskInv'
<1>1. Callers'
  BY DEF TaskInv, TypeOK, Callers, Calling, At, Idle, Goto, memory,
         AcquireTss, WriteLow, WriteHigh, LoadTaskRegister, ReleaseTss
<1>2. CASE AcquireTss(c)
  BY <1>1, <1>2, SmpAssumption DEF AcquireTss, TaskInv, TypeOK, Locked, OwnTaskState, At, Goto, Stages, memory
<1>3. CASE WriteLow(c)
  BY <1>1, <1>3 DEF WriteLow, TaskInv, TypeOK, Locked, OwnTaskState, At, Goto, Stages, memory
<1>4. CASE WriteHigh(c)
  BY <1>1, <1>4 DEF WriteHigh, TaskInv, TypeOK, Locked, OwnTaskState, At, Goto, Stages, memory
<1>5. CASE LoadTaskRegister(c)
  BY <1>1, <1>5 DEF LoadTaskRegister, TaskInv, TypeOK, Locked, OwnTaskState, At, Goto, Stages, memory
<1>6. CASE ReleaseTss(c)
  BY <1>1, <1>6, SmpAssumption DEF ReleaseTss, TaskInv, TypeOK, Locked, OwnTaskState, At, Goto, Stages, memory
<1> QED
  BY <1>2, <1>3, <1>4, <1>5, <1>6

(* The other steps only move a CPU, or begin a call.                       *)
LEMMA OtherStepTask ==
  ASSUME TaskInv, NEW c \in CPUs,
         Wake(c) \/ AllocStack(c) \/ AllocThread(c) \/ LoadCounter(c) \/ StoreCounter(c)
  PROVE  TaskInv'
<1>1. CASE Wake(c)
  BY <1>1 DEF Wake, TaskInv, TypeOK, Callers, Calling, Idle, Locked, OwnTaskState, At, Goto, Stages, memory, tables
<1>2. CASE AllocStack(c) \/ AllocThread(c)
  BY <1>2 DEF AllocStack, AllocThread, Call, CallAlloc, TaskInv, TypeOK, Callers, Calling, Idle, Locked, OwnTaskState, At, tables
<1>3. CASE LoadCounter(c)
  BY <1>3 DEF LoadCounter, TaskInv, TypeOK, Callers, Calling, Idle, Locked, OwnTaskState, At, Goto, Stages, memory, tables
<1>4. CASE StoreCounter(c)
  BY <1>4 DEF StoreCounter, TaskInv, TypeOK, Callers, Calling, Idle, Locked, OwnTaskState, At, Goto, Stages, memory, tables
<1> QED
  BY <1>1, <1>2, <1>3, <1>4

(* Nor does smp_init outside cpu_init.                                     *)
LEMMA SmpInitTask == TaskInv /\ SmpInit => TaskInv'
<1> SUFFICES ASSUME TaskInv, SmpInit PROVE TaskInv'
  OBVIOUS
<1>1. Bsp \in CPUs
  BY SmpAssumption
<1>2. CASE AllocRecord
  BY <1>1, <1>2 DEF AllocRecord, Call, CallAlloc, TaskInv, TypeOK, Callers, Calling, Idle, Locked, OwnTaskState, At, tables
<1>3. CASE FillRecord \/ StartCpu \/ LoopEnds
  BY <1>1, <1>3 DEF FillRecord, StartCpu, LoopEnds, TaskInv, TypeOK, Callers, Calling, Idle, Locked, OwnTaskState, At, Goto, Stages, memory, tables
<1>4. CASE LoadStarted \/ WaitMore \/ AllStarted
  BY <1>1, <1>4 DEF LoadStarted, WaitMore, AllStarted, TaskInv, TypeOK, Callers, Calling, Idle, Locked, OwnTaskState, At, Goto, Stages, memory, tables
<1> QED
  BY <1>2, <1>3, <1>4 DEF SmpInit

(* Every step keeps the lock's invariant.                                  *)
LEMMA NextTask == TaskInv /\ [Next]_vars => TaskInv'
<1> SUFFICES ASSUME TaskInv, [Next]_vars PROVE TaskInv'
  OBVIOUS
<1>1. CASE SmpInit
  BY <1>1, SmpInitTask
<1>2. ASSUME NEW c \in CPUs, Step(c) PROVE TaskInv'
  BY <1>2, AllocatingTask, LoadTssTask, OtherStepTask DEF Step
<1>3. CASE UNCHANGED vars
  BY <1>3 DEF vars, memory, tables, TaskInv, TypeOK, Callers, Calling, Locked, OwnTaskState
<1> QED
  BY <1>1, <1>2, <1>3 DEF Next

(* The lock protects the descriptor: its inductive invariant, and that     *)
(* every CPU has its own task state segment, for any number of CPUs.       *)
THEOREM SmpTaskInvariant == Spec => []TaskInv
  BY InitTask, NextTask, PTL DEF Spec

(* The task register of each CPU names its own segment (gdt_load_tss).     *)
THEOREM SmpOwnTaskState == Spec => []OwnTaskState
<1>1. TaskInv => OwnTaskState
  BY DEF TaskInv
<1> QED
  BY <1>1, SmpTaskInvariant, PTL

-----------------------------------------------------------------------------
(* Where the loop of smp_init is.                                          *)

InCpuInit ==
  {"lock", "low", "high", "ltr", "release", "stack", "thread", "increment", "incremented"}

InSmpInit == {"loop", "fill", "start", "wait", "test", "up"}

Record(k) == [id |-> k - 1, lapic_id |-> cpus[k], is_bsp |-> cpus[k] = Bsp]

(* The bootstrap CPU alone is in smp_init, and in cpu_init only when the   *)
(* loop is at its own entry; all the entries behind the loop have their    *)
(* records, and only their CPUs have been started.                         *)
Place ==
  /\ i \in 1 .. Len(cpus) + 1
  /\ DOMAIN local = CPUs
  /\ stage[Bsp] \notin {"off", "halt"}
  /\ stage[Bsp] \in {"fill", "start"} \cup InCpuInit => i <= Len(cpus)
  /\ stage[Bsp] = "loop" /\ Calling(Bsp) => i <= Len(cpus)
  /\ stage[Bsp] = "start" => cpus[i] # Bsp /\ local[cpus[i]] = Record(i)
  /\ stage[Bsp] \in InCpuInit => cpus[i] = Bsp /\ local[Bsp] = Record(i)
  /\ stage[Bsp] \in {"wait", "test", "up"} => i = Len(cpus) + 1
  /\ \A k \in 1 .. i - 1 : local[cpus[k]] = Record(k)
  /\ goto_address \subseteq {cpus[k] : k \in 1 .. i - 1}
  /\ \A c \in CPUs \ {Bsp} : stage[c] \notin InSmpInit /\ (stage[c] # "off" => c \in goto_address)

(* The CPUs are the entries of the boot loader's list, each once.          *)
LEMMA Cpus ==
  /\ Bsp \in CPUs /\ Len(cpus) \in Nat /\ DOMAIN cpus = 1 .. Len(cpus)
  /\ \A k \in 1 .. Len(cpus) : cpus[k] \in CPUs
  /\ \A j, k \in 1 .. Len(cpus) : cpus[j] = cpus[k] => j = k
  BY SmpAssumption DEF CPUs

(* The record of an entry says whether it is the bootstrap CPU.            *)
LEMMA RecordOf ==
  ASSUME NEW k \in 1 .. Len(cpus)
  PROVE  Record(k).is_bsp <=> cpus[k] = Bsp
  BY Zenon DEF Record

(* The loop starts at the first entry with no CPU started.                 *)
LEMMA InitPlace == Init => Place
  BY Cpus DEF Init, Place, InCpuInit, InSmpInit, Calling, Idle

(* pmm_alloc moves its caller only, and not the loop.                      *)
LEMMA AllocatingPlace ==
  ASSUME TaskInv, Place, NEW c \in CPUs, Allocating(c)
  PROVE  Place'
<1>1. UNCHANGED <<i, local, goto_address>>
  BY DEF Allocating, starting
<1>2. \A d \in CPUs : \/ stage'[d] = stage[d]
                      \/ /\ d = c /\ ~ Calling(c)'
                         /\ \/ stage'[d] = "panic"
                            \/ stage[d] = "loop" /\ stage'[d] = "fill"
                            \/ stage[d] = "stack" /\ stage'[d] = "thread"
                            \/ stage[d] = "thread" /\ stage'[d] = "increment"
  BY CalledFrom, Returns DEF TaskInv, TypeOK
<1>3. Calling(c)
  BY DEF Allocating, SearchBit, SearchAgain, SearchFails, LoadByte, StoreByte, StoreCache, LoadFree, Return, Calling
<1>4. Calling(Bsp)' /\ Bsp # c => Calling(Bsp)
  BY CalledFrom, Cpus DEF Calling
<1>5. stage'[Bsp] = "loop" /\ Calling(Bsp)' => stage[Bsp] = "loop" /\ Calling(Bsp)
  BY <1>2, <1>3, <1>4, Cpus
<1>6. CASE c = Bsp
  BY <1>1, <1>2, <1>3, <1>5, <1>6, Cpus DEF Place, InCpuInit, InSmpInit, Record
<1>7. CASE c # Bsp
  <2>1. stage'[Bsp] = stage[Bsp]
    BY <1>2, <1>7, Cpus
  <2>2. \A d \in CPUs \ {Bsp} : stage'[d] \notin InSmpInit /\ (stage'[d] # "off" => d \in goto_address)
    BY <1>2, <1>7, CalledFrom DEF Place, InSmpInit
  <2> QED
    BY <1>1, <1>5, <2>1, <2>2 DEF Place, Record
<1> QED
  BY <1>6, <1>7

(* The steps of a CPU in cpu_init leave the loop where it is, or, on the   *)
(* bootstrap CPU, let it go on.                                            *)
LEMMA StepPlace ==
  ASSUME TaskInv, Place, NEW c \in CPUs, Step(c)
  PROVE  Place'
<1> USE Cpus
<1>1. CASE Allocating(c)
  BY <1>1, AllocatingPlace
<1>2. CASE Wake(c)
  BY <1>2 DEF Wake, TaskInv, TypeOK, Place, Calling, Idle, At, Goto, memory, starting, InCpuInit, InSmpInit, Record
<1>3. CASE AcquireTss(c) \/ WriteLow(c) \/ WriteHigh(c) \/ ReleaseTss(c) \/ LoadCounter(c)
  BY <1>3 DEF AcquireTss, WriteLow, WriteHigh, ReleaseTss, LoadCounter, TaskInv, TypeOK, Place, Calling, Idle,
              At, Goto, memory, starting, InCpuInit, InSmpInit, Record
<1>4. CASE LoadTaskRegister(c)
  BY <1>4 DEF LoadTaskRegister, TaskInv, TypeOK, Place, Calling, Idle,
              At, Goto, memory, starting, InCpuInit, InSmpInit, Record
<1>5. CASE AllocStack(c) \/ AllocThread(c)
  <2>1. UNCHANGED <<i, local, goto_address, stage>> /\ stage[c] # "loop"
    BY <1>5 DEF AllocStack, AllocThread, Call, At, starting
  <2>2. \A d \in CPUs \ {c} : op'[d] = op[d]
    BY <1>5 DEF AllocStack, AllocThread, Call, CallAlloc, TaskInv, TypeOK
  <2> QED
    BY <2>1, <2>2 DEF Place, Calling, InCpuInit, InSmpInit, Record
<1>6. CASE StoreCounter(c)
  <2>1. stage[c] = "incremented" /\ stage \in [CPUs -> Stages] /\ op' = op /\ UNCHANGED <<local, goto_address>>
        /\ op[c] = Idle
    BY <1>6 DEF StoreCounter, At, TaskInv, TypeOK, memory
  <2>2. CASE c = Bsp
    <3>1. cpus[i] = Bsp /\ local[Bsp] = Record(i) /\ i \in 1 .. Len(cpus)
      BY <2>1, <2>2 DEF Place, InCpuInit
    <3>2. local[c].is_bsp
      BY <2>2, <3>1, RecordOf
    <3>3. stage' = [stage EXCEPT ![Bsp] = "loop"] /\ i' = i + 1
      BY <1>6, <2>2, <3>2 DEF StoreCounter, Goto
    <3> QED
      BY <2>1, <2>2, <3>1, <3>3 DEF Place, InCpuInit, InSmpInit, Calling, Idle
  <2>3. CASE c # Bsp
    <3>1. PICK k \in 1 .. i - 1 : cpus[k] = c
      BY <2>1, <2>3 DEF Place
    <3>2. ~ local[c].is_bsp
      <4>1. local[c] = Record(k) /\ k \in 1 .. Len(cpus)
        BY <3>1 DEF Place
      <4> QED
        BY <2>3, <3>1, <4>1, RecordOf
    <3>3. stage' = [stage EXCEPT ![c] = "halt"] /\ i' = i
      BY <1>6, <3>2 DEF StoreCounter, Goto
    <3> QED
      BY <2>1, <2>3, <3>3 DEF Place, InCpuInit, InSmpInit, Record, Calling
  <2> QED
    BY <2>2, <2>3
<1> QED
  BY <1>1, <1>2, <1>3, <1>4, <1>5, <1>6 DEF Step

(* A turn of the loop of smp_init fills one record and starts its CPU.     *)
LEMMA SmpInitPlace ==
  ASSUME TaskInv, Place, SmpInit
  PROVE  Place'
<1> USE Cpus
<1>1. CASE AllocRecord
  <2>1. UNCHANGED <<i, local, goto_address, stage>> /\ i <= Len(cpus)
    BY <1>1 DEF AllocRecord, Call, starting
  <2> QED
    BY <2>1 DEF Place, InCpuInit, InSmpInit, Record
<1>2. CASE FillRecord
  BY <1>2 DEF FillRecord, TaskInv, TypeOK, Place, Calling, Idle, At, Goto, memory, InCpuInit, InSmpInit, Record
<1>3. CASE StartCpu
  BY <1>3 DEF StartCpu, TaskInv, TypeOK, Place, Calling, Idle, At, Goto, memory, InCpuInit, InSmpInit, Record
<1>4. CASE LoopEnds \/ LoadStarted \/ WaitMore \/ AllStarted
  BY <1>4 DEF LoopEnds, LoadStarted, WaitMore, AllStarted, TaskInv, TypeOK, Place, Calling, Idle, At, Goto,
              memory, starting, InCpuInit, InSmpInit, Record
<1> QED
  BY <1>1, <1>2, <1>3, <1>4 DEF SmpInit

(* Every step keeps the place of the loop.                                 *)
LEMMA NextPlace == TaskInv /\ Place /\ [Next]_vars => Place'
<1> SUFFICES ASSUME TaskInv, Place, [Next]_vars PROVE Place'
  OBVIOUS
<1>1. CASE UNCHANGED vars
  BY <1>1 DEF vars, memory, starting, Place, Calling, InCpuInit, InSmpInit, Record
<1> QED
  BY <1>1, StepPlace, SmpInitPlace DEF Next

(* The loop of smp_init gives every entry its record before its CPU is     *)
(* started.                                                                *)
THEOREM SmpRecordInvariant == Spec => [](TaskInv /\ Place)
  BY InitTask, NextTask, InitPlace, NextPlace, PTL DEF Spec

(* So a CPU that runs has the record of its entry.                         *)
LEMMA RecordsHold == TaskInv /\ Place => RunsWithItsOwnRecord
<1> SUFFICES ASSUME TaskInv, Place, NEW k \in 1 .. Len(cpus),
                    stage[cpus[k]] \notin {"off", "loop", "fill", "start", "panic"}
             PROVE  local[cpus[k]] = Record(k)
  BY DEF RunsWithItsOwnRecord, Record
<1> USE Cpus
<1>1. CASE cpus[k] # Bsp
  <2>1. PICK j \in 1 .. i - 1 : cpus[j] = cpus[k]
    BY <1>1 DEF Place
  <2> QED
    BY <2>1 DEF Place
<1>2. CASE cpus[k] = Bsp /\ stage[Bsp] \in InCpuInit
  BY <1>2 DEF Place
<1>3. CASE cpus[k] = Bsp /\ stage[Bsp] \in {"wait", "test", "up"}
  BY <1>3 DEF Place
<1> QED
  BY <1>1, <1>2, <1>3 DEF TaskInv, TypeOK, Stages, Place, InCpuInit

(* Every CPU that runs has the record smp_init made for it, for any list.  *)
THEOREM SmpRunsWithItsOwnRecord == Spec => []RunsWithItsOwnRecord
  BY SmpRecordInvariant, RecordsHold, PTL

-----------------------------------------------------------------------------
(* The counter can lose increments, but never runs ahead of the CPUs that  *)
(* have finished cpu_init.                                                 *)

Finished ==
  {c \in CPUs : c # Bsp /\ stage[c] = "halt"} \cup
  {c \in {Bsp} : \E k \in 1 .. i - 1 : cpus[k] = c}

Counted ==
  /\ started_cpus_counter \in 0 .. Cardinality(Finished)
  /\ seen \in 0 .. Cardinality(Finished)
  /\ DOMAIN reg = CPUs
  /\ \A c \in CPUs : stage[c] = "incremented" => reg[c] \in 0 .. Cardinality(Finished)
  /\ is_smp_init => stage[Bsp] = "up" /\ Finished = CPUs

(* The loop waits for as many CPUs as there are.                           *)
LEMMA CpusFinite == IsFiniteSet(CPUs) /\ Cardinality(CPUs) = Len(cpus)
<1>1. cpus \in Bijection(1 .. Len(cpus), CPUs)
  BY SmpAssumption, Cpus DEF CPUs, Bijection, Injection, Surjection, IsInjective
<1>2. IsFiniteSet(1 .. Len(cpus)) /\ Cardinality(1 .. Len(cpus)) = Len(cpus)
  BY FS_Interval, Cpus
<1> QED
  BY <1>1, <1>2, FS_Bijection DEF ExistsBijection

(* The CPUs that have finished are finitely many.                          *)
LEMMA FinishedFinite == IsFiniteSet(Finished) /\ Cardinality(Finished) \in Nat /\ Finished \subseteq CPUs
<1>1. Finished \subseteq CPUs
  BY Cpus DEF Finished
<1> QED
  BY <1>1, CpusFinite, FS_Subset, FS_CardinalityType

(* The counter starts at zero.                                             *)
LEMMA InitCounted == Init => Counted
<1> SUFFICES ASSUME Init PROVE Counted
  OBVIOUS
<1>1. Cardinality(Finished) \in Nat
  BY FinishedFinite
<1> QED
  BY <1>1, Cpus DEF Init, Counted

(* A step that finishes nobody and does not touch the counters.            *)
LEMMA KeepsCounted ==
  ASSUME Counted, Finished' = Finished,
         UNCHANGED <<started_cpus_counter, reg, seen, is_smp_init>>,
         \A c \in CPUs : stage'[c] = "incremented" => stage[c] = "incremented",
         is_smp_init => stage'[Bsp] = stage[Bsp]
  PROVE  Counted'
  BY DEF Counted

(* A CPU adds at most one to the counter, and has finished when it does.   *)
LEMMA StepCounted ==
  ASSUME TaskInv, Place, Counted, NEW c \in CPUs, Step(c)
  PROVE  Counted'
<1> USE Cpus
<1>1. is_smp_init => stage[Bsp] = "up"
  BY DEF Counted
<1>2. CASE Allocating(c)
  <2>1. \A d \in CPUs : \/ stage'[d] = stage[d]
                        \/ d = c /\ stage'[d] \in {"panic", "fill", "thread", "increment"}
                             /\ stage[d] \in {"loop", "stack", "thread"}
    BY <1>2, CalledFrom, Returns DEF TaskInv, TypeOK
  <2>2. UNCHANGED <<started_cpus_counter, reg, seen, is_smp_init, i>>
    BY <1>2 DEF Allocating, counting, starting
  <2>3. Finished' = Finished
    BY <2>1, <2>2 DEF Finished
  <2>4. is_smp_init => stage'[Bsp] = stage[Bsp]
    BY <2>1, <1>1
  <2> QED
    BY <2>1, <2>2, <2>3, <2>4, KeepsCounted
<1>3. CASE \/ Wake(c) \/ AcquireTss(c) \/ WriteLow(c) \/ WriteHigh(c) \/ LoadTaskRegister(c)
           \/ ReleaseTss(c) \/ AllocStack(c) \/ AllocThread(c)
  <2>1. stage[c] \in {"off", "lock", "low", "high", "ltr", "release", "stack", "thread"}
    BY <1>3 DEF Wake, AcquireTss, WriteLow, WriteHigh, LoadTaskRegister, ReleaseTss, AllocStack, AllocThread, At
  <2>2. UNCHANGED <<started_cpus_counter, reg, seen, is_smp_init, i>>
    BY <1>3 DEF Wake, AcquireTss, WriteLow, WriteHigh, LoadTaskRegister, ReleaseTss, AllocStack, AllocThread,
                Call, counting, starting
  <2>3. \A d \in CPUs : stage'[d] = stage[d] \/ (d = c /\ stage'[d] \notin {"halt", "incremented"})
    BY <1>3, <2>1 DEF Wake, AcquireTss, WriteLow, WriteHigh, LoadTaskRegister, ReleaseTss, AllocStack, AllocThread,
                Call, Goto, TaskInv, TypeOK
  <2>4. Finished' = Finished
    BY <2>1, <2>2, <2>3 DEF Finished
  <2>5. is_smp_init => stage'[Bsp] = stage[Bsp]
    BY <2>1, <2>3 DEF Counted
  <2> QED
    BY <2>2, <2>3, <2>4, <2>5, KeepsCounted
<1>4. CASE LoadCounter(c)
  <2>1. stage[c] = "increment" /\ stage' = [stage EXCEPT ![c] = "incremented"]
        /\ reg' = [reg EXCEPT ![c] = started_cpus_counter]
        /\ UNCHANGED <<started_cpus_counter, seen, is_smp_init, i>>
    BY <1>4 DEF LoadCounter, At, Goto, starting
  <2>2. Finished' = Finished
    BY <2>1 DEF Finished, TaskInv, TypeOK
  <2> QED
    BY <2>1, <2>2 DEF Counted, TaskInv, TypeOK
<1>5. CASE StoreCounter(c)
  <2>1. stage[c] = "incremented" /\ started_cpus_counter' = reg[c] + 1
        /\ UNCHANGED <<local, reg, seen, is_smp_init>>
        /\ reg[c] \in 0 .. Cardinality(Finished)
    BY <1>5 DEF StoreCounter, At, Counted
  <2>2. Finished' = Finished \cup {c} /\ c \notin Finished
    <3>1. CASE c = Bsp
      <4>1. cpus[i] = Bsp /\ local[Bsp] = Record(i) /\ i \in 1 .. Len(cpus)
        BY <2>1, <3>1 DEF Place, InCpuInit
      <4>2. stage' = [stage EXCEPT ![Bsp] = "loop"] /\ i' = i + 1
        BY <1>5, <3>1, <4>1, RecordOf DEF StoreCounter, Goto
      <4>3. \A k \in 1 .. i - 1 : cpus[k] # Bsp
        BY <4>1
      <4>4. \E k \in 1 .. i' - 1 : cpus[k] = Bsp
        BY <4>1, <4>2
      <4> QED
        BY <3>1, <4>2, <4>3, <4>4 DEF Finished, TaskInv, TypeOK
    <3>2. CASE c # Bsp
      <4>1. PICK k \in 1 .. i - 1 : cpus[k] = c
        BY <2>1, <3>2 DEF Place
      <4>2. local[c] = Record(k) /\ k \in 1 .. Len(cpus)
        BY <4>1 DEF Place
      <4>3. ~ local[c].is_bsp
        BY <3>2, <4>1, <4>2, RecordOf
      <4>4. stage' = [stage EXCEPT ![c] = "halt"] /\ i' = i
        BY <1>5, <4>3 DEF StoreCounter, Goto
      <4> QED
        BY <2>1, <3>2, <4>4 DEF Finished, TaskInv, TypeOK
    <3> QED
      BY <3>1, <3>2
  <2>3. Cardinality(Finished') = Cardinality(Finished) + 1 /\ Cardinality(Finished) \in Nat
    BY <2>2, FinishedFinite, FS_AddElement
  <2>4. \A d \in CPUs : stage'[d] = "incremented" => stage[d] = "incremented"
    BY <1>5 DEF StoreCounter, Goto, TaskInv, TypeOK
  <2>5. ~ is_smp_init
    BY <2>2 DEF Counted
  <2> QED
    BY <2>1, <2>3, <2>4, <2>5 DEF Counted
<1> QED
  BY <1>2, <1>3, <1>4, <1>5 DEF Step

(* smp_init passes its wait only when the counter shows all CPUs.          *)
LEMMA SmpInitCounted ==
  ASSUME TaskInv, Place, Counted, SmpInit
  PROVE  Counted'
<1> USE Cpus
<1>1. stage[Bsp] # "up"
  BY DEF SmpInit, AllocRecord, FillRecord, StartCpu, LoopEnds, LoadStarted, WaitMore, AllStarted, At
<1>2. ~ is_smp_init
  BY <1>1 DEF Counted
<1>3. CASE AllocRecord
  BY <1>3, <1>2, KeepsCounted DEF AllocRecord, Call, counting, starting, Finished
<1>4. CASE FillRecord
  <2>1. stage'[Bsp] # "incremented" /\ \A d \in CPUs \ {Bsp} : stage'[d] = stage[d]
    BY <1>4 DEF FillRecord, Goto, TaskInv, TypeOK
  <2>2. UNCHANGED <<started_cpus_counter, reg, seen, is_smp_init, i>>
    BY <1>4 DEF FillRecord, counting
  <2> QED
    BY <1>2, <2>1, <2>2, KeepsCounted DEF Finished
<1>5. CASE StartCpu
  <2>1. stage'[Bsp] # "incremented" /\ \A d \in CPUs \ {Bsp} : stage'[d] = stage[d]
    BY <1>5 DEF StartCpu, Goto, TaskInv, TypeOK
  <2>2. UNCHANGED <<started_cpus_counter, reg, seen, is_smp_init>> /\ i' = i + 1
    BY <1>5 DEF StartCpu, counting
  <2>3. cpus[i] # Bsp /\ i \in 1 .. Len(cpus)
    BY <1>5 DEF StartCpu, At, Place
  <2>4. (\E k \in 1 .. i' - 1 : cpus[k] = Bsp) <=> (\E k \in 1 .. i - 1 : cpus[k] = Bsp)
    BY <2>2, <2>3
  <2> QED
    BY <1>2, <2>1, <2>2, <2>4, KeepsCounted DEF Finished
<1>6. CASE LoopEnds \/ WaitMore
  <2>1. stage'[Bsp] # "incremented" /\ \A d \in CPUs \ {Bsp} : stage'[d] = stage[d]
    BY <1>6 DEF LoopEnds, WaitMore, Goto, TaskInv, TypeOK
  <2>2. UNCHANGED <<started_cpus_counter, reg, seen, is_smp_init, i>>
    BY <1>6 DEF LoopEnds, WaitMore, counting, starting
  <2> QED
    BY <1>2, <2>1, <2>2, KeepsCounted DEF Finished
<1>7. CASE LoadStarted \/ AllStarted
  <2>1. stage'[Bsp] # "incremented" /\ \A d \in CPUs \ {Bsp} : stage'[d] = stage[d]
    BY <1>7 DEF LoadStarted, AllStarted, Goto, TaskInv, TypeOK
  <2>2. UNCHANGED <<started_cpus_counter, reg, i>>
    BY <1>7 DEF LoadStarted, AllStarted, starting
  <2>3. Finished' = Finished
    BY <2>1, <2>2 DEF Finished
  <2>4. CASE LoadStarted
    <3>1. seen' = started_cpus_counter /\ is_smp_init' = is_smp_init
      BY <2>4 DEF LoadStarted
    <3> QED
      BY <1>2, <2>1, <2>2, <2>3, <3>1 DEF Counted
  <2>5. CASE AllStarted
    <3>1. seen' = seen /\ seen = Len(cpus) /\ stage'[Bsp] = "up"
      BY <2>5 DEF AllStarted, At, Goto, TaskInv, TypeOK
    <3>2. Cardinality(CPUs) <= Cardinality(Finished)
      BY <3>1, FinishedFinite, CpusFinite DEF Counted
    <3>3. Finished = CPUs
      BY <3>2, FinishedFinite, CpusFinite, FS_Subset
    <3> QED
      BY <2>1, <2>2, <2>3, <3>1, <3>3 DEF Counted
  <2> QED
    BY <1>7, <2>4, <2>5
<1> QED
  BY <1>3, <1>4, <1>5, <1>6, <1>7 DEF SmpInit

(* Every step keeps the counter behind the finished CPUs.                  *)
LEMMA NextCounted == TaskInv /\ Place /\ Counted /\ [Next]_vars => Counted'
<1> SUFFICES ASSUME TaskInv, Place, Counted, [Next]_vars PROVE Counted'
  OBVIOUS
<1>1. CASE UNCHANGED vars
  BY <1>1, KeepsCounted DEF vars, counting, starting, Finished
<1> QED
  BY <1>1, StepCounted, SmpInitCounted DEF Next

(* started_cpus_counter may lag behind the CPUs that have finished         *)
(* cpu_init, but is never ahead of them.                                   *)
THEOREM SmpCountInvariant == Spec => [](TaskInv /\ Place /\ Counted)
  BY InitTask, NextTask, InitPlace, NextPlace, InitCounted, NextCounted, PTL DEF Spec

(* So all have finished when it shows their number.                        *)
LEMMA CountedMeansAllStarted == TaskInv /\ Place /\ Counted => InitMeansAllStarted
<1> SUFFICES ASSUME TaskInv, Place, Counted, is_smp_init PROVE Started = CPUs
  BY DEF InitMeansAllStarted
<1>1. stage[Bsp] = "up" /\ Finished = CPUs
  BY DEF Counted
<1>2. PICK k \in 1 .. i - 1 : cpus[k] = Bsp
  BY <1>1, Cpus DEF Finished
<1>3. local[Bsp].is_bsp
  <2>1. local[Bsp] = Record(k) /\ k \in 1 .. Len(cpus)
    BY <1>2, Cpus DEF Place
  <2> QED
    BY <1>2, <2>1, RecordOf
<1> QED
  BY <1>1, <1>2, <1>3, Cpus DEF Started, Finished

(* When smp_init returns, every CPU has been through cpu_init, for any     *)
(* number of CPUs and whatever increments are lost.                        *)
THEOREM SmpInitMeansAllStarted == Spec => []InitMeansAllStarted
  BY SmpCountInvariant, CountedMeansAllStarted, PTL

-----------------------------------------------------------------------------
(* pmm_alloc, while one CPU at a time is in it.                            *)

(* The pages of free_at_start that no call has returned.                   *)
Unallocated == free_at_start \ UNION {Span(b) : b \in blocks}

(* No n clear pages follow each other in lo .. hi - 1.                     *)
NoRun(lo, hi, n) ==
  \A s \in Nat : lo <= s /\ s + n <= hi => ~ (s .. s + n - 1 \subseteq clear)

SearchCall(o) ==
  /\ DOMAIN o = {"step", "pages", "pass", "run", "page_index", "end"}
  /\ o.step = "search" /\ o.pages \in Nat \ {0} /\ o.pass \in {1, 2}
  /\ o.run \in Nat /\ o.page_index \in Nat /\ o.end \in Nat

From(o) == IF o.pass = 1 THEN cached_page_index ELSE 0

(* A search has counted the clear pages before page_index, and has not     *)
(* passed a run; the second knows that the first has found none.           *)
Searching(o) ==
  /\ SearchCall(o) /\ clear = Unallocated
  /\ o.end = IF o.pass = 1 THEN HighestPage ELSE cached_page_index
  /\ o.run < o.pages /\ From(o) + o.run <= o.page_index
  /\ o.page_index - o.run .. o.page_index - 1 \subseteq clear
  /\ From(o) + o.run = o.page_index \/ o.page_index - o.run - 1 \notin clear
  /\ NoRun(From(o), o.page_index, o.pages)
  /\ o.pass = 2 => NoRun(cached_page_index, HighestPage, o.pages)

Run(o) == o.end - o.pages .. o.end - 1

(* The run that was found is marked bit by bit.                            *)
Found(o) ==
  /\ o.pages \in Nat \ {0} /\ o.end \in Nat /\ o.pages <= o.end
  /\ Run(o) \subseteq Unallocated

Marking(o) ==
  /\ Found(o) /\ o.bit \in Run(o)
  /\ clear = Unallocated \ (o.end - o.pages .. o.bit - 1)

Marked(o) == Found(o) /\ clear = Unallocated \ Run(o)

(* Where a call is, while it is the only one.                              *)
Progress(o) ==
  /\ o.step \in {"idle", "failed", "search", "mark", "store", "cache", "count", "zero"}
  /\ o.step = "search" => Searching(o)
  /\ o.step = "mark" => Marking(o)
  /\ o.step = "store" => Marking(o) /\ o.byte = clear \cap Byte(o.bit)
  /\ o.step = "cache" => Marked(o)
  /\ o.step = "count" => Marked(o) /\ cached_page_index = o.end
  /\ o.step = "zero" => Marked(o) /\ cached_page_index = o.end /\ o.free = free_pages
  /\ o.step = "failed" =>
       o.pages \in Nat \ {0} /\ \A s \in clear : ~ (s .. s + o.pages - 1 \subseteq clear)

Exact ==
  /\ ~ corrupt /\ clear \subseteq 1 .. HighestPage - 1
  /\ free_pages = Cardinality(Unallocated)
  /\ cached_page_index \in Nat /\ (cached_page_index = 0 \/ cached_page_index - 1 \notin clear)
  /\ \A c, d \in CPUs : Calling(c) /\ Calling(d) => c = d
  /\ (\A c \in CPUs : ~ Calling(c)) => clear = Unallocated
  /\ \A c \in CPUs : Progress(op[c])

(* Nobody frees a page while the CPUs start.                               *)
AllocInv ==
  /\ free_at_start \subseteq 1 .. HighestPage - 1
  /\ ~ contended => Exact

-----------------------------------------------------------------------------
(* The search.                                                             *)
LEMMA NoRunLonger ==
  ASSUME NEW lo \in Nat, NEW r \in Nat, NEW p \in Nat, NEW n \in Nat \ {0}, NoRun(lo, p, n),
         r < n, lo + r <= p, lo + r = p \/ p - r - 1 \notin clear, p \in clear => r + 1 < n
  PROVE  NoRun(lo, p + 1, n)
<1> SUFFICES ASSUME NEW s \in Nat, lo <= s, s + n <= p + 1, s .. s + n - 1 \subseteq clear PROVE FALSE
  BY DEF NoRun
<1>1. s + n = p + 1
  BY DEF NoRun
<1>2. p \in s .. s + n - 1
  BY <1>1
<1>3. r + 1 < n
  BY <1>2
<1>4. lo + r # p /\ p - r - 1 \in s .. s + n - 1
  BY <1>1, <1>3
<1> QED
  BY <1>4

(* The block that a call has marked is the last: no run of clear pages     *)
(* goes across cached_page_index, so the two searches see them all.        *)
LEMMA TwoSearches ==
  ASSUME Exact, NEW n \in Nat \ {0}, NoRun(0, cached_page_index, n), NoRun(cached_page_index, HighestPage, n),
         NEW s \in clear
  PROVE  ~ (s .. s + n - 1 \subseteq clear)
<1> SUFFICES ASSUME s .. s + n - 1 \subseteq clear PROVE FALSE
  OBVIOUS
<1>1. s \in Nat /\ HighestPage \in Nat /\ cached_page_index \in Nat
  BY SmpAssumption DEF Exact
<1>2. s + n - 1 \in clear
  BY <1>1
<1>3. s + n <= HighestPage
  BY <1>1, <1>2 DEF Exact
<1>4. ~ (cached_page_index <= s) /\ ~ (s + n <= cached_page_index)
  BY <1>1, <1>3 DEF NoRun
<1>5. cached_page_index - 1 \in s .. s + n - 1 /\ cached_page_index # 0
  BY <1>1, <1>4
<1> QED
  BY <1>5 DEF Exact

(* Only one CPU is in pmm_alloc: the others are not, or have failed.       *)
LEMMA Others ==
  ASSUME Exact, NEW c \in CPUs, Calling(c), NEW d \in CPUs, d # c,
         op'[d] = op[d], clear' \subseteq clear
  PROVE  ~ Calling(d) /\ ~ Calling(d)' /\ Progress(op[d])'
<1>1. ~ Calling(d) /\ Progress(op[d])
  BY DEF Exact
<1>2. op[d].step \in {"idle", "failed"} /\ ~ Calling(d)'
  BY <1>1 DEF Calling
<1>3. op[d].step = "failed" =>
        op[d].pages \in Nat \ {0} /\ \A s \in clear' : ~ (s .. s + op[d].pages - 1 \subseteq clear')
  BY <1>1 DEF Progress
<1> QED
  BY <1>1, <1>2, <1>3 DEF Progress

(* A step of the call.                                                     *)
LEMMA Advances ==
  ASSUME Exact, NEW c \in CPUs, Calling(c), \A d \in CPUs \ {c} : op'[d] = op[d],
         clear' \subseteq clear, ~ corrupt', free_pages' = Cardinality(Unallocated'),
         cached_page_index' \in Nat, cached_page_index' = 0 \/ cached_page_index' - 1 \notin clear',
         ~ Calling(c)' => clear' = Unallocated',
         Progress(op[c])'
  PROVE  Exact'
<1>1. \A d \in CPUs \ {c} : ~ Calling(d)' /\ Progress(op[d])'
  BY Others
<1>2. clear' \subseteq 1 .. HighestPage - 1
  BY DEF Exact
<1>3. \A d, e \in CPUs : Calling(d)' /\ Calling(e)' => d = e
  BY <1>1
<1>4. (\A d \in CPUs : ~ Calling(d)') => clear' = Unallocated'
  OBVIOUS
<1>5. \A d \in CPUs : Progress(op[d])'
  BY <1>1
<1> QED
  BY <1>2, <1>3, <1>4, <1>5 DEF Exact

(* One bit of the search.                                                   *)
LEMMA SearchBitExact ==
  ASSUME TaskInv, Exact, NEW c \in CPUs, SearchBit(c)
  PROVE  Exact'
<1> DEFINE o == op[c]
<1>1. /\ o.step = "search" /\ o.page_index < o.end
      /\ UNCHANGED <<clear, cached_page_index, free_pages, blocks, corrupt, free_at_start>>
  BY DEF SearchBit, outcome
<1>2. /\ Calling(c) /\ Searching(o) /\ Unallocated' = Unallocated
  BY <1>1 DEF Exact, Progress, Calling, Unallocated
<1>3. DOMAIN op = CPUs
  BY DEF TaskInv, TypeOK
<1>4. /\ SearchCall(o) /\ o.pages \in Nat \ {0} /\ o.run \in Nat /\ o.page_index \in Nat /\ o.end \in Nat
      /\ o.pass \in {1, 2} /\ cached_page_index \in Nat /\ From(o) \in Nat /\ HighestPage \in Nat
  BY <1>2, SmpAssumption DEF Searching, SearchCall, Exact, From
<1> HIDE DEF o
<1>5. CASE o.page_index \in clear /\ o.run + 1 = o.pages
  <2>1. op' = [op EXCEPT ![c] = [step |-> "mark", pages |-> o.pages, end |-> o.page_index + 1,
                                 bit |-> o.page_index + 1 - o.pages]]
    BY <1>5 DEF SearchBit, o
  <2>2. /\ op'[c].step = "mark" /\ op'[c].pages = o.pages /\ op'[c].end = o.page_index + 1
        /\ op'[c].bit = o.page_index + 1 - o.pages /\ \A d \in CPUs \ {c} : op'[d] = op[d]
    BY <1>3, <2>1
  <2>3. o.page_index - o.run = o.page_index + 1 - o.pages /\ o.pages <= o.page_index + 1
    BY <1>2, <1>4, <1>5 DEF Searching
  <2>4. o.page_index + 1 - o.pages .. o.page_index \subseteq clear
    <3>1. \A p \in o.page_index + 1 - o.pages .. o.page_index :
            p \in o.page_index - o.run .. o.page_index - 1 \/ p = o.page_index
      BY <1>4, <2>3
    <3> QED
      BY <1>2, <1>5, <3>1 DEF Searching
  <2>5. Run(op[c])' = o.page_index + 1 - o.pages .. o.page_index
    BY <1>4, <2>2 DEF Run
  <2>6. Found(op[c])'
    <3>1. Run(op[c])' \subseteq Unallocated'
      BY <1>2, <2>4, <2>5 DEF Searching
    <3>2. op'[c].pages \in Nat \ {0} /\ op'[c].end \in Nat /\ op'[c].pages <= op'[c].end
      BY <1>4, <2>2, <2>3
    <3> QED
      BY <3>1, <3>2 DEF Found
  <2>7. op'[c].bit \in Run(op[c])'
    BY <1>4, <2>2, <2>5
  <2>8. op'[c].end - op'[c].pages .. op'[c].bit - 1 = {}
    BY <1>4, <2>2
  <2>9. Marking(op[c])'
    BY <1>1, <1>2, <2>6, <2>7, <2>8 DEF Marking, Searching
  <2>10. Progress(op[c])' /\ Calling(c)'
    BY <2>2, <2>9 DEF Progress, Calling
  <2> QED
    BY <1>1, <1>2, <2>2, <2>10, Advances DEF Exact
<1>6. CASE ~ (o.page_index \in clear /\ o.run + 1 = o.pages)
  <2> DEFINE run == IF o.page_index \in clear THEN o.run + 1 ELSE 0
  <2>1. run \in Nat /\ run < o.pages /\ run # o.pages
    BY <1>2, <1>4, <1>6 DEF Searching
  <2>2. op' = [op EXCEPT ![c] = [o EXCEPT !.run = run, !.page_index = @ + 1]]
    BY <2>1 DEF SearchBit, o, run
  <2> HIDE DEF run
  <2>3. /\ op'[c] = [o EXCEPT !.run = run, !.page_index = @ + 1]
        /\ \A d \in CPUs \ {c} : op'[d] = op[d]
    BY <1>3, <2>2
  <2>4. /\ SearchCall(op'[c])
        /\ op'[c].pages = o.pages /\ op'[c].pass = o.pass /\ op'[c].end = o.end
        /\ op'[c].run = run /\ op'[c].page_index = o.page_index + 1
    <3>1. PICK n : n = op'[c]
      OBVIOUS
    <3>2. n = [o EXCEPT !.run = run, !.page_index = @ + 1] /\ SearchCall(o) /\ run \in Nat
      BY <1>4, <2>1, <2>3, <3>1
    <3>3. /\ SearchCall(n) /\ n.pages = o.pages /\ n.pass = o.pass /\ n.end = o.end
          /\ n.run = run /\ n.page_index = o.page_index + 1
      <4>1. o.page_index + 1 \in Nat
        BY <1>4
      <4>2. /\ DOMAIN n = DOMAIN o /\ n.step = o.step /\ n.pages = o.pages /\ n.pass = o.pass /\ n.end = o.end
            /\ n.run = run /\ n.page_index = o.page_index + 1
        BY <3>2 DEF SearchCall
      <4> QED
        BY <3>2, <4>1, <4>2 DEF SearchCall
    <3> QED
      BY <3>1, <3>3
  <2>5. From(op[c])' = From(o)
    BY <1>1, <2>4 DEF From
  <2>6. NoRun(From(o), o.page_index + 1, o.pages)
    <3>1. o.page_index \in clear => o.run + 1 < o.pages
      BY <1>2, <1>4, <1>6 DEF Searching
    <3> QED
      BY <1>2, <1>4, <3>1, NoRunLonger DEF Searching
  <2>7. From(o) + run <= o.page_index + 1
    BY <1>2, <1>4 DEF Searching, run
  <2>8. (o.page_index + 1) - run .. (o.page_index + 1) - 1 \subseteq clear
    <3> SUFFICES ASSUME NEW p \in (o.page_index + 1) - run .. (o.page_index + 1) - 1 PROVE p \in clear
      OBVIOUS
    <3>1. o.page_index \in clear
      BY <1>4 DEF run
    <3>2. p = o.page_index \/ p \in o.page_index - o.run .. o.page_index - 1
      BY <1>4, <3>1 DEF run
    <3> QED
      BY <1>2, <3>1, <3>2 DEF Searching
  <2>9. From(o) + run = o.page_index + 1 \/ (o.page_index + 1) - run - 1 \notin clear
    <3>1. CASE o.page_index \in clear
      BY <1>2, <1>4, <3>1 DEF Searching, run
    <3>2. CASE o.page_index \notin clear
      BY <1>4, <3>2 DEF run
    <3> QED
      BY <3>1, <3>2
  <2>10. o.pass = 2 => NoRun(cached_page_index, HighestPage, o.pages)
    BY <1>2 DEF Searching
  <2>11. NoRun(From(op[c]), op[c].page_index, op[c].pages)'
    BY <1>1, <2>4, <2>5, <2>6 DEF NoRun
  <2>12. (op[c].pass = 2 => NoRun(cached_page_index, HighestPage, op[c].pages))'
    BY <1>1, <2>4, <2>10 DEF NoRun
  <2>13. Searching(op[c])'
    BY <1>1, <1>2, <2>1, <2>4, <2>5, <2>7, <2>8, <2>9, <2>11, <2>12 DEF Searching
  <2>14. Progress(op[c])' /\ Calling(c)'
    BY <2>4, <2>13 DEF Progress, Calling, SearchCall
  <2> QED
    BY <1>1, <1>2, <2>3, <2>14, Advances DEF Exact
<1> QED
  BY <1>5, <1>6

(* The second search begins.                                                *)
LEMMA SearchAgainExact ==
  ASSUME TaskInv, Exact, NEW c \in CPUs, SearchAgain(c)
  PROVE  Exact'
<1> DEFINE o == op[c]
<1>1. /\ o.step = "search" /\ o.page_index >= o.end /\ o.pass = 1
      /\ op' = [op EXCEPT ![c].pass = 2, ![c].run = 0, ![c].page_index = 0, ![c].end = cached_page_index]
      /\ UNCHANGED <<clear, cached_page_index, free_pages, blocks, corrupt, free_at_start>>
  BY DEF SearchAgain, outcome
<1>2. /\ Calling(c) /\ Searching(o) /\ Unallocated' = Unallocated
  BY <1>1 DEF Exact, Progress, Calling, Unallocated
<1>3. DOMAIN op = CPUs
  BY DEF TaskInv, TypeOK
<1>4. /\ SearchCall(o) /\ o.pages \in Nat \ {0} /\ o.page_index \in Nat
      /\ cached_page_index \in Nat /\ HighestPage \in Nat
  BY <1>2, SmpAssumption DEF Searching, SearchCall, Exact
<1> HIDE DEF o
<1>5. /\ op'[c] = [o EXCEPT !.pass = 2, !.run = 0, !.page_index = 0, !.end = cached_page_index]
      /\ \A d \in CPUs \ {c} : op'[d] = op[d]
  BY <1>1, <1>3 DEF o
<1>6. /\ SearchCall(op'[c]) /\ op'[c].pages = o.pages /\ op'[c].pass = 2
      /\ op'[c].run = 0 /\ op'[c].page_index = 0 /\ op'[c].end = cached_page_index
  <2>1. PICK n : n = op'[c]
    OBVIOUS
  <2>2. n = [o EXCEPT !.pass = 2, !.run = 0, !.page_index = 0, !.end = cached_page_index] /\ SearchCall(o)
    BY <1>4, <1>5, <2>1
  <2>3. /\ SearchCall(n) /\ n.pages = o.pages /\ n.pass = 2 /\ n.end = cached_page_index
        /\ n.run = 0 /\ n.page_index = 0
    <3>1. /\ DOMAIN n = DOMAIN o /\ n.step = o.step /\ n.pages = o.pages /\ n.pass = 2
          /\ n.end = cached_page_index /\ n.run = 0 /\ n.page_index = 0
      BY <2>2 DEF SearchCall
    <3> QED
      BY <1>4, <2>2, <3>1 DEF SearchCall
  <2> QED
    BY <2>1, <2>3
<1>7. NoRun(cached_page_index, HighestPage, o.pages)
  <2>1. NoRun(cached_page_index, o.page_index, o.pages) /\ o.page_index >= HighestPage
    BY <1>1, <1>2 DEF Searching, From
  <2> QED
    BY <1>4, <2>1 DEF NoRun
<1>8. NoRun(0, 0, o.pages)
  BY <1>4 DEF NoRun
<1>9. From(op[c])' = 0
  BY <1>6 DEF From
<1>10. (NoRun(From(op[c]), op[c].page_index, op[c].pages))' /\ (NoRun(cached_page_index, HighestPage, op[c].pages))'
  BY <1>1, <1>6, <1>7, <1>8, <1>9 DEF NoRun
<1>11. Searching(op[c])'
  <2>1. clear' = Unallocated'
    BY <1>1, <1>2 DEF Searching
  <2>2. op'[c].run < op'[c].pages /\ From(op[c])' + op'[c].run = op'[c].page_index
    BY <1>4, <1>6, <1>9
  <2>3. op'[c].page_index - op'[c].run .. op'[c].page_index - 1 = {}
    BY <1>6
  <2>4. From(op[c])' + op'[c].run <= op'[c].page_index
    BY <1>6, <1>9
  <2>5. op'[c].end = cached_page_index' /\ op'[c].pass = 2
    BY <1>1, <1>6
  <2> QED
    BY <1>6, <1>10, <2>1, <2>2, <2>3, <2>4, <2>5 DEF Searching
<1>12. Progress(op[c])' /\ Calling(c)'
  BY <1>6, <1>11 DEF Progress, Calling, SearchCall
<1> QED
  BY <1>1, <1>2, <1>5, <1>12, Advances DEF Exact

(* "Out of memory" is true.                                                *)
LEMMA SearchFailsExact ==
  ASSUME TaskInv, Exact, NEW c \in CPUs, SearchFails(c)
  PROVE  Exact'
<1> DEFINE o == op[c]
<1>1. /\ o.step = "search" /\ o.page_index >= o.end /\ o.pass = 2
      /\ op' = [op EXCEPT ![c] = [step |-> "failed", pages |-> o.pages]]
      /\ UNCHANGED <<clear, cached_page_index, free_pages, blocks, corrupt, free_at_start>>
  BY DEF SearchFails, outcome
<1>2. /\ Calling(c) /\ Searching(o) /\ Unallocated' = Unallocated
  BY <1>1 DEF Exact, Progress, Calling, Unallocated
<1>3. DOMAIN op = CPUs
  BY DEF TaskInv, TypeOK
<1>4. /\ o.pages \in Nat \ {0} /\ o.page_index \in Nat /\ cached_page_index \in Nat
  BY <1>2 DEF Searching, SearchCall, Exact
<1>5. /\ op'[c].step = "failed" /\ op'[c].pages = o.pages /\ \A d \in CPUs \ {c} : op'[d] = op[d]
  BY <1>1, <1>3
<1>6. NoRun(0, cached_page_index, o.pages)
  <2>1. NoRun(0, o.page_index, o.pages) /\ o.page_index >= cached_page_index
    BY <1>1, <1>2 DEF Searching, From
  <2> QED
    BY <1>4, <2>1 DEF NoRun
<1>7. NoRun(cached_page_index, HighestPage, o.pages)
  BY <1>1, <1>2 DEF Searching
<1>8. \A s \in clear : ~ (s .. s + o.pages - 1 \subseteq clear)
  BY <1>4, <1>6, <1>7, TwoSearches
<1>9. Progress(op[c])'
  BY <1>1, <1>4, <1>5, <1>8 DEF Progress
<1> QED
  BY <1>1, <1>2, <1>5, <1>9, Advances DEF Exact, Searching

(* bitmap_set_bit, its load.                                               *)
LEMMA LoadByteExact ==
  ASSUME TaskInv, Exact, NEW c \in CPUs, LoadByte(c)
  PROVE  Exact'
<1> DEFINE o == op[c]
<1>1. /\ o.step = "mark"
      /\ op' = [op EXCEPT ![c] = [step |-> "store", pages |-> o.pages, end |-> o.end,
                                  bit |-> o.bit, byte |-> clear \cap Byte(o.bit)]]
      /\ UNCHANGED <<clear, cached_page_index, free_pages, blocks, corrupt, free_at_start>>
  BY DEF LoadByte, outcome
<1>2. Calling(c) /\ Marking(o) /\ Unallocated' = Unallocated /\ DOMAIN op = CPUs
  BY <1>1 DEF Exact, Progress, Calling, Unallocated, TaskInv, TypeOK
<1> HIDE DEF o
<1>3. /\ op'[c].step = "store" /\ op'[c].pages = o.pages /\ op'[c].end = o.end /\ op'[c].bit = o.bit
      /\ op'[c].byte = clear \cap Byte(o.bit) /\ \A d \in CPUs \ {c} : op'[d] = op[d]
  BY <1>1, <1>2
<1>4. Run(op[c])' = Run(o)
  BY <1>3 DEF Run
<1>5. Marking(op[c])'
  BY <1>1, <1>2, <1>3, <1>4 DEF Marking, Found
<1>6. Progress(op[c])' /\ Calling(c)'
  BY <1>1, <1>3, <1>5 DEF Progress, Calling
<1> QED
  BY <1>1, <1>2, <1>3, <1>6, Advances DEF Exact

(* Its store clears nothing but this bit, since nobody else has written.   *)
LEMMA StoreByteExact ==
  ASSUME TaskInv, Exact, NEW c \in CPUs, StoreByte(c)
  PROVE  Exact'
<1> DEFINE o == op[c]
<1>1. /\ o.step = "store"
      /\ clear' = (clear \ Byte(o.bit)) \cup (o.byte \ {o.bit})
      /\ op' = [op EXCEPT ![c] = [step |-> IF o.bit + 1 = o.end THEN "cache" ELSE "mark",
                                  pages |-> o.pages, end |-> o.end, bit |-> o.bit + 1]]
      /\ UNCHANGED <<cached_page_index, free_pages, blocks, corrupt, free_at_start>>
  BY DEF StoreByte, outcome
<1>2. /\ Calling(c) /\ Marking(o) /\ o.byte = clear \cap Byte(o.bit)
      /\ Unallocated' = Unallocated /\ DOMAIN op = CPUs
  BY <1>1 DEF Exact, Progress, Calling, Unallocated, TaskInv, TypeOK
<1> HIDE DEF o
<1>3. /\ op'[c].step = (IF o.bit + 1 = o.end THEN "cache" ELSE "mark") /\ op'[c].pages = o.pages
      /\ op'[c].end = o.end /\ op'[c].bit = o.bit + 1 /\ \A d \in CPUs \ {c} : op'[d] = op[d]
  BY <1>1, <1>2
<1>4. /\ o.pages \in Nat \ {0} /\ o.end \in Nat /\ o.pages <= o.end /\ o.bit \in Run(o) /\ Run(o) \subseteq Unallocated
      /\ clear = Unallocated \ (o.end - o.pages .. o.bit - 1)
  BY <1>2 DEF Marking, Found
<1>5. o.bit \in Int /\ o.end - o.pages <= o.bit /\ o.bit <= o.end - 1
  BY <1>4 DEF Run
<1>6. o.bit \in clear
  BY <1>4, <1>5
<1>7. o.bit \in Byte(o.bit)
  <2>1. o.bit \in 0 .. HighestPage - 1
    <3>1. o.bit \in 1 .. HighestPage - 1 /\ HighestPage \in Nat
      BY <1>6, SmpAssumption DEF Exact
    <3> QED
      BY <3>1
  <2> QED
    BY <2>1, Zenon DEF Byte
<1>8. clear' = clear \ {o.bit}
  BY <1>1, <1>2, <1>7
<1>9. clear' = Unallocated' \ (o.end - o.pages .. (o.bit + 1) - 1)
  <2>1. \A p : p \in o.end - o.pages .. (o.bit + 1) - 1 <=> p \in o.end - o.pages .. o.bit - 1 \/ p = o.bit
    BY <1>4, <1>5
  <2> QED
    BY <1>2, <1>4, <1>8, <2>1
<1>10. Run(op[c])' = Run(o)
  BY <1>3 DEF Run
<1>11. Found(op[c])'
  BY <1>2, <1>3, <1>4, <1>10 DEF Found
<1>12. Progress(op[c])' /\ Calling(c)'
  <2>1. CASE o.bit + 1 = o.end
    <3>1. o.end - o.pages .. (o.bit + 1) - 1 = Run(o)
      BY <2>1 DEF Run
    <3>2. op'[c].step = "cache"
      BY <1>3, <2>1
    <3>3. Marked(op[c])'
      BY <1>9, <1>10, <1>11, <3>1 DEF Marked
    <3> QED
      BY <3>2, <3>3 DEF Progress, Calling
  <2>2. CASE o.bit + 1 # o.end
    <3>1. o.bit + 1 \in Run(o)
      BY <1>4, <1>5, <2>2 DEF Run
    <3>2. op'[c].step = "mark"
      BY <1>3, <2>2
    <3>3. Marking(op[c])'
      BY <1>3, <1>9, <1>10, <1>11, <3>1 DEF Marking
    <3> QED
      BY <3>2, <3>3 DEF Progress, Calling
  <2> QED
    BY <2>1, <2>2
<1>13. cached_page_index' \in Nat /\ (cached_page_index' = 0 \/ cached_page_index' - 1 \notin clear') /\ ~ corrupt'
       /\ free_pages' = Cardinality(Unallocated') /\ clear' \subseteq clear
  BY <1>1, <1>2, <1>8 DEF Exact
<1> QED
  BY <1>2, <1>3, <1>12, <1>13, Advances

(* The block now ends at cached_page_index.                                 *)
LEMMA StoreCacheExact ==
  ASSUME TaskInv, Exact, NEW c \in CPUs, StoreCache(c)
  PROVE  Exact'
<1> DEFINE o == op[c]
<1>1. /\ o.step = "cache" /\ cached_page_index' = o.end
      /\ op' = [op EXCEPT ![c] = [o EXCEPT !.step = "count"]]
      /\ UNCHANGED <<clear, free_pages, blocks, corrupt, free_at_start>>
  BY DEF StoreCache, outcome
<1>2. Calling(c) /\ Marked(o) /\ Unallocated' = Unallocated /\ DOMAIN op = CPUs /\ "step" \in DOMAIN o
  BY <1>1 DEF Exact, Progress, Calling, Unallocated, TaskInv, TypeOK
<1> HIDE DEF o
<1>3. op'[c].step = "count" /\ op'[c].pages = o.pages /\ op'[c].end = o.end /\ \A d \in CPUs \ {c} : op'[d] = op[d]
  <2>1. op'[c] = [o EXCEPT !.step = "count"] /\ \A d \in CPUs \ {c} : op'[d] = op[d]
    BY <1>1, <1>2
  <2>2. PICK n : n = op'[c]
    OBVIOUS
  <2>3. n = [o EXCEPT !.step = "count"]
    BY <2>1, <2>2
  <2>4. n.step = "count" /\ n.pages = o.pages /\ n.end = o.end
    BY <1>2, <2>3
  <2> QED
    BY <2>1, <2>2, <2>4
<1>4. Run(op[c])' = Run(o)
  BY <1>3 DEF Run
<1>5. Marked(op[c])'
  BY <1>1, <1>2, <1>3, <1>4 DEF Marked, Found
<1>6. Progress(op[c])' /\ Calling(c)'
  BY <1>1, <1>3, <1>5 DEF Progress, Calling
<1>7. o.end \in Nat /\ o.end - 1 \notin clear
  <2>1. o.end \in Nat /\ o.pages \in Nat \ {0} /\ o.end - 1 \in Run(o)
    BY <1>2 DEF Marked, Found, Run
  <2> QED
    BY <1>2, <2>1 DEF Marked
<1>8. cached_page_index' \in Nat /\ cached_page_index' - 1 \notin clear' /\ ~ corrupt'
      /\ free_pages' = Cardinality(Unallocated') /\ clear' \subseteq clear
  BY <1>1, <1>2, <1>7 DEF Exact
<1> QED
  BY <1>2, <1>3, <1>6, <1>8, Advances

(* The load of free_pages.                                                  *)
LEMMA LoadFreeExact ==
  ASSUME TaskInv, Exact, NEW c \in CPUs, LoadFree(c)
  PROVE  Exact'
<1> DEFINE o == op[c]
<1>1. /\ o.step = "count"
      /\ op' = [op EXCEPT ![c] = [step |-> "zero", pages |-> o.pages, end |-> o.end, free |-> free_pages]]
      /\ UNCHANGED <<clear, cached_page_index, free_pages, blocks, corrupt, free_at_start>>
  BY DEF LoadFree, outcome
<1>2. Calling(c) /\ Marked(o) /\ cached_page_index = o.end /\ Unallocated' = Unallocated /\ DOMAIN op = CPUs
  BY <1>1 DEF Exact, Progress, Calling, Unallocated, TaskInv, TypeOK
<1> HIDE DEF o
<1>3. /\ op'[c].step = "zero" /\ op'[c].pages = o.pages /\ op'[c].end = o.end /\ op'[c].free = free_pages
      /\ \A d \in CPUs \ {c} : op'[d] = op[d]
  BY <1>1, <1>2
<1>4. Run(op[c])' = Run(o)
  BY <1>3 DEF Run
<1>5. Marked(op[c])'
  BY <1>1, <1>2, <1>3, <1>4 DEF Marked, Found
<1>6. Progress(op[c])' /\ Calling(c)'
  BY <1>1, <1>2, <1>3, <1>5 DEF Progress, Calling
<1> QED
  BY <1>1, <1>2, <1>3, <1>6, Advances DEF Exact

(* The block that is returned overlaps no other, and free_pages loses its  *)
(* pages.                                                                  *)
LEMMA ReturnExact ==
  ASSUME TaskInv, Exact, IsFiniteSet(free_at_start), NEW c \in CPUs, Return(c)
  PROVE  Exact'
<1> DEFINE o == op[c]
           b == [start |-> o.end - o.pages, pages |-> o.pages]
<1>1. /\ o.step = "zero" /\ free_pages' = o.free - o.pages
      /\ corrupt' = (\E d \in blocks : Span(b) \cap Span(d) # {})
      /\ blocks' = blocks \cup {b}
      /\ op' = [op EXCEPT ![c] = Idle]
      /\ UNCHANGED <<clear, cached_page_index, free_at_start>>
  BY DEF Return
<1>2. Calling(c) /\ Marked(o) /\ o.free = free_pages /\ DOMAIN op = CPUs
  BY <1>1 DEF Exact, Progress, Calling, TaskInv, TypeOK
<1>3. op'[c].step = "idle" /\ \A d \in CPUs \ {c} : op'[d] = op[d]
  BY <1>1, <1>2 DEF Idle
<1> HIDE DEF o
<1>4. o.pages \in Nat \ {0} /\ o.end \in Nat /\ Run(o) \subseteq Unallocated /\ clear = Unallocated \ Run(o)
  BY <1>2 DEF Marked, Found
<1>5. Span(b) = Run(o)
  BY <1>4 DEF Span, Run
<1> HIDE DEF b
<1>6. ~ corrupt'
  BY <1>1, <1>4, <1>5 DEF Unallocated
<1>7. Unallocated' = Unallocated \ Run(o)
  BY <1>1, <1>5 DEF Unallocated
<1>8. Cardinality(Unallocated') = Cardinality(Unallocated) - o.pages
  <2>1. IsFiniteSet(Unallocated)
    BY FS_Subset DEF Unallocated
  <2>2. Cardinality(Run(o)) = o.pages
    <3>1. o.end - o.pages \in Int /\ o.end - 1 \in Int
      BY <1>4
    <3>2. Cardinality(Run(o)) = IF o.end - o.pages > o.end - 1 THEN 0 ELSE (o.end - 1) - (o.end - o.pages) + 1
      BY <3>1, FS_Interval DEF Run
    <3> QED
      BY <1>4, <3>2
  <2>3. Unallocated \cap Run(o) = Run(o)
    BY <1>4
  <2>4. Cardinality(Unallocated \ Run(o)) = Cardinality(Unallocated) - Cardinality(Unallocated \cap Run(o))
    BY <2>1, FS_Difference
  <2> QED
    BY <1>7, <2>2, <2>3, <2>4
<1>9. free_pages' = Cardinality(Unallocated')
  BY <1>1, <1>2, <1>8 DEF Exact
<1>10. Progress(op[c])' /\ clear' = Unallocated' /\ clear' \subseteq clear
  BY <1>1, <1>3, <1>4, <1>7 DEF Progress
<1>11. cached_page_index' \in Nat /\ (cached_page_index' = 0 \/ cached_page_index' - 1 \notin clear')
  BY <1>1 DEF Exact
<1> QED
  BY <1>2, <1>3, <1>6, <1>9, <1>10, <1>11, Advances

(* A call begins where nobody else is in one.                              *)
LEMMA CallExact ==
  ASSUME TaskInv, Exact, NEW c \in CPUs, op[c] = Idle, NEW n \in Nat \ {0}, CallAlloc(c, n), ~ contended'
  PROVE  Exact'
<1>1. /\ op' = [op EXCEPT ![c] = [step |-> "search", pages |-> n, pass |-> 1, run |-> 0,
                                  page_index |-> cached_page_index, end |-> HighestPage]]
      /\ UNCHANGED <<clear, cached_page_index, free_pages, blocks, corrupt, free_at_start>>
      /\ \A d \in CPUs \ {c} : ~ Calling(d)
  BY DEF CallAlloc
<1>2. DOMAIN op = CPUs /\ Unallocated' = Unallocated /\ ~ Calling(c)
  BY <1>1 DEF TaskInv, TypeOK, Unallocated, Idle, Calling
<1>3. clear = Unallocated /\ cached_page_index \in Nat /\ HighestPage \in Nat
  BY <1>1, <1>2, SmpAssumption DEF Exact
<1>4. PICK o : o = [step |-> "search", pages |-> n, pass |-> 1, run |-> 0,
                    page_index |-> cached_page_index, end |-> HighestPage]
  OBVIOUS
<1>5. op'[c] = o /\ \A d \in CPUs \ {c} : op'[d] = op[d]
  BY <1>1, <1>2, <1>4
<1>6. /\ SearchCall(o) /\ o.pages = n /\ o.pass = 1 /\ o.run = 0 /\ o.page_index = cached_page_index
      /\ o.end = HighestPage /\ o.step = "search"
  BY <1>3, <1>4 DEF SearchCall
<1>7. Searching(op[c])'
  <2>1. From(op[c])' = cached_page_index
    BY <1>1, <1>5, <1>6 DEF From
  <2>2. NoRun(From(op[c]), op[c].page_index, op[c].pages)'
    BY <1>3, <1>5, <1>6, <2>1 DEF NoRun
  <2>3. op'[c].page_index - op'[c].run .. op'[c].page_index - 1 = {}
    BY <1>3, <1>5, <1>6
  <2>4. /\ From(op[c])' + op'[c].run = op'[c].page_index /\ From(op[c])' + op'[c].run <= op'[c].page_index
        /\ op'[c].run < op'[c].pages
    BY <1>3, <1>5, <1>6, <2>1
  <2> QED
    BY <1>1, <1>2, <1>3, <1>5, <1>6, <2>2, <2>3, <2>4 DEF Searching
<1>8. Progress(op[c])' /\ Calling(c)'
  BY <1>5, <1>6, <1>7 DEF Progress, Calling
<1>9. ASSUME NEW d \in CPUs, d # c PROVE ~ Calling(d)' /\ Progress(op[d])'
  <2>1. op'[d] = op[d] /\ ~ Calling(d)'
    BY <1>1, <1>5, <1>9 DEF Calling
  <2>2. op[d].step \in {"idle", "failed"} /\ Progress(op[d])
    BY <1>1, <1>9 DEF Exact, Progress, Calling
  <2> QED
    BY <1>1, <2>1, <2>2 DEF Progress
<1>10. \A d, e \in CPUs : Calling(d)' /\ Calling(e)' => d = e
  BY <1>9
<1>11. \A d \in CPUs : Progress(op[d])'
  BY <1>8, <1>9
<1> QED
  BY <1>1, <1>2, <1>8, <1>10, <1>11 DEF Exact

(* Steps outside of pmm_alloc.                                             *)
LEMMA OutsideExact ==
  ASSUME Exact, UNCHANGED <<clear, cached_page_index, free_pages, op, blocks, corrupt, free_at_start>>
  PROVE  Exact'
<1>1. Unallocated' = Unallocated
  BY DEF Unallocated
<1>2. \A c : Calling(c)' <=> Calling(c)
  BY DEF Calling
<1>3. \A c \in CPUs : Progress(op[c])'
  <2> TAKE c \in CPUs
  <2>1. Progress(op[c])
    BY DEF Exact
  <2>2. op'[c] = op[c]
    OBVIOUS
  <2>3. Searching(op[c]) => Searching(op[c])'
    BY <1>1 DEF Searching, From, NoRun
  <2>4. (Marking(op[c]) => Marking(op[c])') /\ (Marked(op[c]) => Marked(op[c])')
    BY <1>1 DEF Marking, Marked, Found, Run
  <2> QED
    BY <2>1, <2>2, <2>3, <2>4 DEF Progress
<1> QED
  BY <1>1, <1>2, <1>3 DEF Exact

(* Nobody is in pmm_alloc when smp_init begins.                            *)
LEMMA InitAlloc == Init => AllocInv
<1> SUFFICES ASSUME Init PROVE AllocInv
  OBVIOUS
<1>1. /\ free_at_start \in FreePages /\ clear = free_at_start /\ cached_page_index = 0
      /\ free_pages = Cardinality(free_at_start) /\ op = [c \in CPUs |-> Idle] /\ blocks = {} /\ corrupt = FALSE
  BY DEF Init
<1>2. free_at_start \subseteq 1 .. HighestPage - 1
  BY <1>1, SmpAssumption
<1>3. Unallocated = free_at_start
  BY <1>1 DEF Unallocated
<1>4. \A c \in CPUs : op[c].step = "idle"
  BY <1>1 DEF Idle
<1>5. \A c \in CPUs : ~ Calling(c) /\ Progress(op[c])
  BY <1>4 DEF Calling, Progress
<1> QED
  BY <1>1, <1>2, <1>3, <1>5 DEF AllocInv, Exact

(* Every step keeps the invariant of pmm_alloc.                             *)
LEMMA NextAlloc == TaskInv /\ AllocInv /\ [Next]_vars => AllocInv'
<1> SUFFICES ASSUME TaskInv, AllocInv, [Next]_vars PROVE AllocInv'
  OBVIOUS
<1>1. IsFiniteSet(free_at_start)
  <2>1. IsFiniteSet(1 .. HighestPage - 1)
    BY SmpAssumption, FS_Interval
  <2> QED
    BY <2>1, FS_Subset DEF AllocInv
<1>2. ASSUME UNCHANGED memory PROVE AllocInv'
  BY <1>2, OutsideExact DEF memory, outcome, AllocInv
<1>3. ASSUME NEW c \in CPUs, NEW n \in Nat \ {0}, op[c] = Idle, Call(c, n) PROVE AllocInv'
  <2>1. free_at_start' = free_at_start /\ (contended => contended') /\ CallAlloc(c, n)
    BY <1>3 DEF Call, CallAlloc
  <2> QED
    BY <1>3, <2>1, CallExact DEF AllocInv
<1>4. ASSUME NEW c \in CPUs, Allocating(c) PROVE AllocInv'
  <2>1. free_at_start' = free_at_start /\ contended' = contended
    BY <1>4 DEF Allocating, SearchBit, SearchAgain, SearchFails, LoadByte, StoreByte, StoreCache, LoadFree, Return, outcome
  <2>2. ASSUME Exact PROVE Exact'
    BY <1>1, <1>4, <2>2, SearchBitExact, SearchAgainExact, SearchFailsExact, LoadByteExact, StoreByteExact,
       StoreCacheExact, LoadFreeExact, ReturnExact DEF Allocating
  <2> QED
    BY <2>1, <2>2 DEF AllocInv
<1>5. StackPages \in Nat \ {0} /\ 1 \in Nat \ {0} /\ Bsp \in CPUs
  BY SmpAssumption
<1>6. CASE SmpInit
  <2>1. CASE AllocRecord
    BY <1>3, <1>5, <2>1 DEF AllocRecord, At
  <2>2. CASE ~ AllocRecord
    <3>1. UNCHANGED memory
      BY <1>6, <2>2 DEF SmpInit, FillRecord, StartCpu, LoopEnds, LoadStarted, WaitMore, AllStarted
    <3> QED
      BY <1>2, <3>1
  <2> QED
    BY <2>1, <2>2
<1>7. ASSUME NEW c \in CPUs, Step(c) PROVE AllocInv'
  <2>1. CASE Allocating(c)
    BY <1>4, <2>1
  <2>2. CASE AllocStack(c) \/ AllocThread(c)
    BY <1>3, <1>5, <2>2 DEF AllocStack, AllocThread, At
  <2>3. CASE Wake(c) \/ AcquireTss(c) \/ WriteLow(c) \/ WriteHigh(c) \/ LoadTaskRegister(c) \/ ReleaseTss(c)
             \/ LoadCounter(c) \/ StoreCounter(c)
    <3>1. UNCHANGED memory
      BY <2>3 DEF Wake, AcquireTss, WriteLow, WriteHigh, LoadTaskRegister, ReleaseTss, LoadCounter, StoreCounter
    <3> QED
      BY <1>2, <3>1
  <2> QED
    BY <1>7, <2>1, <2>2, <2>3 DEF Step
<1>8. CASE UNCHANGED vars
  BY <1>2, <1>8 DEF vars
<1> QED
  BY <1>6, <1>7, <1>8 DEF Next

(* Until two CPUs have been in pmm_alloc at once, its blocks are disjoint, *)
(* the bitmap and free_pages are exact when nobody is in it, and "Out of   *)
(* memory" comes only where no run of free pages is left: for every state  *)
(* of the memory, any number of CPUs and every size of their stacks.       *)
THEOREM SmpExactUnlessContended == Spec => []ExactUnlessContended
<1>1. AllocInv => ExactUnlessContended
  <2> SUFFICES ASSUME Exact PROVE
        /\ ~ corrupt
        /\ \A c \in CPUs : op[c].step = "failed" =>
             ~ \E s \in clear : s .. s + op[c].pages - 1 \subseteq clear
        /\ (\A c \in CPUs : ~ Calling(c)) =>
             /\ clear = free_at_start \ UNION {Span(b) : b \in blocks}
             /\ free_pages = Cardinality(clear)
    BY DEF AllocInv, ExactUnlessContended
  <2>1. \A c \in CPUs : op[c].step = "failed" => ~ \E s \in clear : s .. s + op[c].pages - 1 \subseteq clear
    BY DEF Exact, Progress
  <2> QED
    BY <2>1 DEF Exact, Unallocated
<1>2. Init => TaskInv /\ AllocInv
  BY InitTask, InitAlloc
<1>3. (TaskInv /\ AllocInv) /\ [Next]_vars => (TaskInv /\ AllocInv)'
  BY NextTask, NextAlloc
<1> QED
  BY <1>1, <1>2, <1>3, PTL DEF Spec
=============================================================================
