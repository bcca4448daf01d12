------------------------------ MODULE SmpBoot ------------------------------
(***************************************************************************)
(* Bringing up the processors: smp_init and cpu_init of x86/smp/smp.c with *)
(* gdt_load_tss of x86/gdt/gdt.c and the memory manager they call.         *)
(*                                                                         *)
(* The bootstrap CPU allocates a struct cpu_local for every CPU of         *)
(* smp->cpus and starts the others by writing their goto_address; all CPUs *)
(* run cpu_init, concurrently with each other and with the rest of that    *)
(* loop.  gdt_load_tss takes a lock; pmm_alloc and started_cpus_counter    *)
(* have none, so they are modelled access by access: a bit is set by a     *)
(* load and a store of its byte, a counter is changed by a load and a      *)
(* store, and other CPUs run in between.                                   *)
(*                                                                         *)
(* When two blocks overlap, each CPU zeroes and fills the other's memory   *)
(* and nothing more is said of the program: corrupt stops it.              *)
(***************************************************************************)
EXTENDS Naturals, Integers, Sequences, FiniteSets

CONSTANTS
  cpus,             \* smp->cpus: the CPUs in the bootloader's order
  Bsp,              \* the one that runs kmain
  HighestPage,      \* highest_usable_page_index
  FreePages,        \* the sets of pages that may be free when smp_init starts
  StackPages,       \* pages of a CPU's stack (16)
  BITS,             \* bits in a byte of the bitmap (8)
  Nobody            \* no CPU

CPUs == {cpus[k] : k \in 1 .. Len(cpus)}

ASSUME SmpAssumption ==
  /\ cpus \in Seq(CPUs)
  /\ \A j, k \in 1 .. Len(cpus) : cpus[j] = cpus[k] => j = k
  /\ Bsp \in CPUs
  /\ HighestPage \in Nat \ {0}
  /\ FreePages \subseteq SUBSET (1 .. HighestPage - 1)
  /\ StackPages \in Nat \ {0}
  /\ BITS \in Nat \ {0}
  /\ Nobody \notin CPUs

VARIABLES
  clear, cached_page_index, free_pages,     \* the memory manager, as in Pmm.tla
  free_at_start,    \* history: the value of clear when smp_init starts
  op,               \* the call of pmm_alloc a CPU is in, or Idle
  blocks,           \* what pmm_alloc has returned
  stage,            \* where a CPU is in smp_init or cpu_init
  i,                \* the loop variable of smp_init
  local,            \* the struct cpu_local of each CPU
  goto_address,     \* the CPUs whose goto_address has been written
  tss_lock,         \* the CPU inside gdt_load_tss's lock, or Nobody
  tss_descriptor,   \* the one descriptor all CPUs share
  tr,               \* what each CPU's task register was loaded with
  started_cpus_counter,
  reg,              \* the counter as a CPU has loaded it to increment it
  seen,             \* the counter as the loop of smp_init has loaded it
  is_smp_init,
  reloads,          \* whether the build loads the counter in every turn of that loop
  contended,        \* history: two CPUs were in pmm_alloc at once
  collided,         \* history: two CPUs were in started_cpus_counter++ at once
  corrupt           \* two blocks overlap

outcome == <<contended, corrupt, free_at_start>>
memory == <<clear, cached_page_index, free_pages, op, blocks, outcome>>
tables == <<tss_lock, tss_descriptor, tr>>
counting == <<started_cpus_counter, reg, seen, is_smp_init, reloads, collided>>
starting == <<i, local, goto_address>>
vars == <<memory, tables, counting, starting, stage>>

Idle == [step |-> "idle"]
Nothing == [id |-> 0, lapic_id |-> Nobody, is_bsp |-> FALSE]

Byte(bit) == {p \in 0 .. HighestPage - 1 : p \div BITS = bit \div BITS}
Span(b) == b.start .. b.start + b.pages - 1

Init ==
  /\ free_at_start \in FreePages
  /\ clear = free_at_start
  /\ cached_page_index = 0
  /\ free_pages = Cardinality(free_at_start)
  /\ op = [c \in CPUs |-> Idle]
  /\ blocks = {}
  /\ stage = [c \in CPUs |-> IF c = Bsp THEN "loop" ELSE "off"]
  /\ i = 1
  /\ local = [c \in CPUs |-> Nothing]
  /\ goto_address = {}
  /\ tss_lock = Nobody
  /\ tss_descriptor = [low |-> Nobody, high |-> Nobody, busy |-> FALSE]
  /\ tr = [c \in CPUs |-> <<Nobody, Nobody>>]
  /\ started_cpus_counter = 0
  /\ reg = [c \in CPUs |-> 0]
  /\ seen = 0
  /\ is_smp_init = FALSE
  /\ reloads \in BOOLEAN
  /\ contended = FALSE
  /\ collided = FALSE
  /\ corrupt = FALSE

At(c, s) == ~ corrupt /\ stage[c] = s /\ op[c] = Idle

-----------------------------------------------------------------------------
(* pmm_alloc, access by access.                                            *)

Calling(c) == op[c].step \notin {"idle", "failed"}

(* The call: the first search covers [cached_page_index, highest). *)
CallAlloc(c, n) ==
  /\ op' = [op EXCEPT ![c] = [step |-> "search", pages |-> n, pass |-> 1, run |-> 0,
                              page_index |-> cached_page_index, end |-> HighestPage]]
  /\ contended' = (contended \/ \E d \in CPUs \ {c} : Calling(d))
  /\ UNCHANGED <<clear, cached_page_index, free_pages, blocks, corrupt, free_at_start>>

(* One bit of the search. *)
SearchBit(c) ==
  LET o == op[c]
      run == IF o.page_index \in clear THEN o.run + 1 ELSE 0
  IN  /\ o.step = "search" /\ o.page_index < o.end
      /\ op' = [op EXCEPT ![c] =
           IF run = o.pages
             THEN [step |-> "mark", pages |-> o.pages, end |-> o.page_index + 1,
                   bit |-> o.page_index + 1 - o.pages]
             ELSE [o EXCEPT !.run = run, !.page_index = @ + 1]]
      /\ UNCHANGED <<clear, cached_page_index, free_pages, blocks, stage, outcome>>

(* The first search has failed; the second covers [0, cached_page_index),  *)
(* with the index as it is now.                                            *)
SearchAgain(c) ==
  /\ op[c].step = "search" /\ op[c].page_index >= op[c].end /\ op[c].pass = 1
  /\ op' = [op EXCEPT ![c].pass = 2, ![c].run = 0, ![c].page_index = 0,
                      ![c].end = cached_page_index]
  /\ UNCHANGED <<clear, cached_page_index, free_pages, blocks, stage, outcome>>

(* panic("Out of memory"): this CPU stops, the others do not hear of it.   *)
SearchFails(c) ==
  /\ op[c].step = "search" /\ op[c].page_index >= op[c].end /\ op[c].pass = 2
  /\ op' = [op EXCEPT ![c] = [step |-> "failed", pages |-> op[c].pages]]
  /\ stage' = [stage EXCEPT ![c] = "panic"]
  /\ UNCHANGED <<clear, cached_page_index, free_pages, blocks, outcome>>

(* bitmap_set_bit: load the byte ... *)
LoadByte(c) ==
  LET o == op[c]
  IN  /\ o.step = "mark"
      /\ op' = [op EXCEPT ![c] = [step |-> "store", pages |-> o.pages, end |-> o.end,
                                  bit |-> o.bit, byte |-> clear \cap Byte(o.bit)]]
      /\ UNCHANGED <<clear, cached_page_index, free_pages, blocks, stage, outcome>>

(* ... and store it with the bit set.  After the last bit,                 *)
(* cached_page_index becomes the end of the run.                           *)
StoreByte(c) ==
  LET o == op[c]
  IN  /\ o.step = "store"
      /\ clear' = (clear \ Byte(o.bit)) \cup (o.byte \ {o.bit})
      /\ op' = [op EXCEPT ![c] =
           [step |-> IF o.bit + 1 = o.end THEN "cache" ELSE "mark",
            pages |-> o.pages, end |-> o.end, bit |-> o.bit + 1]]
      /\ UNCHANGED <<cached_page_index, free_pages, blocks, stage, outcome>>

StoreCache(c) ==
  /\ op[c].step = "cache"
  /\ cached_page_index' = op[c].end
  /\ op' = [op EXCEPT ![c].step = "count"]
  /\ UNCHANGED <<clear, free_pages, blocks, stage, outcome>>

(* free_pages -= pages_count, its load ... *)
LoadFree(c) ==
  LET o == op[c]
  IN  /\ o.step = "count"
      /\ op' = [op EXCEPT ![c] = [step |-> "zero", pages |-> o.pages, end |-> o.end,
                                  free |-> free_pages]]
      /\ UNCHANGED <<clear, cached_page_index, free_pages, blocks, stage, outcome>>

(* Where a call of pmm_alloc returns to. *)
After(s) == CASE s = "loop" -> "fill" [] s = "stack" -> "thread" [] s = "thread" -> "increment"

ReturnUncounted(c) ==            \* mutant: the pages stay in free_pages
  LET o == op[c]
      b == [start |-> o.end - o.pages, pages |-> o.pages]
  IN  /\ o.step = "zero"
      /\ corrupt' = \E d \in blocks : Span(b) \cap Span(d) # {}
      /\ blocks' = blocks \cup {b}
      /\ op' = [op EXCEPT ![c] = Idle]
      /\ stage' = [stage EXCEPT ![c] = After(stage[c])]
      /\ UNCHANGED <<clear, cached_page_index, free_pages, contended, free_at_start>>

(* ... and its store; then the block is zeroed and returned. *)
Return(c) ==
  LET o == op[c]
      b == [start |-> o.end - o.pages, pages |-> o.pages]
  IN  /\ o.step = "zero"
      /\ free_pages' = o.free - o.pages
      /\ corrupt' = \E d \in blocks : Span(b) \cap Span(d) # {}
      /\ blocks' = blocks \cup {b}
      /\ op' = [op EXCEPT ![c] = Idle]
      /\ stage' = [stage EXCEPT ![c] = After(stage[c])]
      /\ UNCHANGED <<clear, cached_page_index, contended, free_at_start>>

Allocating(c) ==
  /\ ~ corrupt
  /\ \/ SearchBit(c) \/ SearchAgain(c) \/ SearchFails(c)
     \/ LoadByte(c) \/ StoreByte(c) \/ StoreCache(c) \/ LoadFree(c) \/ Return(c)
  /\ UNCHANGED <<tables, counting, starting>>

-----------------------------------------------------------------------------
(* smp_init on the bootstrap CPU.                                          *)

Goto(c, s) == stage' = [stage EXCEPT ![c] = s]

Call(c, n) == CallAlloc(c, n) /\ UNCHANGED <<tables, counting, starting, stage>>

AllocRecordStarted ==            \* mutant: the CPU is started before its record is ready
  /\ At(Bsp, "loop") /\ i <= Len(cpus) /\ CallAlloc(Bsp, 1)
  /\ goto_address' = goto_address \cup {cpus[i]}
  /\ UNCHANGED <<tables, counting, stage, i, local>>

AllocRecord ==
  At(Bsp, "loop") /\ i <= Len(cpus) /\ Call(Bsp, 1)

(* The new struct cpu_local, which pmm_alloc has zeroed, is filled in and  *)
(* handed over in extra_argument; the bootstrap CPU goes on in cpu_init.   *)
FillRecord ==
  /\ At(Bsp, "fill")
  /\ local' = [local EXCEPT ![cpus[i]] =
                 [id |-> i - 1, lapic_id |-> cpus[i], is_bsp |-> cpus[i] = Bsp]]
  /\ Goto(Bsp, IF cpus[i] = Bsp THEN "lock" ELSE "start")
  /\ UNCHANGED <<memory, tables, counting, i, goto_address>>

StartCpu ==
  /\ At(Bsp, "start")
  /\ goto_address' = goto_address \cup {cpus[i]}
  /\ i' = i + 1
  /\ Goto(Bsp, "loop")
  /\ UNCHANGED <<memory, tables, counting, local>>

LoopEnds ==
  /\ At(Bsp, "loop") /\ i > Len(cpus)
  /\ Goto(Bsp, "wait")
  /\ UNCHANGED <<memory, tables, counting, starting>>

(* The waiting loop: started_cpus_counter is not volatile and "pause"      *)
(* clobbers nothing, so a build may load it once, before the first turn.   *)
LoadStarted ==
  /\ At(Bsp, "wait")
  /\ seen' = started_cpus_counter
  /\ Goto(Bsp, "test")
  /\ UNCHANGED <<memory, tables, starting, started_cpus_counter, reg, is_smp_init,
                 reloads, collided>>

WaitMore ==
  /\ At(Bsp, "test") /\ seen # Len(cpus) /\ reloads
  /\ Goto(Bsp, "wait")
  /\ UNCHANGED <<memory, tables, counting, starting>>

AllStartedButOne ==              \* mutant: the bootstrap CPU is not waited for
  /\ At(Bsp, "test") /\ seen \in {Len(cpus) - 1, Len(cpus)}
  /\ is_smp_init' = TRUE
  /\ Goto(Bsp, "up")
  /\ UNCHANGED <<memory, tables, starting, started_cpus_counter, reg, seen, reloads,
                 collided>>

AllStarted ==
  /\ At(Bsp, "test") /\ seen = Len(cpus)
  /\ is_smp_init' = TRUE
  /\ Goto(Bsp, "up")
  /\ UNCHANGED <<memory, tables, starting, started_cpus_counter, reg, seen, reloads,
                 collided>>

-----------------------------------------------------------------------------
(* cpu_init on every CPU.                                                  *)

Wake(c) ==
  /\ At(c, "off") /\ c \in goto_address
  /\ Goto(c, "lock")
  /\ UNCHANGED <<memory, tables, counting, starting>>

(* gdt_load_tss: under the lock, the base of the shared descriptor is      *)
(* written in pieces and ltr copies it into the task register.             *)
AcquireTssAnyway(c) ==           \* mutant: no lock
  /\ At(c, "lock")
  /\ tss_lock' = c
  /\ Goto(c, "low")
  /\ UNCHANGED <<memory, counting, starting, tss_descriptor, tr>>

AcquireTss(c) ==
  /\ At(c, "lock") /\ tss_lock = Nobody
  /\ tss_lock' = c
  /\ Goto(c, "low")
  /\ UNCHANGED <<memory, counting, starting, tss_descriptor, tr>>

WriteLow(c) ==
  /\ At(c, "low")
  /\ tss_descriptor' = [tss_descriptor EXCEPT !.low = c, !.busy = FALSE]
  /\ Goto(c, "high")
  /\ UNCHANGED <<memory, counting, starting, tss_lock, tr>>

WriteHigh(c) ==
  /\ At(c, "high")
  /\ tss_descriptor' = [tss_descriptor EXCEPT !.high = c]
  /\ Goto(c, "ltr")
  /\ UNCHANGED <<memory, counting, starting, tss_lock, tr>>

(* ltr marks the descriptor busy and faults on one that is busy already.   *)
LoadTaskRegister(c) ==
  /\ At(c, "ltr")
  /\ IF tss_descriptor.busy
       THEN Goto(c, "panic") /\ UNCHANGED <<tss_descriptor, tr>>
       ELSE /\ tr' = [tr EXCEPT ![c] = <<tss_descriptor.low, tss_descriptor.high>>]
            /\ tss_descriptor' = [tss_descriptor EXCEPT !.busy = TRUE]
            /\ Goto(c, "release")
  /\ UNCHANGED <<memory, counting, starting, tss_lock>>

ReleaseTssNot(c) ==              \* mutant: the lock is never released
  /\ At(c, "release")
  /\ Goto(c, "stack")
  /\ UNCHANGED <<memory, counting, starting, tables>>

ReleaseTss(c) ==
  /\ At(c, "release")
  /\ tss_lock' = Nobody
  /\ Goto(c, "stack")
  /\ UNCHANGED <<memory, counting, starting, tss_descriptor, tr>>

AllocStack(c) == At(c, "stack") /\ Call(c, StackPages)

(* The idle thread; set_gs_base and what follows up to the counter touch   *)
(* only this CPU.                                                          *)
AllocThread(c) == At(c, "thread") /\ Call(c, 1)

(* started_cpus_counter++, its load ... *)
LoadCounter(c) ==
  /\ At(c, "increment")
  /\ reg' = [reg EXCEPT ![c] = started_cpus_counter]
  /\ collided' = (collided \/ \E d \in CPUs \ {c} : stage[d] = "incremented")
  /\ Goto(c, "incremented")
  /\ UNCHANGED <<memory, tables, starting, started_cpus_counter, seen, is_smp_init, reloads>>

(* ... and its store; the bootstrap CPU returns to smp_init, the others    *)
(* halt for good.                                                          *)
StoreCounter(c) ==
  /\ At(c, "incremented")
  /\ started_cpus_counter' = reg[c] + 1
  /\ Goto(c, IF local[c].is_bsp THEN "loop" ELSE "halt")
  /\ i' = IF local[c].is_bsp THEN i + 1 ELSE i
  /\ UNCHANGED <<memory, tables, local, goto_address, reg, seen, is_smp_init, reloads,
                 collided>>

Step(c) ==
  \/ Allocating(c)
  \/ Wake(c)
  \/ AcquireTss(c) \/ WriteLow(c) \/ WriteHigh(c) \/ LoadTaskRegister(c) \/ ReleaseTss(c)
  \/ AllocStack(c) \/ AllocThread(c)
  \/ LoadCounter(c) \/ StoreCounter(c)

SmpInit ==
  AllocRecord \/ FillRecord \/ StartCpu \/ LoopEnds \/ LoadStarted \/ WaitMore \/ AllStarted

Next == SmpInit \/ \E c \in CPUs : Step(c)

(* Every CPU executes its next instruction in the end. *)
Fairness == WF_vars(SmpInit) /\ \A c \in CPUs : WF_vars(Step(c))

Spec == Init /\ [][Next]_vars /\ Fairness

-----------------------------------------------------------------------------
(* The CPUs that have stored their increment. *)
Started == {c \in CPUs : stage[c] = "halt"} \cup
           (IF local[Bsp].is_bsp /\ stage[Bsp] \in {"loop", "fill", "start", "wait", "test", "up"}
                 /\ \E k \in 1 .. i - 1 : cpus[k] = Bsp
              THEN {Bsp} ELSE {})

(* Once smp_is_init() says so, every CPU really has finished cpu_init,     *)
(* even though increments of the counter can be lost: panic relies on it   *)
(* when it sends the halt interrupt and reads the timer.                   *)
InitMeansAllStarted == is_smp_init => Started = CPUs

(* A CPU that has left gdt_load_tss has its own task state segment in its  *)
(* task register, not a mix of two CPUs' addresses; ltr never faults.      *)
OwnTaskState ==
  \A c \in CPUs :
    stage[c] \in {"release", "stack", "thread", "increment", "incremented", "halt"}
      => tr[c] = <<c, c>>

(* A CPU runs cpu_init only with a complete record of its own.             *)
RunsWithItsOwnRecord ==
  \A k \in 1 .. Len(cpus) :
    LET c == cpus[k]
    IN  stage[c] \notin {"off", "loop", "fill", "start", "panic"}
          => local[c] = [id |-> k - 1, lapic_id |-> c, is_bsp |-> c = Bsp]

(* Until two CPUs have been in pmm_alloc at the same time no two blocks    *)
(* overlap, "Out of memory" stops a CPU only when no run of the size it    *)
(* wanted is left, and the bitmap and the counter are exact whenever       *)
(* nobody is in it.                                                        *)
ExactUnlessContended ==
  ~ contended =>
    /\ ~ corrupt
    /\ \A c \in CPUs : op[c].step = "failed" =>
         ~ \E s \in clear : s .. s + op[c].pages - 1 \subseteq clear
    /\ (\A c \in CPUs : ~ Calling(c)) =>
         /\ clear = free_at_start \ UNION {Span(b) : b \in blocks}
         /\ free_pages = Cardinality(clear)

(* The kernel comes up, unless a call of pmm_alloc was damaged by another, *)
(* two increments collided, the build does not reload the counter, or a    *)
(* CPU ran out of memory.                                                  *)
Excuse ==
  \/ corrupt
  \/ collided
  \/ ~ reloads
  \/ \E c \in CPUs : stage[c] = "panic"

BootFinishes == <>(is_smp_init \/ Excuse)
=============================================================================
