---------------------------- MODULE PanicConsole ----------------------------
(***************************************************************************)
(* Text on the screen, and how the kernel ends.                            *)
(*                                                                         *)
(* printf holds a lock while it puts out the characters of one call, and   *)
(* fb_prepare_color .. fb_reset_color hold another around the calls whose  *)
(* text is to have a colour.  An exception handler never returns to what   *)
(* it interrupted, and the interrupt by which panic stops the other CPUs   *)
(* does not either: what they had locked stays locked.                     *)
(*                                                                         *)
(* The model starts where idt_init has returned.  The two locks are two    *)
(* instances of FifoLock, which Spinlock implements; a CPU's program       *)
(* counter is the sequence of instructions it has left to execute, a call  *)
(* of printf puts out two characters, and lost increments of               *)
(* started_cpus_counter are left to SmpBoot.                               *)
(***************************************************************************)
EXTENDS Naturals, Sequences, FiniteSets

CONSTANTS
  CPUs,
  Machines,         \* [cpus, troubles]: smp->cpus in the bootloader's order, and how many failing
                    \* calls, exceptions and late halt interrupts there are at most
  Bsp,              \* the CPU that runs kmain
  LapicMoved        \* the MADT puts the LAPIC elsewhere than at 0xfee00000

ListedBy(m) == {m.cpus[k] : k \in 1 .. Len(m.cpus)}

ASSUME ConsoleAssumption ==
  /\ \A m \in Machines :
       /\ m.cpus \in Seq(CPUs) /\ Bsp \in ListedBy(m) /\ m.troubles \in Nat
       /\ \A j, k \in 1 .. Len(m.cpus) : m.cpus[j] = m.cpus[k] => j = k
  /\ LapicMoved \in BOOLEAN

VARIABLES
  machine,          \* the one the kernel runs on
  fb_queue, fb_inside,              \* the lock of framebuffer.c
  printf_queue, printf_inside,      \* the lock of printf.c
  prog,             \* what each CPU has left to execute; <<>> is a halt for good
  fb_color,
  last,             \* the character put out last: by whom, and in what colour
  interrupts,       \* the CPUs that take interrupts
  halt_pending,     \* the CPUs the halt interrupt has been sent to
  paged,            \* the CPUs that run on the kernel's page tables
  has_cpu_local,    \* the CPUs whose gs base points to their idle thread
  counted,          \* the CPUs that started_cpus_counter counts
  is_smp_init,
  troubles,         \* failing calls, exceptions and sleeps too short so far
  abandoned,        \* history: a CPU was stopped that held or waited for a lock
  panics,           \* history: the CPUs that have entered panic
  said              \* history: the CPUs that have printed "All CPUs halted."

fb == INSTANCE FifoLock WITH queue <- fb_queue, inside <- fb_inside
printf == INSTANCE FifoLock WITH queue <- printf_queue, inside <- printf_inside

fb_lock == <<fb_queue, fb_inside>>
printf_lock == <<printf_queue, printf_inside>>
locks == <<fb_lock, printf_lock>>
screen == <<fb_color, last>>
cpu == <<paged, has_cpu_local, counted, is_smp_init>>
history == <<troubles, abandoned, panics, said>>
vars == <<machine, locks, screen, cpu, history, prog, interrupts, halt_pending>>

cpus == machine.cpus
Listed == {cpus[k] : k \in 1 .. Len(cpus)}

-----------------------------------------------------------------------------
(* The programs.  An instruction is an operation and its operand.          *)

Op(operation) == <<<<operation, "none">>>>

Locked(lock, body) ==
  <<<<"join", lock>>, <<"enter", lock>>>> \o body \o <<<<"leave", lock>>>>

(* The text of one call of printf or vprintf; colour is the one its caller *)
(* has prepared, or "any".                                                 *)
Printf(colour) == Locked("printf", <<<<"put", colour>>, <<"put", colour>>>>)

InColourUnlocked(colour, body) ==       \* mutant: fb_prepare_color takes no lock
  <<<<"set", colour>>>> \o body \o <<<<"set", "base">>>>

InColourUnreleased(colour, body) ==     \* mutant: fb_reset_color keeps the lock
  <<<<"join", "fb">>, <<"enter", "fb">>, <<"set", colour>>>> \o body \o <<<<"set", "base">>>>

(* fb_prepare_color(colour) ... fb_reset_color() *)
InColour(colour, body) ==
  Locked("fb", <<<<"set", colour>>>> \o body \o <<<<"set", "base">>>>)

Warning == InColour("warn", Printf("warn"))

(* The title in colour, then the message, the stack trace and the end.     *)
Panic ==
  Op("cli") \o Op("send") \o Op("sleep")
    \o InColour("panic", Op("get_cpu_local") \o Printf("panic"))
    \o Printf("any") \o Printf("any") \o Printf("any") \o Op("said")

(* isr_exception_handler: the registers, then panic. *)
ExceptionHandler == Printf("any") \o Panic

LapicInit == IF LapicMoved THEN Warning ELSE <<>>

CpuInitCountedEarly ==           \* mutant: counted before the line is printed
  Op("load_pagemap") \o Op("pmm_alloc") \o Op("set_gs_base") \o LapicInit \o Op("sti")
    \o Op("count") \o Printf("any")

(* cpu_init, without what only this CPU notices: two calls of pmm_alloc as *)
(* one, the warning of lapic_init, the line and the counter.               *)
CpuInit ==
  Op("load_pagemap") \o Op("pmm_alloc") \o Op("set_gs_base") \o LapicInit \o Op("sti")
    \o Printf("any") \o Op("count")

(* The loop of smp_init from the k-th CPU of the bootloader's list on.      *)
SmpInitLoop(k) == IF k > Len(cpus) THEN <<>> ELSE Op("pmm_alloc") \o <<<<"start", k>>>>

(* kmain from pmm_init on; vmm_init loads the page tables before its last  *)
(* line, and madt_init and hpet_init stop without their tables.            *)
Kmain ==
  Op("pmm_alloc") \o Printf("any") \o Op("load_pagemap") \o Printf("any") \o Op("acpi_find_sdt")
    \o SmpInitLoop(1) \o Op("wait") \o Panic

Off == Op("off")

-----------------------------------------------------------------------------
Init ==
  /\ machine \in Machines
  /\ fb!Init
  /\ printf!Init
  /\ prog = [c \in CPUs |-> IF c = Bsp THEN Kmain ELSE Off]
  /\ fb_color = "base"
  /\ last = [by |-> Bsp, wanted |-> "any", colour |-> "base"]
  /\ interrupts = {}
  /\ halt_pending = {}
  /\ paged = {}
  /\ has_cpu_local = {}
  /\ counted = {}
  /\ is_smp_init = FALSE
  /\ troubles = 0
  /\ abandoned = FALSE
  /\ panics = {}
  /\ said = {}

At(c, operation) == prog[c] # <<>> /\ Head(prog[c])[1] = operation
Operand(c) == Head(prog[c])[2]
Divert(c, program) == prog' = [prog EXCEPT ![c] = program] /\ UNCHANGED machine
GoOn(c) == Divert(c, Tail(prog[c]))

Holds(c) == fb!Queued(c) \/ printf!Queued(c)

(* The tickets are taken, waited for and given back. *)
Join(c) ==
  /\ At(c, "join")
  /\ \/ Operand(c) = "fb" /\ fb!Join(c) /\ UNCHANGED printf_lock
     \/ Operand(c) = "printf" /\ printf!Join(c) /\ UNCHANGED fb_lock
  /\ GoOn(c)
  /\ UNCHANGED <<screen, cpu, history, interrupts, halt_pending>>

EnterAtOnce(c) ==                \* mutant: the ticket is not waited for
  /\ At(c, "enter")
  /\ \/ Operand(c) = "fb" /\ fb_inside' = {c} /\ UNCHANGED <<fb_queue, printf_lock>>
     \/ Operand(c) = "printf" /\ printf_inside' = {c} /\ UNCHANGED <<printf_queue, fb_lock>>
  /\ GoOn(c)
  /\ UNCHANGED <<screen, cpu, history, interrupts, halt_pending>>

Enter(c) ==
  /\ At(c, "enter")
  /\ \/ Operand(c) = "fb" /\ fb!Enter(c) /\ UNCHANGED printf_lock
     \/ Operand(c) = "printf" /\ printf!Enter(c) /\ UNCHANGED fb_lock
  /\ GoOn(c)
  /\ UNCHANGED <<screen, cpu, history, interrupts, halt_pending>>

Leave(c) ==
  /\ At(c, "leave")
  /\ \/ Operand(c) = "fb" /\ fb!Leave(c) /\ UNCHANGED printf_lock
     \/ Operand(c) = "printf" /\ printf!Leave(c) /\ UNCHANGED fb_lock
  /\ GoOn(c)
  /\ UNCHANGED <<screen, cpu, history, interrupts, halt_pending>>

(* fb_color = colour *)
SetColour(c) ==
  /\ At(c, "set")
  /\ fb_color' = Operand(c)
  /\ GoOn(c)
  /\ UNCHANGED <<locks, cpu, history, interrupts, halt_pending, last>>

(* _putchar draws with fb_color as it is. *)
Putchar(c) ==
  /\ At(c, "put")
  /\ last' = [by |-> c, wanted |-> Operand(c), colour |-> fb_color]
  /\ GoOn(c)
  /\ UNCHANGED <<locks, cpu, history, interrupts, halt_pending, fb_color>>

-----------------------------------------------------------------------------
(* Steps of one CPU that touch neither the locks nor the screen.           *)

Bystanders == <<locks, screen>>

LoadPagemap(c) ==
  /\ At(c, "load_pagemap")
  /\ paged' = paged \cup {c}
  /\ GoOn(c)
  /\ UNCHANGED <<Bystanders, has_cpu_local, counted, is_smp_init, history, interrupts, halt_pending>>

SetGsBase(c) ==
  /\ At(c, "set_gs_base")
  /\ has_cpu_local' = has_cpu_local \cup {c}
  /\ GoOn(c)
  /\ UNCHANGED <<Bystanders, paged, counted, is_smp_init, history, interrupts, halt_pending>>

Sti(c) ==
  /\ At(c, "sti")
  /\ interrupts' = interrupts \cup {c}
  /\ GoOn(c)
  /\ UNCHANGED <<Bystanders, cpu, history, halt_pending>>

(* started_cpus_counter++ *)
Count(c) ==
  /\ At(c, "count")
  /\ counted' = counted \cup {c}
  /\ GoOn(c)
  /\ UNCHANGED <<Bystanders, paged, has_cpu_local, is_smp_init, history, interrupts, halt_pending>>

(* What smp_init does with the k-th CPU: the bootstrap CPU calls cpu_init, *)
(* every other one is sent there.                                          *)
CallCpuInit(c) ==
  /\ At(c, "start") /\ cpus[Operand(c)] = Bsp
  /\ Divert(c, CpuInit \o SmpInitLoop(Operand(c) + 1) \o Tail(prog[c]))
  /\ UNCHANGED <<Bystanders, cpu, history, interrupts, halt_pending>>

GotoAddress(c) ==
  /\ At(c, "start") /\ cpus[Operand(c)] # Bsp
  /\ prog' = [prog EXCEPT ![c] = SmpInitLoop(Operand(c) + 1) \o Tail(@), ![cpus[Operand(c)]] = CpuInit]
  /\ UNCHANGED <<machine, Bystanders, cpu, history, interrupts, halt_pending>>

WaitForAllButOne(c) ==           \* mutant: the loop stops one CPU short
  /\ At(c, "wait") /\ Cardinality(counted) >= Len(cpus) - 1
  /\ is_smp_init' = TRUE
  /\ GoOn(c)
  /\ UNCHANGED <<Bystanders, paged, has_cpu_local, counted, history, interrupts, halt_pending>>

(* The end of smp_init. *)
Wait(c) ==
  /\ At(c, "wait") /\ counted = Listed
  /\ is_smp_init' = TRUE
  /\ GoOn(c)
  /\ UNCHANGED <<Bystanders, paged, has_cpu_local, counted, history, interrupts, halt_pending>>

-----------------------------------------------------------------------------
(* What can go wrong: "Out of memory", a missing ACPI table, an exception. *)

Succeed(c) ==
  /\ \/ At(c, "pmm_alloc") /\ GoOn(c)
     \/ At(c, "acpi_find_sdt") /\ Divert(c, Printf("any") \o Tail(prog[c]))
  /\ UNCHANGED <<Bystanders, cpu, history, interrupts, halt_pending>>

Fail(c) ==
  /\ troubles < machine.troubles
  /\ \/ At(c, "pmm_alloc") /\ Divert(c, Panic)
     \/ At(c, "acpi_find_sdt") /\ Divert(c, Warning \o Panic)
  /\ troubles' = troubles + 1
  /\ UNCHANGED <<Bystanders, cpu, abandoned, panics, said, interrupts, halt_pending>>

(* An exception takes the CPU out of whatever it was doing. *)
EnterHandler(c) ==
  /\ Divert(c, ExceptionHandler)
  /\ interrupts' = interrupts \ {c}
  /\ abandoned' = (abandoned \/ Holds(c))
  /\ UNCHANGED <<Bystanders, cpu, panics, said, halt_pending>>

Exception(c) ==
  /\ prog[c] # Off /\ troubles < machine.troubles
  /\ EnterHandler(c)
  /\ troubles' = troubles + 1

-----------------------------------------------------------------------------
(* panic *)

Cli(c) ==
  /\ At(c, "cli")
  /\ interrupts' = interrupts \ {c}
  /\ panics' = panics \cup {c}
  /\ GoOn(c)
  /\ UNCHANGED <<Bystanders, cpu, troubles, abandoned, said, halt_pending>>

(* The halt interrupt goes to all the others, once smp_is_init().          *)
SendHalt(c) ==
  /\ At(c, "send")
  /\ IF is_smp_init
       THEN halt_pending' = halt_pending \cup (Listed \ {c}) /\ GoOn(c)
       ELSE Divert(c, Tail(Tail(prog[c]))) /\ UNCHANGED halt_pending
  /\ UNCHANGED <<Bystanders, cpu, history, interrupts>>

(* hpet_msleep(10): within ten milliseconds every CPU that takes           *)
(* interrupts has been stopped,                                            *)
Sleep(c) ==
  /\ At(c, "sleep") /\ halt_pending \cap interrupts \subseteq {c}
  /\ GoOn(c)
  /\ UNCHANGED <<Bystanders, cpu, history, interrupts, halt_pending>>

(* or panic goes on beside a CPU that is late, for it waits for no answer. *)
SleepTooShort(c) ==
  /\ At(c, "sleep") /\ ~ halt_pending \cap interrupts \subseteq {c}
  /\ troubles < machine.troubles
  /\ GoOn(c)
  /\ troubles' = troubles + 1
  /\ UNCHANGED <<Bystanders, cpu, abandoned, panics, said, interrupts, halt_pending>>

(* halt_handler *)
HaltHandler(c) ==
  /\ c \in halt_pending \cap interrupts
  /\ Divert(c, <<>>)
  /\ interrupts' = interrupts \ {c}
  /\ halt_pending' = halt_pending \ {c}
  /\ abandoned' = (abandoned \/ Holds(c))
  /\ UNCHANGED <<Bystanders, cpu, troubles, panics, said>>

(* get_cpu_local() reads through the gs base.  Where that is still zero,   *)
(* the bootloader's page tables return what they map there and the         *)
(* kernel's fault.                                                         *)
GetCpuLocal(c) ==
  /\ At(c, "get_cpu_local")
  /\ \/ /\ c \in has_cpu_local \/ c \notin paged
        /\ GoOn(c)
        /\ UNCHANGED <<Bystanders, cpu, history, interrupts, halt_pending>>
     \/ /\ c \notin has_cpu_local
        /\ EnterHandler(c)
        /\ UNCHANGED troubles

SayHalted(c) ==
  /\ At(c, "said")
  /\ said' = said \cup {c}
  /\ GoOn(c)
  /\ UNCHANGED <<Bystanders, cpu, troubles, abandoned, panics, interrupts, halt_pending>>

-----------------------------------------------------------------------------
Step(c) ==
  \/ Join(c) \/ Enter(c) \/ Leave(c) \/ SetColour(c) \/ Putchar(c)
  \/ LoadPagemap(c) \/ SetGsBase(c) \/ Sti(c) \/ Count(c)
  \/ CallCpuInit(c) \/ GotoAddress(c) \/ Wait(c)
  \/ Succeed(c) \/ Fail(c)
  \/ Cli(c) \/ SendHalt(c) \/ Sleep(c) \/ GetCpuLocal(c) \/ SayHalted(c)

Next == \E c \in CPUs : Step(c) \/ HaltHandler(c) \/ Exception(c) \/ SleepTooShort(c)

(* Every CPU executes its next instruction in the end and takes its        *)
(* interrupts; nobody owes an exception or a late interrupt.               *)
Fairness == \A c \in CPUs : WF_vars(Step(c)) /\ WF_vars(HaltHandler(c))

Spec == Init /\ [][Next]_vars /\ Fairness

-----------------------------------------------------------------------------
(* The characters of one call of printf follow each other: while a CPU has *)
(* put out some and not yet released the lock, the last one on the screen  *)
(* is its own, whatever the others are doing or are stopped at.            *)
BetweenCharacters(c) ==
  /\ prog[c] # <<>>
  /\ \/ Head(prog[c]) = <<"leave", "printf">>
     \/ At(c, "put") /\ prog[c][2] = <<"leave", "printf">>

TextUnbroken == \A c \in CPUs : BetweenCharacters(c) => last.by = c

(* Text written between fb_prepare_color and fb_reset_color has that       *)
(* colour in every character, also while other CPUs print, warn, panic or  *)
(* fault.  (Text written outside of them may come out in any colour.)      *)
PreparedColourKept == last.wanted # "any" => last.colour = last.wanted

(* A CPU that has stopped for good has given back every lock: at the end   *)
(* of its own panic, and when the halt interrupt stops it, because after   *)
(* smp_init nobody prints with interrupts enabled.  Only an exception      *)
(* leaves a lock behind.                                                   *)
HaltedHoldNothing == \A c \in CPUs : prog[c] = <<>> => ~ Holds(c)

Halted(c) == prog[c] \in {<<>>, Off}

(* "All CPUs halted. You can now shutdown your PC."                        *)
AllCpusHaltedIsTrue == \A c \in said : \A d \in CPUs : Halted(d)

(* The panic at the end of kmain says that all CPUs are halted, and they   *)
(* are.  It is only so while nothing fails and no CPU is late: panic stops *)
(* the others only after smp_init, never those whose interrupts are        *)
(* disabled, and does not look whether they have stopped.                  *)
HaltedUnlessTrouble == troubles = 0 => AllCpusHaltedIsTrue

(* "These routines are thread safe and reentrant": no CPU begins a call of *)
(* printf while an earlier one of its own keeps the lock it will wait for. *)
PrintfIsReentrant ==
  \A c \in CPUs :
    At(c, "join") /\ Operand(c) = "printf" => ~ printf!Queued(c)

(* Whoever enters panic gets to the end of its message, unless a lock has  *)
(* been abandoned.                                                         *)
PanicReported ==
  \A c \in CPUs : c \in panics ~> c \in said \/ abandoned

(* The kernel ends with a complete message of panic on the screen: kmain   *)
(* has no other end, and if a CPU fails on the way it says so itself.      *)
KernelEndsInAPanic == <>(said # {} \/ (abandoned /\ troubles > 0))
=============================================================================
