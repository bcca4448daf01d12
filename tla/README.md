# Praxeis: models, checks and proofs

Praxeis is a small x86-64 kernel in C. The bootloader (limine) calls `kmain` on
one CPU, the bootstrap CPU. `kmain` initialises each part in turn, starts the
other CPUs, gives the bootloader's memory to the allocator and ends, as its
last statement, in `panic`. There is no pre-emption and no user mode: the CPUs
are the only concurrent actors, and interrupts are used for two things,
exceptions and the interrupt by which `panic` stops the other CPUs.

This directory holds TLA+ modules of that kernel, configurations that check
them with TLC, and proofs that TLAPS checks. Paths below are relative to
`src/` of the repository (`memory/pmm.c` is `src/memory/pmm.c`).

## The parts of the system

| Part | State | Operations | Module |
|---|---|---|---|
| spinlock (`lib/spinlock`) | two ticket words | acquire, release | `Spinlock`, `FifoLock` |
| physical memory (`memory/pmm.c`, `lib/bitmap`) | bitmap, cached index, free counter, the memory map | init, alloc, free, reclaim | `Pmm`, `PageAllocator` |
| virtual memory (`memory/vmm.c`, `linker.ld`) | page tables | init, map page, load | `Vmm`, `AddressSpace` |
| SMP bring-up (`x86/smp`, `x86/gdt`) | records and stage of each CPU, task-state descriptor, started counter | smp_init, cpu_init, gdt_load_tss | `SmpBoot` |
| text and panic (`lib/panic`, `framebuffer`, `lib/printf`, `x86/interrupts/isr.*`) | two locks, colour, interrupt flags | printf, coloured text, panic, exception, halt interrupt | `PanicConsole` |
| firmware tables (`acpi`) | RSDP revision, record arrays | acpi_init, acpi_find_sdt, madt_init | `AcpiTables` |
| formatting (`lib/printf/printf.c`) | output index | conversions, output functions | `Printf` |
| screen (`framebuffer`) | cursor, margins | draw a character, new row | `Screen` |
| timers (`timer/hpet`, `x86/apic`) | two counters | sleep, calibrate | `Timer`; the halt interrupt in `PanicConsole` |
| exceptions (`x86/gdt`, `x86/interrupts`) | descriptors, gates, the stack | init, entry stubs, handler | `Exceptions` |
| stack trace, symbols (`lib/stacktrace`, `gen_symtab.sh`) | none | lookup, walk | `Exceptions` |
| kernel entry, scheduler stub, CPU wrappers, font and image, build | | | order of calls only, or nothing |

How they interact:

* Every part but the spinlock prints, and a failure anywhere ends in `panic`;
  `panic` itself prints, uses the LAPIC and the HPET and reads the CPU's record.
* Page tables, CPU records and stacks come from `pmm_alloc`. It has **no lock**,
  and the CPUs call it at the same time while they come up.
* `pmm_init` edits the bootloader's memory map, which `vmm_init` and
  `pmm_reclaim_bootloader_memory` read later.
* The CPUs share the task-state descriptor under a lock, and
  `started_cpus_counter` without one.

What is hard about it, and therefore what the properties are about: the
unlocked allocator and counter during bring-up; two nested locks together with
exceptions and a halt interrupt that never return to what they interrupted;
ticket words that wrap around; a search with a cached index; index arithmetic
at the edges of the memory map and of fixed arrays; page tables shared by
many mappings; counters that wrap around under a comparison; a layout of the
stack that an assembler file, a C struct and the processor have to agree on.
`PROJECT.json` lists each hazard with its line and the
properties that cover it.

## The modules

**`FifoLock`** is what a lock promises: callers form a queue, the head alone
may be inside. **`Spinlock`** is the code: `DrawTicket` is the fetch-and-add of
`spinlock_acquire`, `SeeTicket` the load that ends its loop, `LoadServing` and
`StoreServing` the two accesses of `spinlock_release`. `TicketModulus` stands
for 2^32. `Spinlock` is shown to implement `FifoLock`, and `PanicConsole`
uses two instances of `FifoLock` for its locks.

**`PageAllocator`** is what a page allocator promises: pages are donated,
granted in blocks that were free, and given back. **`Pmm`** is `pmm.c` as one
CPU runs it; its actions are the turns of the loops of `pmm_init` and
`pmm_reclaim_bootloader_memory`, the two searches of `pmm_alloc` with their
outcomes, and `pmm_free`. Its `KernelSpec` is the use the kernel makes of it
(it never frees a block), its `Spec` any use of `pmm.h`. Access to bits the bitmap
does not have ends the behaviour as `"wild"`. Left out: the zeroing of pages and
the figures `pmm_init` prints. The boot protocol's guarantees about the memory
map are the assumption `PmmAssumption`.

**`SmpBoot`** is bring-up with an access-by-access `pmm_alloc`: setting a bit
is a load and a store of its byte, each unlocked counter a load and a store.
`stage[c]` is the place of a CPU in `smp_init` or `cpu_init`, `op[c]` its place
inside `pmm_alloc`. The loop of `smp_init` that waits for `started_cpus_counter`
reads a plain variable: the variable `reloads` is the compiler's choice between
loading it in each turn and loading it once. `contended`, `collided` and `corrupt`
record that a race has happened. Left out: what touches only the CPU itself
(descriptor tables, page-table register, calibration of its timer).

**`PanicConsole`** starts after `idt_init`. A CPU's program counter is the
sequence of instructions it still has to execute; `Kmain`, `CpuInit`, `Panic` and
`ExceptionHandler` are the programs. Exceptions divert a CPU anywhere, and the
ten milliseconds that `panic` sleeps may be over before a CPU has taken the halt
interrupt (`SleepTooShort`); with failing calls these happen at most
`machine.troubles` times. The fault of `get_cpu_local` without a gs base is not
counted, since the code causes it.
A printed text is two characters, enough to be broken. Lost increments of the
counter are `SmpBoot`'s subject and do not occur here.

**`AcpiTables`** is the lookup of tables and the loop over the MADT's records,
in the order of `kmain`. A table is a signature and whether its checksum is
right; a record the number in its type field and whether its length is zero.
What the numbers mean to a firmware is not part of the model: `MADT_TYPE_LAPIC`
and `MADT_TYPE_IOAPIC` are the code's own numbers (see "Findings").

**`AddressSpace`** is a plain map from pages to frames and flags; **`Vmm`** is the
walk through the levels that implements it, with the calls `vmm_init` makes in
their order, `Translate` being what the processor does with the tables. Left
out: the TLB, and running out of memory (in `PanicConsole`). `VmmAssumption` types
the memory map and the sections; `LayoutAssumption` is what the boot protocol
and the linker script see to: memory and kernel fit into the address space, and the
direct map does not reach the kernel's addresses.

**`Printf`** is the text of one call: the conversions are operators over
sequences of characters, `Cast` is what the length modifiers do to an argument,
`Magnitude` the `0 - value` in the promoted type and the cast to the unsigned
one that follow, `Item` and `Terminate` put the text out. The least value of an `int`
or a longer type overflows there, which C leaves undefined; the model
wraps around, as the machine's instruction does. What is returned
is the index cast to an `int` of `IntBits` bits. Left out: parsing of the format's
letters, upper case, and floating point, which `printf.h` switches off. The
lock of the call is in `PanicConsole`. **`Screen`** holds the operators of
`_putchar`: the cursor in pixels and the glyphs drawn; `Printf` keeps it as a
variable, and lets no NUL through to it (`_out_char`).

**`Timer`** is one CPU, its LAPIC timer and the HPET. `Nsleep` reads the counter
and computes the target, `Poll` and `Wake` are the turns of the loop,
`StartCount` and `ReadCount` the two ends of the calibration around its sleep. A
step of time is `Tick`; between two steps of the CPU pass at most `MaxStall` of
them. `Word` stands for 2^64, `Dword` for 2^32, `Moduli` for the widths a main
counter may have. Its specification is called `TimerSpec`, since `OneCpu_proofs` extends
this module and `Exceptions`. Left out: what else the registers of the LAPIC hold.

**`Exceptions`** goes from the descriptors to the last line of a trace. The stack is
a sequence of words that really holds what is pushed: the processor's words, the
stub's, those of `cpu_state_assembler`, return addresses and saved frame
pointers. `CpuStateAssembler` is the stub together with the assembler, `Walk` a
turn of the loop of `print_stacktrace`, `symtab` the table that `gen_symtab.sh`
writes. What a compiler decides is chosen in the model: whether it keeps frame
pointers, where in a function a call stands (it may be the last instruction, so that
the return address is the next function's), and whether it makes a jump of a
call. An exception may come in any function of a chain of calls, in `isr_exception_handler`, in `panic` before the trace and in `print_stacktrace`; `printf`,
which these call, has no frames here, and an exception inside it is
`PanicConsole`'s. Without frame pointers the walk reads anywhere (`"wild"`) and nothing is
promised of it. A register is its name, an address a small number. Left out:
instructions that are not on the way, and what is printed.

The `MC` modules define the small instances. Definitions marked `mutant` are
plausible mistakes in the definition that follows; substituted for it, they
must break a named property (`"mutants"` in `PROJECT.json`). They are part of
no specification.

## The runs

| Configuration | Instance | What it shows |
|---|---|---|
| `Spinlock.cfg` | 3 CPUs, 3 ticket values | exclusion, tickets in line, first come first served, no starvation |
| `Pmm.cfg` | all 840 layouts of three entries below page 10, one with its top at 12; any use of `pmm.h`, blocks of 1 and 3 pages | conservation of pages, exact counter, first fit, implements `PageAllocator`, what a failed search misses; the bitmap is left only in three named cases |
| `SmpBoot.cfg` | 3 CPUs, the pages they need or one less | bring-up finishes unless a named race occurs; own task state and record; exact allocator, and out of memory only if memory is, until two CPUs are in it |
| `Console.cfg` | 3 CPUs with at most 1 trouble (failing call, exception, late halt interrupt), 2 CPUs with 2 | lines and prepared colours hold, halted CPUs hold no lock, panics are reported; without trouble the final panic is reached and true |
| `Acpi.cfg` | all lists of up to 3 tables; all MADTs of up to 5 records of types 0, 1 and 16, arrays of 2 and 1 | the table returned is the right one; records of types 0 and 16 kept, all others not; stops only with a reason; loops end |
| `Vmm.cfg` | tables of 4 entries, 2 and 3 levels, 12 maps, 4 section layouts | implements `AddressSpace`, tables form a tree, protection, memory mapped |
| `Printf.cfg` | 53760 conversions, and 4662 texts of up to 3 items; a screen of 3 columns and 3 rows | numbers are as in C within the stated limits; contract of `snprintf`; `printf` shows everything, in reading order and inside the margins |
| `Timer.cfg` | words of 5 bits, counters of 3 and 5, 3 requests, 2 LAPIC rates, hold-ups of 2 ticks | sleeps are as long as asked and at most a hold-up longer, end unless their target is out of reach; the calibration is right up to hold-ups |
| `Exceptions.cfg` | 7 functions, 2 of them static, chains of 3 calls, one exception of any vector anywhere and a second one in its report | the handler is given the interrupted registers; the trace names the callers and ends |

Three more runs are expected to fail; see "Findings".

### The bounds, and why they are enough

* Ticket width: three values for three CPUs is the tightest case the
  assumption allows, so the words wrap constantly and a full lock has both
  words equal. The proofs remove the bound.
* Memory: with two bits to a byte and two bytes to a page, one page of bitmap
  covers four pages, so ten pages need bitmaps of one, two and three pages,
  and the tops that the size computation rounds away (5 and 9) are among them.
  Requests of one and three pages can miss across the cached index. The
  proofs hold for every memory map.
* Bring-up: two CPUs suffice for every race on a byte or a counter; the third
  lets two CPUs be started by one that has not finished. The bootstrap CPU is the
  second in the list, so CPUs are started both before and after
  its own `cpu_init`. With a byte of four bits, blocks share bytes.
* Console: two troubles are one inside the handling of another; a third repeats
  that. `LapicMoved` is true so that coloured and plain lines mix. A third CPU is
  needed to be stopped by a panic while a second waits; it comes with one trouble.
* Tables: arrays of two and one elements are overrun, exactly filled and not
  filled within five records; three tables give a damaged first occurrence
  before a good second one.
* Page tables: four entries per table, so the direct map, the sections and
  the low memory share upper tables and separate below; half pages give
  unaligned bounds.
* Formatting: a conversion buffer of four characters for words of five bits
  keeps the ratio of the code (32 characters, 64 bits); widths and precisions
  go one beyond the buffer. A long has five bits, an int four and a char three, and the least
value of each is among the arguments. A text has at most nine characters, so that the
int in which its length is returned can and cannot hold it.
* Screen: three columns and rows, with a width that is no multiple of the glyph's,
  so that a row is filled, overfilled and ended by a newline in its last column.
* Timer: one of the counters is as wide as the target and one is narrower, and
  from most of its values the longer request reaches beyond its end; the largest
  request wraps the product, the faster LAPIC the frequency.
* Exceptions: three frames give a caller, a caller's caller and the one that a tail
  call hides; one static function lies between two others and one at the end of
  the table. Functions are two bytes long, so that a return address is inside its function or
at the next one's start. The second exception is one with and one without an error code, after one of
the same two (`NestedVectors`): it does the same to the stack whatever the vector, and a third
would repeat the second. A half of an offset has two bits, so that addresses need all four.

### Fairness

`Spinlock` assumes that a CPU that spins or holds the lock executes its next
instruction, and not that anybody calls acquire. `SmpBoot` and `PanicConsole`
assume it of each CPU separately: the hardware runs the CPUs independently and the
kernel never takes one away from its code. A CPU with interrupts enabled takes
the halt interrupt in the end. Exceptions, failing calls, late interrupts and the
compiler's bad choices are never owed. `FifoLock` lends `PanicConsole` no fairness of its
own: entering is a step of the CPU that waits. `AcpiTables` and `Vmm` are sequential and assume
that the program goes on. `Timer` assumes that the counter counts and the CPU executes
its next instruction, but not that anybody calls; the bound on hold-ups is in the guard of `Tick`.
`Exceptions` assumes that a CPU that reports an exception or a panic goes on doing so. `CHECK_DEADLOCK FALSE` stands wherever the program
stops: halted CPUs, the end of an initialisation.

### What the conditional properties say

* `BootFinishes` holds only with its excuses, and each excuse is something the
  code allows: two CPUs take the same pages (`corrupt`), an increment of
  `started_cpus_counter` is lost or could be (`collided`), the build keeps the counter in a
  register (`reloads`), a CPU runs out of memory.
* `ExactUnlessContended` says nothing once two CPUs have been in `pmm_alloc` together; that is as much as can be said of it.
* `PanicReported` excuses panics after an exception inside a
  lock: the handler waits for the lock of the code it interrupted.
* `MemoryMapped` excepts the bitmap above 4 GiB, which the kernel does leave
  unmapped because `pmm_init` has cut it out of the map that `vmm_init` reads.
* `HaltedUnlessTrouble` is about runs in which nothing fails and every CPU takes the halt
  interrupt within the ten milliseconds; with one failure it is false, as
  `ConsoleAllHalted.cfg` shows, and with a late CPU too, since `panic` waits for no answer.
  The other properties of `PanicConsole` allow for late CPUs.
* `OutputContract` says what is returned for texts whose length an `int` can hold; for a longer
  one the cast of `lib/printf/printf.c:863` returns another number, negative ones among them.
* `SleepEnds` excepts targets at or beyond the end of the counter's range, which the
  loop may never see reached: an HPET of 32 bits at 10 MHz gets there in seven minutes.
  `SleepInBounds` and `FrequencyInBounds` except products and sums that wrap around.
* `TraceNamesCallers` and `TraceEnds` hold only for code that keeps frame pointers,
  which the Makefile does not ask for. Behind an exception the trace ends, because the
  word above the saved `rbp` is the vector: the code interrupted is never shown.
* `TextOnScreen` keeps text above the lower margin only if the rows it needs are there;
  nothing in the code scrolls or stops.
* `StraysOnlyAtTheEdges` names the memory maps on which the bitmap is too small.
* `TablesAreRead` excepts a MADT record of length zero, on which the loop stays.
* `NumbersAsInC` excludes `#`, a precision with left alignment and what does not fit
  in the conversion buffer; the kernel's own formats use none of these. With `#` the
  model, like the code, lets the prefix take the place of two digits when a number
  fills its width without padding (`lib/printf/printf.c:244`).

### Findings

* `ConsoleAllHalted.cfg`: `panic` prints "All CPUs halted. You can now shutdown
  your PC." (`lib/panic/panic.c:41`), but before `smp_init` is done it stops
  nobody, and never a CPU whose interrupts are disabled.
* `ConsoleReentrant.cfg`: `lib/printf/printf.h:28` calls the routines "thread
  safe and reentrant"; the lock the kernel has added makes them thread safe and not
  reentrant, and the exception handler prints.
* `MadtMaximum.cfg`: with one record more than the maximum, `madt_init` does not
  panic with its message (`acpi/madt.c:47`) but writes behind the array.

Known without a run:

* `acpi/madt.c:12` gives I/O APIC records the type 16. In the ACPI specification they have
  type 1, and 16 is the multiprocessor wakeup record; so `madt_init` keeps no I/O APIC
  of a firmware, and would take a wakeup record for one. Nothing reads `ioapic_records`
  yet. `RecordsByTypeNumber` therefore speaks of numbers and not of I/O APICs.
* The buffer for one number has 32 characters, and the digits of `%b` beyond them are
  dropped from the top (`Digits` models it); no format of the kernel uses `%b`.

## The proofs

`Spinlock_proofs`, for every finite set of CPUs and every ticket width
with at least as many values (`TicketsSuffice`):

* `SpinlockInvariant`: `IInv == TypeOK /\ TicketsInLine`, which the run checks
  too. Mutual exclusion is not
  inductive: that two CPUs never see the same ticket rests on the outstanding
  tickets being distinct and consecutive modulo the width. The key lemmas are the case
  distinctions of one wrap-around (`WrapOnce`, `DistanceValue`).
* `SpinlockTypeOK` and `SpinlockMutualExclusion` follow.
* `SpinlockRefinesFifo`: each step is a step of `FifoLock` or a stutter, with the
  queue being the outstanding CPUs sorted by the distance of their tickets.

`Pmm_proofs`, for every set of well-formed memory maps, all page and byte
sizes and all request sizes (`PmmAssumption`):

* `PmmInvariant`: conservation of pages is not inductive. It needs that the
  entries do not overlap even after `pmm_init` has cut the bitmap out of one of them
  (`Apart`), that the bitmap lies in no entry from then on (`BitmapApart`), and that
  the clear bits are finitely many and counted (`FreePagesExact`).
* `PmmTypeOK`, `PmmConservation`, `PmmFreePagesExact` and `PmmBitmapProtected` follow.
* `PmmMissesOnlyAcrossTheCache` and `KernelOutOfMemoryIsReal`: the second rests on the
  kernel never freeing a block, so that nothing below the cached index is free that
  the first search did not leave there. It is a theorem of `KernelSpec`; no run
  repeats it.
* `PmmStraysOnlyAtTheEdges`: the arithmetic of the bitmap's size. Rounding down to
  bytes and up to pages loses bits for the tops named in `RoundedAway` and no others
  (`MapPagesSuffice`), and no usable entry exceeds the page the bitmap was sized
  for (`Sized`).
* `PmmSearchIsFirstFit`: the loop counter of `pmm_search_free_pages` is the length of
  the clear run that ends below the loop. It is defined recursively; that this definition
  has a solution is shown with the beginning of the run (`CounterExists`), that it is
  the length by induction over the pages (`CounterIs`).
* `PmmImplementsAllocator`: each step is a step of `PageAllocator` or a stutter.

`OneCpu_proofs` is about the two modules in which there is one CPU. `Timer`, for every
width of the words and of the counter, every period, request, rate and hold-up
(`TimerAssumption`):

* `TimerInvariant`: what `slept` and the counters are is related only while a CPU
  sleeps, so the invariant goes through the stages: `Asleep` ties the counter
  to the target, `Awake` keeps the result of the last sleep, `CountsAlong` ties the
  LAPIC's count to the HPET's.
* `TimerSleepInBounds` and `TimerFrequencyInBounds` follow; both speak of the
  requests whose sums and products do not wrap around.

`Exceptions`, for gates of any number of bits, any number of functions of any length of
which any but the first may be static, chains of calls of any length and any number of
exceptions (`ExceptionsAssumption`; each vector has a stub of its own, as `isr.asm`
defines them):

* `ExceptionsInvariant`: the trace is right only if the whole stack is. `Linked` says
  that each frame holds the place of the frame below and an address inside the
  function below, `Standing` how high the stack is above them; a call, a jump, a return and
  the handler's prologue keep both (`EnterStands`, `JumpStands`, `ReturnKept`,
  `CpuStateAssemblerKept`). `Built` is how far the tables are filled, and `InStub` what the
  processor has left for the stub. While the trace is printed it is as long as the frames
  behind it (`Tracing`).
* `ExceptionsCpuStateIsRight`: the three pieces of an offset give the address back
  (`GateOffset`, which needs quotients of any word size), and whichever kind of stub a vector
  has, eight words lie below the registers (`StubEvens`), so that each field is found
  26 words from the end (`StateOnStack`).
* `ExceptionsTraceNamesCallers`: the address of a call has exactly one symbol, which is
  the caller's unless that is static (`Symbol`; the last entry below the address exists
  because of `Greatest`), and a vector has none, being below every function (`NoSymbol`).
* `ExceptionsTraceDescends`: each turn of the loop goes to a frame further down
  (`WalkIs`, `Pointers`), so that it cannot go on for ever; `TraceEnds` adds fairness to this.

`SmpBoot_proofs`, for any number of CPUs in any order and whatever the
unlocked allocator does to its data (`SmpAssumption`):

* `SmpTaskInvariant`: between acquire and release the lock belongs to the CPU that
  is there and the descriptor holds what it has written. `SmpOwnTaskState` follows.
* `SmpRecordInvariant`: the entries behind the loop of `smp_init` have their
  records and only their CPUs run; the bootstrap CPU is in `cpu_init` only
  when the loop stands at its own entry. `SmpRunsWithItsOwnRecord` follows.
* `SmpInitMeansAllStarted`: it is not inductive since the counter is read and
  written without a lock. What is, is one-sided: the counter, and every
  register that holds a copy of it, is never above the number of CPUs that
  have finished (`Counted`); increments may be lost.
* `SmpExactUnlessContended`: as long as no two CPUs have been in `pmm_alloc` together,
  the one that is in it knows how far it is: up to where it has searched there is no
  run, what it has marked is the beginning of its run, and its registers hold what
  memory holds (`Progress`). Between two calls the clear bits are then what no block
  has (`Exact`). That it gives up only if there is no run uses that nobody frees a
  page while the CPUs come up, so that nothing free ends just below the cached index.

`AcpiTables_proofs`, for every content of the tables and every size of the arrays
(`AcpiAssumption`):

* `AcpiInvariant`: besides the types, that no table before the position of a
  search has the signature it looks for (`Searching`) and that the table searched is
  the proper one from `acpi_init` on (`RootChosen`). `AcpiTypeOK` and
  `AcpiHeaderVerified` follow.
* `AcpiRecordsInvariant`: the arrays hold exactly the records before the position of
  the loop, as many as there are (`RecordsRead`), and a search that has come back empty
  had to (`SearchedInVain`). `AcpiRecordsByTypeNumber` and `AcpiStopsOnlyForCause`
  follow; an array overruns only when the records of its type outnumber it.

`PanicConsole_proofs`, for any number of CPUs, any list without duplicates, and any
number of failing calls, exceptions and late halt interrupts (`ConsoleAssumption`):

* `ConsoleInvariant`: none of the properties is inductive, for they depend on what
  the CPUs have yet to execute, and an exception replaces that anywhere. So the
  programs are typed: a state says of a CPU whether it is outside, waiting for or
  inside each lock, what colour it has set, how many characters it has put out and
  how far it has come (`life`); `Allowed` says which instruction may be executed
  in which state, and a program is a `Path` from state to state. Each program has a lemma
  (`PrintfPath`, `InColourPath`, `PanicPath`, `CpuInitPath`, `KmainPath`). The invariant is
  that each CPU has a state that agrees with the locks, the screen and the interrupts,
  and from which its program leads to a state without locks. A handler starts in
  the state `"again"`: its CPU may have left a lock behind, and then waits for itself
  instead of going on.
* `ConsoleTextUnbroken` and `ConsolePreparedColourKept` follow: who puts out a character is
  inside, and a colour is wanted only by who has set it and still holds its lock.
* `ConsoleHaltedHoldNothing`: a program ends without locks, and the halt interrupt
  finds its CPU without them because it is sent only to CPUs that have been counted
  (`Pending`), and a CPU that has been counted and still takes interrupts has printed its last
  line. This is where the order of `printf` and `started_cpus_counter++` matters.
* `ConsoleHaltedUnlessTrouble`: needs of the programs which instruction may
  still follow which (`Ordered`), while nothing fails and nobody is late: on the bootstrap CPU no
  wait for the others is left once the panic begins, so all of the list have been
  counted; elsewhere nothing follows the count (`Quiet`). The wait of the panic then
  outlasts the halt interrupts, and nobody is left running.

`Printf_proofs`, for any calls, any size of the memory behind the buffer and any texts
that the conversions yield (`PrintfAssumption`, `ConversionAssumption`):

* `PrintfInvariant`: the buffer holds the text so far as far as it fits (`Filled`), and
  the index is the length of the text, also when it has run past the buffer's size.
  `PrintfOutputContract` follows from the last step, where the index of the last
  byte of a buffer of size 0 wraps around to one no buffer has (`LastIndexIs`).
* `PrintfNumbersAsInC`, for words and arguments of any width and any size of the digit
  buffer (`ItemAssumption` types the arguments): the cast yields the only value of the
  argument's type that is congruent to it (`SignedIs`, `TypedIs`, from `CongruentApart`), and
  `Magnitude` is its absolute value also where `0 - value` wraps around (`AbsoluteValue`); a magnitude
  has a number of digits, and only one, since powers grow (`DigitCountIs`, `PowerGrows`); and
  under the limits of `Supported` no padding is cut off, so that zeros, sign and blanks
  are where C wants them (`NtoaFormatIs`), read backwards (`BackwardsOfNumber`).
* `PrintfTextOnScreen`, for every framebuffer, font and margin and every place of the
  cursor (`ScreenAssumption`): a run of characters passes through one screen per
  character (`PutAllIs`, by induction over the fold), and each of them keeps `ScreenInv`:
  the cursor stands where the text counted so far ends, column by column modulo the
  row (`OneMoreIs`, `NextColumn`), and every glyph lies before it. The order of the glyphs,
  the margins and the lower end follow.

`Vmm_proofs`, for every size of a table, any number of levels, every memory map and every
size of the sections (`VmmAssumption`, `LayoutAssumption`):

* `VmmInvariant`: `Translate` and `LevelOf` are recursive functions over the levels;
  what they compute is proved by induction over the levels (`SetInduction`: a set that
  is not all of them misses a least one). The indices of a page identify it, and two calls of `vmm_init`
  for the same page ask for the same (`CallsAgree`), which is where `LayoutAssumption`
  is used. The invariant says that the tables are a tree (`Tree`), that a call is where the
  processor's own walk would be (`InWalk`), and that the pages of finished calls are
  translated as asked. The work is in what a write changes: an entry of a lowest table
  one page, a new table none.
* `VmmTablesFormATree`, `VmmSectionsProtected` and `VmmMemoryMapped` follow.
* `VmmImplementsAddressSpace`: the safety part of the refinement; setting an entry of a
  lowest table is the step `Map`, everything else a stutter.

Only model-checked is all liveness (`NoStarvation`, `BootFinishes`, `PanicReported`,
`KernelEndsInAPanic`, `TablesAreRead`, `SleepEnds`, `TraceEnds`) and the fairness part of
the refinements `ServesInOrder` and `ImplementsAddressSpace`, which are out of TLAPS' reach.

## Not modelled

* `framebuffer/image.c` and `font.c` are constant tables; they are three
  quarters of the lines of the repository, and nothing reads them but the
  drawing of pixels. So the share of all lines that the models map stays low.
* The floating-point conversions of `lib/printf` are switched off in `printf.h` and
  not compiled. The letters of a format are parsed before `Printf` begins.
* The scheduler is a stub that nothing calls; the wrappers in `x86/cpu` and
  `x86/apic` are single instructions; the build is not a program.
* Reached by no model, but seen in the code: a spurious interrupt has no gate
  (`x86/apic/lapic.c:79`); a `char` of 0x80 and above is negative and
  indexes before the font (`framebuffer/framebuffer.c:86`); a framebuffer narrower than the
  margins makes `x_max` wrap around (`framebuffer/framebuffer.c:52`); a
  panic before `fb_init` draws through an unset address (`kernel.c:46`);
  reclaimed bootloader memory may still hold the stack in use
  (`memory/pmm.c:135`); the dump of registers prints `cr4` under
  the name of `cr3` (`x86/interrupts/isr.c:62`).

## The plan

In this order:

1. *Done.* Lock, physical memory, bring-up, console and panic, firmware tables,
   virtual memory, formatting, screen, timers, exceptions and symbols; proofs of
   every safety property the runs check.
2. Composition: exceptions and out-of-memory panics inside bring-up, with the
   allocator, the counter and the console in one model.

## Running

    tlc -workers 2 -config Pmm.cfg MCPmm.tla    # a configuration and its module
    tlapm Pmm_proofs.tla                         # proofs

`PROJECT.json` names the module of each configuration (`"runs"`), the source
lines of each definition (`"map"`), and the theorems.
