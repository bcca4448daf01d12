----------------------------- MODULE Exceptions -----------------------------
(***************************************************************************)
(* From an exception, or a call of panic, to the stack trace: gdt_init and *)
(* idt_init, the entry stubs of isr.asm, struct cpu_state of isr.c, and    *)
(* print_stacktrace with the symbol table of gen_symtab.sh.                *)
(*                                                                         *)
(* One CPU and its stack, a sequence of words.  The stack grows by         *)
(* appending, so the word at address rbp is stack[rbp] and rbp + 1, in the *)
(* pointers of C, is stack[rbp - 1].  What the handler and panic print and *)
(* lock is in PanicConsole.                                                *)
(***************************************************************************)
EXTENDS Naturals, Sequences, SequencesExt

CONSTANTS
  Half,             \* 2^16, the values of a uint16_t
  Text,             \* the names of the functions in the order of their addresses
  Static,           \* those among them that nm does not show as T
  TextStart, Size,  \* the address of the first function, and the length of each
  isr_table,        \* the addresses of the entry stubs, vector |-> address
  halt_handler,     \* and of the handler of the halt interrupt
  MaxFrames,        \* bound on calls in calls
  MaxExceptions,    \* bound on exceptions: a later one interrupts the report of the one before,
  NestedVectors     \* and then both vectors are in this set

Vectors == 0 .. 31

Start(k) == TextStart + (k - 1) * Size
Address(f) == Start(CHOOSE k \in 1 .. Len(Text) : Text[k] = f)

(* Every other function but kmain can be called. *)
Support == {"kmain", "panic", "print_stacktrace", "isr_exception_handler", "cpu_state_assembler"}
Functions == Range(Text) \ Support

(* isr.asm has a stub of its own for each vector, and addresses have 64    *)
(* bits.  The function at the lowest address is not static.                *)
ASSUME ExceptionsAssumption ==
  /\ Text \in Seq(Range(Text)) /\ Support \subseteq Range(Text)
  /\ \A j, k \in 1 .. Len(Text) : Text[j] = Text[k] => j = k
  /\ Static \subseteq {Text[k] : k \in 2 .. Len(Text)}
  /\ TextStart \in Nat /\ TextStart > 31 /\ Size \in Nat /\ Size > 1
  /\ Half \in Nat \ {0}
  /\ isr_table \in [Vectors -> Nat] /\ halt_handler \in Nat
  /\ \A v, w \in Vectors : isr_table[v] = isr_table[w] => v = w
  /\ \A v \in Vectors : isr_table[v] < Half * Half * Half * Half
  /\ halt_handler < Half * Half * Half * Half
  /\ NestedVectors \subseteq Vectors

VARIABLES
  gdt, idt, idtr,   \* the descriptors and the gates; idtr: lidt was executed
  halt_vector,
  stage,            \* where the CPU is in its way
  stack, rbp,
  rip,              \* the instruction interrupted, then the handler's
  active,           \* history: whose frames are on the stack since the entry or the last exception
  cpu_state,        \* what the handler is given: the address of the last word pushed
  interrupted,      \* history: the registers, the vector and the error code at the exception
  exceptions,       \* so far
  frames_kept,      \* the compiler was asked for frame pointers; CFLAGS has -O2 only
  frame, trace      \* rbp and the names printed, of print_stacktrace

tables == <<gdt, idt, idtr, halt_vector, frames_kept>>
memory == <<stack, rbp, active>>
report == <<cpu_state, interrupted, exceptions>>
walk == <<frame, trace>>
vars == <<tables, stage, memory, rip, report, walk>>

-----------------------------------------------------------------------------
(* gdt_init *)
Kernel == {"present", "code_or_data", "rw"}
User == Kernel \cup {"dpl_user"}
Code == {"executable", "64_bit_code"}

Descriptors == <<{}, Kernel \cup Code, Kernel, User \cup Code, User>>

GDT_OFFSET_KERNEL_CODE == 8

(* idt_set_handler: an interrupt gate, its offset in three pieces ... *)
Gate(handler) ==
  [offset_0 |-> handler % Half,
   offset_1 |-> (handler \div Half) % Half,
   offset_2 |-> (handler \div (Half * Half)) % (Half * Half),
   gdt_code_selector |-> GDT_OFFSET_KERNEL_CODE]

(* ... which the processor puts together again. *)
Offset(gate) == gate.offset_0 + gate.offset_1 * Half + gate.offset_2 * Half * Half

Selects(gate) ==
  LET k == gate.gdt_code_selector \div 8 + 1
  IN  k \in DOMAIN gdt /\ {"present", "executable", "64_bit_code"} \subseteq gdt[k]

Init ==
  /\ gdt = <<>> /\ idt = <<>> /\ idtr = FALSE /\ halt_vector = 0
  /\ stage = "gdt_init"
  /\ frames_kept \in BOOLEAN
  /\ stack = (IF frames_kept THEN <<0, 0>> ELSE <<0>>)   \* the entry returns to address 0
  /\ rbp = Len(stack)
  /\ rip = Address("kmain")
  /\ active = <<"kmain">>
  /\ cpu_state = 0 /\ interrupted = <<>> /\ exceptions = 0
  /\ frame = 0 /\ trace = <<>>

(* gdt_add_descriptor puts each one behind those before it. *)
GdtInit ==
  /\ stage = "gdt_init"
  /\ gdt' = Append(gdt, Descriptors[Len(gdt) + 1])
  /\ stage' = IF Len(gdt') = Len(Descriptors) THEN "idt_init" ELSE "gdt_init"
  /\ UNCHANGED <<idt, idtr, halt_vector, frames_kept, memory, rip, report, walk>>

(* The vectors 0 to 31, lidt, and the first vector behind them. *)
IdtInit ==
  /\ stage = "idt_init"
  /\ LET v == Len(idt)
     IN  IF v \in Vectors
           THEN /\ idt' = Append(idt, Gate(isr_table[v]))
                /\ idtr' = (v = 31)
                /\ UNCHANGED <<stage, halt_vector>>
           ELSE /\ halt_vector' = v
                /\ idt' = Append(idt, Gate(halt_handler))
                /\ stage' = "run"
                /\ UNCHANGED idtr
  /\ UNCHANGED <<gdt, frames_kept, memory, rip, report, walk>>

-----------------------------------------------------------------------------
(* A call pushes the return address, and the function called pushes rbp    *)
(* when frames are kept.  The compiler makes a jump of a call that comes   *)
(* last: then the function called takes over the frame of its caller.  Or  *)
(* it knows that the call does not return and puts nothing behind it: then *)
(* the return address is the address of the next function.  The functions  *)
(* that report have one call each on the way to the trace, and go on       *)
(* behind it.                                                              *)
CallSites(f) ==
  IF f \in Support \ {"kmain"} THEN {Address(f) + 1} ELSE Address(f) + 1 .. Address(f) + Size

Framed(return_address, s, base) ==
  IF frames_kept
    THEN stack' = s \o <<return_address, base>> /\ rbp' = Len(stack')
    ELSE stack' = Append(s, return_address) /\ rbp' = base

Enter(f) ==
  /\ active' = Append(active, f)
  /\ \E return_address \in CallSites(Last(active)) : Framed(return_address, stack, rbp)

Jump(f) == active' = Append(Front(active), f) /\ UNCHANGED <<stack, rbp>>

Call(f) ==
  /\ stage = "run"
  /\ (Len(active) < MaxFrames /\ Enter(f)) \/ Jump(f)
  /\ UNCHANGED <<tables, stage, rip, report, walk>>

Return ==
  /\ stage = "run" /\ Len(active) > 1
  /\ active' = Front(active)
  /\ IF frames_kept
       THEN rbp' = Last(stack) /\ stack' = Front(Front(stack))
       ELSE stack' = Front(stack) /\ UNCHANGED rbp
  /\ UNCHANGED <<tables, stage, rip, report, walk>>

(* A function finds something wrong ... *)
CallPanic ==
  /\ stage = "run"
  /\ Enter("panic") \/ Jump("panic")
  /\ stage' = "panic"
  /\ UNCHANGED <<tables, rip, report, walk>>

(* ... or isr_exception_handler has printed cpu_state. *)
HandlerPanics ==
  /\ stage = "handler"
  /\ Enter("panic")
  /\ stage' = "panic"
  /\ UNCHANGED <<tables, rip, report, walk>>

-----------------------------------------------------------------------------
(* The processor aligns the stack, pushes what it will overwrite, for some *)
(* vectors an error code, and goes where the gate says, which has to be a  *)
(* stub in a code segment.  A register is its name; error_code is 5.       *)
WithErrorCode == {8, 10, 11, 12, 13, 14, 17, 21, 29, 30}

ErrorCode(v) == IF v \in WithErrorCode THEN 5 ELSE 0

Aligned(s) == IF Len(s) % 2 = 1 THEN Append(s, 0) ELSE s

(* It may come at any instruction of C, also while another exception or a  *)
(* panic is being reported.                                                *)
Exception(v, at) ==
  /\ stage \in {"run", "handler", "panic", "trace", "wild"} /\ idtr
  /\ exceptions < MaxExceptions
  /\ exceptions > 0 => {interrupted.vector, v} \subseteq NestedVectors
  /\ at \in Address(Last(active)) .. Address(Last(active)) + Size - 1
  /\ exceptions' = exceptions + 1
  /\ interrupted' = [vector |-> v, error_code |-> ErrorCode(v), rbp |-> rbp, rip |-> at,
                     rsp |-> Len(stack), cs |-> GDT_OFFSET_KERNEL_CODE]
  /\ stack' = Aligned(stack) \o <<"ss", Len(stack), "rflags", GDT_OFFSET_KERNEL_CODE, at>>
                \o (IF v \in WithErrorCode THEN <<ErrorCode(v)>> ELSE <<>>)
  /\ rip' = Offset(idt[v + 1])
  /\ stage' = IF Selects(idt[v + 1]) /\ \E w \in Vectors : isr_table[w] = rip'
                THEN "stub" ELSE "reset"
  /\ UNCHANGED <<tables, rbp, active, cpu_state, walk>>

(* The interrupt by which panic on another CPU stops this one. *)
HaltInterrupt ==
  /\ stage = "run"
  /\ rip' = Offset(idt[halt_vector + 1])
  /\ stage' = IF Selects(idt[halt_vector + 1]) /\ rip' = halt_handler THEN "halted" ELSE "reset"
  /\ UNCHANGED <<tables, memory, report, walk>>

(* isr_stub_0 to isr_stub_31 *)
ErrorStubs == {8, 10, 11, 12, 13, 14, 17, 21, 29, 30}

StubWithoutZero(v) == <<v>>      \* mutant: every stub is an isr_error_stub

Stub(v) == IF v \in ErrorStubs THEN <<v>> ELSE <<0, v>>

Saved == <<"rax", "rbx", "rcx", "rdx", "rsi", "rdi", "r8", "r9", "r10", "r11", "r12", "r13",
           "r14", "r15", "cr0", "cr2", "cr3", "cr4">>

(* The stub the gate led to, cpu_state_assembler, and the prologue of      *)
(* isr_exception_handler.                                                  *)
CpuStateAssembler ==
  /\ stage = "stub"
  /\ \E v \in Vectors :
       /\ isr_table[v] = rip
       /\ LET saved == stack \o Stub(v) \o <<rbp>> \o Saved
              base  == Len(saved) - Len(Saved)              \* mov rbp, rsp
          IN  /\ cpu_state' = Len(saved)
              /\ active' = <<"cpu_state_assembler", "isr_exception_handler">>
              /\ \E return_address \in CallSites("cpu_state_assembler") :
                   Framed(return_address, saved, base)
  /\ stage' = "handler"
  /\ UNCHANGED <<tables, rip, interrupted, exceptions, walk>>

-----------------------------------------------------------------------------
(* gen_symtab.sh: the functions nm shows as T, by address, so that an      *)
(* entry is its place in Text.  Behind them is a last entry with           *)
(* UINT64_MAX.                                                             *)
symtab == {k \in 1 .. Len(Text) : Text[k] \notin Static}

BelowNextStrictly(k, address) ==         \* mutant: > in the place of >=
  \A j \in symtab : j > k => Start(j) > address

(* The next entry is the lowest of those behind. *)
BelowNext(k, address) == \A j \in symtab : j > k => Start(j) >= address

Inside(k, address) == Start(k) < address /\ BelowNext(k, address)

(* The name of the first that fits, or none for NULL. *)
get_symtab_function_name(address) ==
  {Text[k] : k \in {k \in symtab :
     Inside(k, address) /\ \A j \in symtab : j < k => ~ Inside(j, address)}}

(* panic calls print_stacktrace, which takes its own rbp; without frames   *)
(* it holds anything.                                                      *)
PrintStacktrace ==
  /\ stage = "panic"
  /\ Enter("print_stacktrace")
  /\ frame' = rbp' /\ trace' = <<>>
  /\ stage' = IF frames_kept THEN "trace" ELSE "wild"
  /\ UNCHANGED <<tables, rip, report>>

ReadFrameStaying(name) ==        \* mutant: rbp is not advanced
  /\ trace' = IF Len(trace) < MaxFrames + 3 THEN Append(trace, name) ELSE trace
  /\ UNCHANGED <<stage, frame>>

(* A turn of the loop that finds a name, and the last one. *)
ReadFrame(name) ==
  /\ trace' = Append(trace, name)
  /\ frame' = stack[frame]
  /\ UNCHANGED stage

Walk ==
  /\ stage = "trace"
  /\ LET names == get_symtab_function_name(stack[frame - 1])
     IN  \/ \E name \in names : ReadFrame(name)
         \/ names = {} /\ stage' = "done" /\ UNCHANGED walk
  /\ UNCHANGED <<tables, memory, rip, report>>

-----------------------------------------------------------------------------
Reporting == CpuStateAssembler \/ HandlerPanics \/ PrintStacktrace \/ Walk

Next ==
  \/ GdtInit \/ IdtInit
  \/ \E f \in Functions : Call(f)
  \/ Return \/ CallPanic \/ HaltInterrupt
  \/ \E v \in Vectors, at \in TextStart .. TextStart + Len(Text) * Size : Exception(v, at)
  \/ Reporting

(* A CPU that reports something goes on. *)
Spec == Init /\ [][Next]_vars /\ WF_vars(Reporting)

-----------------------------------------------------------------------------
(* struct cpu_state, from its first field up. *)
Fields == <<"cr4", "cr3", "cr2", "cr0", "r15", "r14", "r13", "r12", "r11", "r10", "r9", "r8",
            "rdi", "rsi", "rdx", "rcx", "rbx", "rax", "rbp", "vector", "error_code",
            "rip", "cs", "rflags", "rsp", "ss">>

Field(k) == stack[cpu_state - (k - 1)]

(* Every exception and halt interrupt reaches its handler, and every field *)
(* of the cpu_state that isr_exception_handler is given holds what that    *)
(* field's register was when it happened, with an error code of 0 where    *)
(* the processor has none; the stack is aligned for the call.              *)
CpuStateIsRight ==
  /\ stage # "reset"
  /\ stage = "handler" =>
       /\ cpu_state % 2 = 0
       /\ \A k \in 1 .. Len(Fields) :
            Field(k) = IF Fields[k] \in DOMAIN interrupted THEN interrupted[Fields[k]] ELSE Fields[k]

(* With frame pointers, the trace has one line for every function between  *)
(* panic and the entry or the exception that has a frame, in this order,   *)
(* with its name where it is in the symbol table.                          *)
Callers == Reverse(Front(active))

TraceNamesCallers ==
  stage = "done" =>
    /\ Len(trace) = Len(Callers)
    /\ \A k \in 1 .. Len(trace) : Callers[k] \notin Static => trace[k] = Callers[k]

(* And it comes to an end, also when the processor interrupts it.          *)
TraceEnds == stage = "trace" ~> stage = "done"
=============================================================================
