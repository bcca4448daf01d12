------------------------------- MODULE Timer -------------------------------
(***************************************************************************)
(* Waiting: hpet_init and hpet_nsleep of timer/hpet/hpet.c, and the timer  *)
(* of the LAPIC, which lapic_timer_calibrate of x86/apic/lapic.c measures  *)
(* against the HPET.                                                       *)
(*                                                                         *)
(* After hpet_init the HPET is only read and every LAPIC belongs to one    *)
(* CPU, so one CPU shows everything.  Time is the action Tick, one period  *)
(* of the HPET.  A CPU may be held up between any two of its steps (by     *)
(* firmware, a hypervisor or a slow read), but by at most MaxStall ticks.  *)
(* The specification has names of its own beside those of Exceptions, for  *)
(* the proofs about both.                                                  *)
(***************************************************************************)
EXTENDS Naturals

CONSTANTS
  Word, Dword,      \* 2^64 and 2^32
  Moduli,           \* how many values the main counter of an HPET may have
  Period,           \* femtoseconds in a tick, from general_capabilities
  FsPerNs,          \* 1000000
  Requests,         \* calls: [count, unit], unit being the nanoseconds of msleep, usleep or nsleep
  Calibration,      \* the request of lapic_timer_calibrate, hpet_usleep(1000)
  PerSecond,        \* how many of those make a second (1000)
  Rates,            \* by how much a LAPIC may count down in a tick
  MaxStall

Request == [count : Nat, unit : Nat \ {0}]

ASSUME TimerAssumption ==
  /\ Word \in Nat \ {0} /\ Dword \in Nat \ {0}
  /\ Moduli \subseteq 2 .. Word
  /\ Period \in Nat \ {0} /\ FsPerNs \in Nat \ {0} /\ PerSecond \in Nat \ {0}
  /\ Requests \subseteq Request /\ Calibration \in Request
  /\ Rates \subseteq Nat \ {0}
  /\ MaxStall \in Nat \ {0}

VARIABLES
  modulus, rate,                \* the HPET and the LAPIC of this machine
  main_counter_value, running,  \* of the HPET
  cur_count,                    \* LAPIC_REG_TIMER_CUR_COUNT
  timer_stage,                  \* where the CPU is
  counter_target,               \* of hpet_nsleep
  lapic_freq,
  start, asked,                 \* history: the counter when hpet_nsleep read it, and its request
  slept,                        \* history: ticks since then, counted up to Word
  stall                         \* ticks since the CPU's last step

machine == <<modulus, rate>>
sleep == <<counter_target, start, asked, slept>>
timer_vars == <<machine, main_counter_value, running, cur_count, timer_stage, sleep, lapic_freq, stall>>

TimerInit ==
  /\ modulus \in Moduli /\ rate \in Rates
  /\ main_counter_value \in 0 .. modulus - 1 /\ running \in BOOLEAN
  /\ cur_count = 0
  /\ timer_stage = "hpet_init"
  /\ counter_target = 0 /\ start = 0 /\ asked = [count |-> 0, unit |-> 1] /\ slept = 0
  /\ lapic_freq = 0
  /\ stall = 0

(* The CPU's part of a step: it is at stage s, goes on at t. *)
Go(s, t) ==
  /\ timer_stage = s /\ timer_stage' = t
  /\ stall' = 0
  /\ UNCHANGED machine

-----------------------------------------------------------------------------
(* The counter is reset and started, the period read. *)
HpetInit ==
  /\ Go("hpet_init", "idle")
  /\ main_counter_value' = 0 /\ running' = TRUE
  /\ UNCHANGED <<cur_count, sleep, lapic_freq>>

(* hpet_msleep and hpet_usleep multiply first; nsleep has unit 1. *)
Nanoseconds(r) == (r.count * r.unit) % Word

TicksAskedInNs(r) == Nanoseconds(r) \div Period     \* mutant: nanoseconds taken for femtoseconds

TicksAsked(r) == ((Nanoseconds(r) * FsPerNs) % Word) \div Period

(* hpet_nsleep reads the counter ... *)
Nsleep(r, s, t) ==
  /\ Go(s, t)
  /\ counter_target' = (main_counter_value + TicksAsked(r)) % Word
  /\ start' = main_counter_value /\ asked' = r /\ slept' = 0
  /\ UNCHANGED <<main_counter_value, running, cur_count, lapic_freq>>

(* ... and loops while the counter is below the target. *)
AheadUnequal == main_counter_value # counter_target      \* mutant: the loop waits for the target itself

Ahead == main_counter_value < counter_target

Read(s, t) ==
  /\ Go(s, t)
  /\ UNCHANGED <<main_counter_value, running, cur_count, sleep, lapic_freq>>

Poll(s) == Ahead /\ Read(s, s)

Wake(s, t) == ~Ahead /\ Read(s, t)

(* A caller of the timer. *)
CallSleep == \E r \in Requests : Nsleep(r, "idle", "waiting")

(* lapic_timer_calibrate: the timer is stopped, masked and started at the  *)
(* highest count.                                                          *)
StartCount ==
  /\ Go("idle", "counting")
  /\ cur_count' = Dword - 1
  /\ UNCHANGED <<main_counter_value, running, sleep, lapic_freq>>

ReadStopped ==                   \* mutant: the timer is stopped before it is read
  /\ Go("measured", "idle")
  /\ lapic_freq' = ((Dword - 1 - 0) * PerSecond) % Dword
  /\ cur_count' = 0
  /\ UNCHANGED <<main_counter_value, running, sleep>>

(* final_count is read; (initial_count - final_count) * 1000 has 32 bits.  *)
ReadCount ==
  /\ Go("measured", "idle")
  /\ lapic_freq' = ((Dword - 1 - cur_count) * PerSecond) % Dword
  /\ cur_count' = 0
  /\ UNCHANGED <<main_counter_value, running, sleep>>

Calibrate ==
  \/ StartCount
  \/ Nsleep(Calibration, "counting", "measuring")
  \/ ReadCount

(* One tick passes. *)
Least(a, b) == IF a <= b THEN a ELSE b

Tick ==
  /\ running
  /\ timer_stage # "idle" => stall < MaxStall
  /\ main_counter_value' = (main_counter_value + 1) % modulus
  /\ cur_count' = cur_count - Least(cur_count, rate)
  /\ stall' = IF timer_stage = "idle" THEN 0 ELSE stall + 1
  /\ slept' = IF timer_stage \in {"waiting", "measuring"} THEN Least(slept + 1, Word) ELSE slept
  /\ UNCHANGED <<machine, running, timer_stage, counter_target, start, asked, lapic_freq>>

Waits(s, t) == Poll(s) \/ Wake(s, t)

Proceed == HpetInit \/ Waits("waiting", "idle") \/ Waits("measuring", "measured") \/ Calibrate

TimerNext == Proceed \/ CallSleep \/ Tick

(* The counter counts and the CPU executes; nobody owes a call. *)
TimerSpec == TimerInit /\ [][TimerNext]_timer_vars /\ WF_timer_vars(Tick) /\ WF_timer_vars(Proceed)

-----------------------------------------------------------------------------
(* Femtoseconds that were asked for, without the width of a word. *)
Femtoseconds(r) == r.count * r.unit * FsPerNs

(* The sleep ends while neither the product nor the counter wraps around.  *)
Fits ==
  /\ Femtoseconds(asked) < Word
  /\ start + Femtoseconds(asked) \div Period + MaxStall < modulus

(* A sleep that fits lasts as long as asked, to the whole ticks of the     *)
(* HPET, and no more than one hold-up longer: panic waits its ten          *)
(* milliseconds for the other CPUs, the calibration its millisecond.       *)
SleepInBounds ==
  Fits =>
    /\ timer_stage \in {"waiting", "measuring"} => slept <= Femtoseconds(asked) \div Period + MaxStall
    /\ timer_stage \in {"idle", "measured"} => (slept + 1) * Period > Femtoseconds(asked)

(* Every sleep ends, unless the target lies so near the end of the range   *)
(* of the counter, or beyond it, that no read need see it reached: then    *)
(* panic never prints.                                                     *)
SleepEnds ==
  timer_stage \in {"waiting", "measuring"} ~>
    timer_stage \in {"idle", "measured"} \/ counter_target + MaxStall > modulus

(* What the LAPIC counts in a calibration: exactly, and with a hold-up     *)
(* after its start, in the sleep and before its count is read.             *)
Counts == Femtoseconds(Calibration) \div Period

MostCounted == rate * (Counts + 3 * MaxStall) * PerSecond

(* The measured frequency is the true one, up to the hold-ups of the steps *)
(* of the calibration, unless the product does not fit in 32 bits.         *)
FrequencyInBounds ==
  [][timer_stage = "measured" /\ timer_stage' = "idle" /\ Fits /\ MostCounted < Dword
       => lapic_freq' \in rate * Counts * PerSecond .. MostCounted]_timer_vars
=============================================================================
