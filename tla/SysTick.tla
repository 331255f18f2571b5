------------------------------ MODULE SysTick ------------------------------
(***************************************************************************)
(* The system tick: CommonKernel::handleSysTickInterrupt with the time base*)
(* and the decrementer of the CPU (kernel/src/kernel.cpp, arch/powerpc).   *)
(*                                                                         *)
(* The time base is two registers of 32 bits that CPU::timeStamp reads one *)
(* after the other, upper first, without looking at the upper again: a     *)
(* carry between the two reads gives a stamp 2^32 too small.  The          *)
(* difference of two stamps is kept in a signed number of 32 bits, so the  *)
(* upper half is lost again.  Time wraps where the two registers together  *)
(* wrap.  HalfWord stands for 2^31.                                        *)
(*                                                                         *)
(* The number of ticks is represented by `ahead', the time the counted     *)
(* ticks stand for less the time since _lastTime was first set: counting a *)
(* tick adds Interval to it, passing time takes away from it.              *)
(***************************************************************************)
EXTENDS Integers

CONSTANTS
  HalfWord,     \* 2^31: half the values of a time base register and of delta
  Interval,     \* Powerpc::TimerInterval
  MaxBoot,      \* the longest time from KCommKernel::init to start()
  MaxLate,      \* the longest time interrupts are off
  MaxTurn       \* the longest time of a turn of the catch-up loop

Word == 2 * HalfWord
Wrap == Word * Word

ASSUME SysTickAssumption ==
  /\ HalfWord \in Nat /\ Interval \in Nat /\ Interval < HalfWord
  /\ MaxBoot \in Nat /\ MaxLate \in Nat /\ MaxTurn \in Nat
  /\ MaxTurn < Interval
  /\ MaxBoot + MaxLate + 2 * MaxTurn + 2 <= HalfWord

VARIABLES
  now,          \* the time base
  cpu,          \* where the CPU is
  upper,        \* the upper half of a stamp that is being read
  lastTime,     \* _lastTime
  delta,        \* the local of the handler
  due,          \* how long until the decrementer goes below zero
  spent,        \* time spent in this turn of the loop or at this stage
  ahead         \* _tickCounter * Interval less the time that has passed

tickVars == <<now, cpu, upper, lastTime, delta, due, spent, ahead>>

Signed(x) == LET y == x % Word IN IF y < HalfWord THEN y ELSE y - Word

TickTypeOK ==
  /\ now \in 0 .. Wrap - 1
  /\ cpu \in {"init", "initLow", "boot", "first", "run", "high", "low", "arm"}
  /\ upper \in 0 .. Word - 1
  /\ lastTime \in 0 .. Wrap - 1
  /\ delta \in -HalfWord .. HalfWord - 1
  /\ due \in Int
  /\ spent \in Nat
  /\ ahead \in Int

\* The time base runs from reset on, so the kernel starts at any time.
TickInit ==
  /\ now \in 0 .. Wrap - 1
  /\ cpu = "init"
  /\ upper = 0 /\ lastTime = 0 /\ delta = 0
  /\ due = 0 /\ spent = 0 /\ ahead = 0

\* Threads run, before the first tick or after it.
Threads == cpu \in {"first", "run"}

\* How long the CPU may stay at a stage.
Limit ==
  CASE cpu = "boot" -> MaxBoot
    [] Threads     -> MaxLate + due + 1
    [] OTHER       -> MaxTurn

\* Time passes, and with it the decrementer counts down.
Pass ==
  /\ spent < Limit
  /\ now' = (now + 1) % Wrap
  /\ due' = IF Threads THEN due - 1 ELSE due
  /\ spent' = IF Threads THEN spent ELSE spent + 1
  /\ ahead' = ahead - 1
  /\ UNCHANGED <<cpu, upper, lastTime, delta>>

\* The stamp CPU::timeStamp returns: the lower half is read now, the upper half
\* was read before.
Stamp == upper * Word + (now % Word)

\* KCommKernel::init
InitHigh ==
  /\ cpu = "init"
  /\ upper' = now \div Word
  /\ cpu' = "initLow"
  /\ UNCHANGED <<now, lastTime, delta, due, spent, ahead>>

InitLow ==
  /\ cpu = "initLow"
  /\ lastTime' = Stamp
  /\ ahead' = 0
  /\ cpu' = "boot" /\ spent' = 0
  /\ UNCHANGED <<now, upper, delta, due>>

\* Scheduler::start sets the decrementer and lets the first thread run.
Start ==
  /\ cpu = "boot"
  /\ due' = Interval
  /\ cpu' = "first" /\ spent' = 0
  /\ UNCHANGED <<now, upper, lastTime, delta, ahead>>

\* The decrementer interrupt: the handler computes newTime and begins to read
\* the time base.
TickHigh ==
  /\ cpu = "high" \/ (Threads /\ due < 0)
  /\ upper' = now \div Word
  /\ cpu' = "low"
  /\ spent' = IF Threads THEN 0 ELSE spent
  /\ UNCHANGED <<now, lastTime, delta, due, ahead>>

\* delta = newTime - curTime, a 64-bit difference assigned to an s32.
Delta(newTime) == Signed(newTime - Stamp)

\* The rest of a turn of the loop.
TickLow ==
  LET newTime == (lastTime + Interval) % Wrap
  IN  /\ cpu = "low"
      /\ lastTime' = newTime
      /\ delta' = Delta(newTime)
      /\ ahead' = ahead + Interval
      /\ cpu' = IF delta' < 0 THEN "high" ELSE "arm"
      /\ spent' = 0
      /\ UNCHANGED <<now, upper, due>>

\* Mutant: the next tick is a whole interval after this one.
SetDecInterval ==
  /\ cpu = "arm"
  /\ due' = Interval
  /\ cpu' = "run" /\ spent' = 0
  /\ UNCHANGED <<now, upper, lastTime, delta, ahead>>

\* Powerpc::setDEC(delta); the scheduling that follows is Scheduler!Tick.
SetDec ==
  /\ cpu = "arm"
  /\ due' = delta
  /\ cpu' = "run" /\ spent' = 0
  /\ UNCHANGED <<now, upper, lastTime, delta, ahead>>

TickNext ==
  \/ Pass
  \/ InitHigh
  \/ InitLow
  \/ Start
  \/ TickHigh
  \/ TickLow
  \/ SetDec

TickSpec == TickInit /\ [][TickNext]_tickVars

-----------------------------------------------------------------------------
(* _tickCounter neither runs away from the time nor falls behind it, however *)
(* late an interrupt is taken and however the two halves of a time stamp are *)
(* torn: while threads run, from the first tick on, it is at most a tick     *)
(* ahead, and behind by no more than the time interrupts may be off and the  *)
(* time of a turn of the loop.                                               *)
TicksFollowTime ==
  cpu = "run" =>
    /\ ahead <= Interval
    /\ -ahead <= MaxLate + MaxTurn + 1

=============================================================================
