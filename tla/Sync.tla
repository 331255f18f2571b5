-------------------------------- MODULE Sync --------------------------------
(***************************************************************************)
(* Threads that share one Mutex (kernel/src/ipc/mutex.cpp), which is a     *)
(* Semaphore (kernel/src/ipc/semaphore.cpp) with a holder and a recursion  *)
(* depth, on the scheduler of module Scheduler.                            *)
(*                                                                         *)
(* Only the current thread takes steps, and a tick may come between any    *)
(* two of them: a system call runs with external interrupts on, and the    *)
(* spinlocks do not turn them off.  A thread that waits for a spinlock     *)
(* spins until a tick lets the owner of the lock continue.                 *)
(***************************************************************************)
EXTENDS Scheduler

CONSTANTS
  Sem,        \* the header of the semaphore's waiter list
  None,       \* no thread: a free spinlock, Mutex::INVALID
  MaxDepth,   \* bound on the recursion depth
  MaxDebt,    \* bound on how far _val may fall below 0
  MayBlock    \* FALSE if threads only use trylock()

ASSUME SyncAssumption ==
  /\ WaitLists = {Sem}
  /\ None \notin Thread
  /\ MaxDepth \in Nat \ {0} /\ MaxDebt \in Nat
  /\ MayBlock \in BOOLEAN

VARIABLES
  pc,         \* where each thread is in the code
  spin,       \* the thread that has Semaphore::_spinlock
  val,        \* Semaphore::_val
  holder,     \* Mutex::_holder
  depth,      \* Mutex::_depth
  p, n        \* the two nodes RingList_Foreach_Safe keeps in Semaphore::unlock

syncVars == <<pc, spin, val, holder, depth, p, n>>
vars == <<schedVars, syncVars>>

Label == {"out", "spin", "dec", "remove", "unlink", "waiting", "enqueue", "schedule", "switch",
          "got", "own", "in", "tryspin", "trydec", "tryown", "unspin", "inc", "wake"}

Init ==
  /\ SchedInit
  /\ pc = [t \in Thread |-> "out"]
  /\ spin = None /\ val = 1
  /\ holder = None /\ depth = 0
  /\ p = Sem /\ n = Sem

Goto(t, from, to) == pc[t] = from /\ pc' = [pc EXCEPT ![t] = to]

\* Steps that leave the mutex, the semaphore or the scheduler alone.
MutexSame == UNCHANGED <<holder, depth>>
WalkSame == UNCHANGED <<p, n>>

-----------------------------------------------------------------------------
(* Semaphore::lock                                                         *)

SpinLock(t, from, to) ==
  /\ Goto(t, from, to)
  /\ spin = None /\ spin' = t
  /\ UNCHANGED <<schedVars, val>> /\ MutexSame /\ WalkSame

SemSpin(t) == SpinLock(t, "spin", "dec")

SemDec(t) ==
  /\ val > -MaxDebt
  /\ val' = val - 1
  /\ Goto(t, "dec", IF val - 1 < 0 THEN "remove" ELSE "got")
  /\ UNCHANGED <<schedVars, spin>> /\ MutexSame /\ WalkSame

SemGot(t) ==
  /\ Goto(t, "got", "own")
  /\ spin' = None
  /\ UNCHANGED <<schedVars, val>> /\ MutexSame /\ WalkSame

\* curThread->suspendSelf()
SuspendRotates(t) ==
  /\ Goto(t, "remove", "unlink")
  /\ RemoveRotates(t)
  /\ UNCHANGED <<state, execTicks, nextThread, spin, val>> /\ MutexSame /\ WalkSame

SuspendRemove(t) ==
  /\ Goto(t, "unlink", "waiting")
  /\ Remove(t)
  /\ UNCHANGED <<state, execTicks, nextThread, spin, val>> /\ MutexSame /\ WalkSame

SuspendWaiting(t) ==
  /\ Goto(t, "waiting", "enqueue")
  /\ state' = [state EXCEPT ![t] = "Waiting"]
  /\ UNCHANGED <<ring, execTicks, curThread, curNode, nextThread, spin, val>>
  /\ MutexSame /\ WalkSame

SemEnqueue(t) ==
  /\ Goto(t, "enqueue", "schedule")
  /\ ring' = [ring EXCEPT ![Sem] = Append(@, t)]
  /\ spin' = None
  /\ UNCHANGED <<state, execTicks, curThread, curNode, nextThread, val>>
  /\ MutexSame /\ WalkSame

\* scheduleInSemaphore() runs in the thread, where a tick can come between the
\* choice of the next thread and the switch to it.
SemSchedule(t) ==
  /\ \E u \in Thread \cup {Wild} :
       /\ Reschedule(u)
       /\ Goto(t, "schedule", IF u = t THEN "spin" ELSE "switch")
  /\ UNCHANGED <<ring, curThread, spin, val>> /\ MutexSame /\ WalkSame

SemSwitch(t) ==
  /\ Goto(t, "switch", "spin")
  /\ curThread' = nextThread
  /\ UNCHANGED <<ring, state, execTicks, curNode, nextThread, spin, val>>
  /\ MutexSame /\ WalkSame

-----------------------------------------------------------------------------
(* Semaphore::unlock wakes every waiter                                    *)

UnlockSpin(t) == SpinLock(t, "unspin", "inc")

UnlockInc(t) ==
  /\ Goto(t, "inc", "wake")
  /\ val' = val + 1
  /\ p' = NextOf(ring, Sem) /\ n' = NextOf(ring, p')
  /\ UNCHANGED <<schedVars, spin>> /\ MutexSame

UnlockWake(t) ==
  /\ p # Sem
  /\ Goto(t, "wake", "wake")
  /\ val' = val + 1
  /\ Wakeup(p, Unlink(ring, p))
  /\ p' = n
  /\ n' = NextOf(ring', n)
  /\ UNCHANGED <<execTicks, curNode, nextThread, spin>> /\ MutexSame

UnlockDone(t) ==
  /\ p = Sem
  /\ Goto(t, "wake", "out")
  /\ spin' = None
  /\ UNCHANGED <<schedVars, val>> /\ MutexSame /\ WalkSame

-----------------------------------------------------------------------------
(* Mutex                                                                   *)

Again(t) ==
  /\ holder = t /\ depth < MaxDepth
  /\ pc[t] \in {"out", "in"}
  /\ depth' = depth + 1
  /\ UNCHANGED <<schedVars, pc, spin, val, holder>> /\ WalkSame

MutexLock(t) ==
  /\ MayBlock
  /\ holder # t
  /\ Goto(t, "out", "spin")
  /\ UNCHANGED <<schedVars, spin, val>> /\ MutexSame /\ WalkSame

MutexOwn(t, from) ==
  /\ Goto(t, from, "in")
  /\ holder' = t /\ depth' = depth + 1
  /\ UNCHANGED <<schedVars, spin, val>> /\ WalkSame

MutexTrylock(t) ==
  /\ holder # t
  /\ Goto(t, "out", "tryspin")
  /\ UNCHANGED <<schedVars, spin, val>> /\ MutexSame /\ WalkSame

TrySpin(t) == SpinLock(t, "tryspin", "trydec")

\* Mutants: a permit is taken from a semaphore that has none; the count is not
\* decremented.
TryDecAtZero(t) ==
  /\ Goto(t, "trydec", IF val >= 0 THEN "tryown" ELSE "out")
  /\ val' = IF val >= 0 THEN val - 1 ELSE val
  /\ spin' = None
  /\ UNCHANGED schedVars /\ MutexSame /\ WalkSame

TryDecForgotten(t) ==
  /\ Goto(t, "trydec", IF val > 0 THEN "tryown" ELSE "out")
  /\ spin' = None
  /\ UNCHANGED <<schedVars, val>> /\ MutexSame /\ WalkSame

TryDec(t) ==
  /\ Goto(t, "trydec", IF val > 0 THEN "tryown" ELSE "out")
  /\ val' = IF val > 0 THEN val - 1 ELSE val
  /\ spin' = None
  /\ UNCHANGED schedVars /\ MutexSame /\ WalkSame

\* Mutant: the holder is not reset.
MutexUnlockKeepsHolder(t) ==
  /\ depth' = depth - 1
  /\ Goto(t, "in", IF depth - 1 = 0 THEN "unspin" ELSE "in")
  /\ UNCHANGED <<schedVars, spin, val, holder>> /\ WalkSame

MutexUnlock(t) ==
  /\ depth' = depth - 1
  /\ IF depth - 1 = 0
       THEN holder' = None /\ Goto(t, "in", "unspin")
       ELSE holder' = holder /\ Goto(t, "in", "in")
  /\ UNCHANGED <<schedVars, spin, val>> /\ WalkSame

-----------------------------------------------------------------------------
Step(t) ==
  /\ curThread = t
  /\ \/ MutexLock(t) \/ Again(t) \/ MutexTrylock(t) \/ MutexUnlock(t)
     \/ MutexOwn(t, "own") \/ MutexOwn(t, "tryown")
     \/ SemSpin(t) \/ SemDec(t) \/ SemGot(t)
     \/ SuspendRotates(t) \/ SuspendRemove(t) \/ SuspendWaiting(t) \/ SemEnqueue(t)
     \/ SemSchedule(t) \/ SemSwitch(t)
     \/ TrySpin(t) \/ TryDec(t)
     \/ UnlockSpin(t) \/ UnlockInc(t) \/ UnlockWake(t) \/ UnlockDone(t)

SysTick == Tick /\ UNCHANGED syncVars

Next == SysTick \/ \E t \in Thread : Step(t)

Spec == Init /\ [][Next]_vars

\* The decrementer keeps interrupting.
FairSpec == Spec /\ WF_vars(SysTick)

-----------------------------------------------------------------------------
(* Properties                                                              *)

\* Every variable has its type.
TypeOK ==
  /\ ring \in [Header -> Seq(Thread)]
  /\ state \in [Thread -> State]
  /\ execTicks \in [Thread -> 0 .. TotalTicks - 1]
  /\ curThread \in Thread \cup {Wild}
  /\ curNode \in Node
  /\ nextThread \in Thread \cup {Wild}
  /\ pc \in [Thread -> Label]
  /\ spin \in Thread \cup {None}
  /\ val \in Int
  /\ holder \in Thread \cup {None}
  /\ depth \in 0 .. MaxDepth
  /\ p \in Node /\ n \in Node

\* A thread has the semaphore from its successful decrement to the increment
\* that gives it back.
HasSem(t) == pc[t] \in {"got", "own", "tryown", "in", "unspin", "inc"}

\* At most one thread has the mutex, however ticks interleave the threads.
MutualExclusion == \A t, u \in Thread : HasSem(t) /\ HasSem(u) => t = u

\* The assertions that mutex.cpp compiles in never fire: the new owner finds no
\* holder and depth 0, the semaphore is below 2, and a thread that unlocks is
\* the holder with the semaphore below 1.
MutexAsserts ==
  /\ val < 2
  /\ \A t \in Thread :
       /\ pc[t] \in {"own", "tryown"} => holder = None /\ depth = 0
       /\ pc[t] = "in" => holder = t /\ depth > 0 /\ val < 1

\* A suspended thread is in no ring when it is put on the waiter list (the
\* assertion of Semaphore::lock), and no thread is ever in two rings or twice
\* in one, though remove() works on whatever ring the thread is in.
LinkedOnce ==
  /\ \A t \in Thread : pc[t] = "enqueue" => ~Linked(ring, t)
  /\ \A g, h \in Header : \A i \in DOMAIN ring[g], j \in DOMAIN ring[h] :
       ring[g][i] = ring[h][j] => g = h /\ i = j

\* The semaphore never gives out more than one permit: what unlock() adds for
\* the waiters was taken by them before, in spite of the retries in lock().
PermitsConserved ==
  val + Len(ring[Sem]) + (IF \E t \in Thread : HasSem(t) THEN 1 ELSE 0) <= 1

\* Every thread gets the CPU again and again as long as no thread blocks: the
\* walk of findNextThread is a fair rotation.
RoundRobin == \A t \in Thread : []<>(curThread = t)

\* The mutex implements a lock that is free or has one owner and passes from
\* one owner to the next only through being free.
Abs == INSTANCE AbsLock WITH owner <- holder
ImplementsLock == Abs!Spec
=============================================================================
