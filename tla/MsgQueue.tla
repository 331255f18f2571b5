------------------------------ MODULE MsgQueue ------------------------------
(***************************************************************************)
(* A message queue (kernel/src/ipc/msgqueue.cpp): a circular buffer of     *)
(* `Capacity' blocks, a mutex for it and a semaphore that counts messages. *)
(*                                                                         *)
(* Pointers into the buffer are block numbers.  Of a message the buffer    *)
(* keeps its length only: addMessage() and addUrgentMessage() pass the     *)
(* arguments of memcpy in the order for reading, so the body of the block  *)
(* is never written (msgqueue.cpp:79 and 111).                             *)
(*                                                                         *)
(* The code between lock and unlock of the mutex is one step, by the       *)
(* exclusion that module Sync shows, and so is the spinlock region of a    *)
(* semaphore operation.  A receiver goes through two such regions, and     *)
(* anything may come between them.  clear() and destroy() take no lock:    *)
(* their callers see to it that no sender is about and that no thread is   *)
(* inside the mutex when they start, but not that no receiver waits or is  *)
(* on its way to the mutex.  Each of them and init() is several steps,     *)
(* with receivers between them: in some of these windows a receiver reads  *)
(* the freed buffer or through a null pointer.                             *)
(***************************************************************************)
EXTENDS Integers, Sequences, FiniteSets

CONSTANTS
  Capacity,     \* number of blocks, the second argument of init()
  MaxMsgSize,   \* the first argument of init()
  Word,         \* sizeof(uint)
  WordMod,      \* one more than the largest uint
  Length,       \* the message lengths senders pass
  Receiver,     \* the threads that call getMessage()
  MaxCount,     \* bound on _msgCount, above Capacity: nothing stops a sender
  MaxPermits,   \* bound on the permits clear() adds
  MaxDebt       \* bound on how far the semaphore may fall below 0

ASSUME MsgQueueAssumption ==
  /\ Capacity \in Nat \ {0} /\ MaxCount \in Nat
  /\ MaxMsgSize \in Nat \ {0} /\ Word \in Nat \ {0} /\ WordMod \in Nat \ {0}
  /\ Length \subseteq Nat
  /\ IsFiniteSet(Receiver)
  /\ MaxPermits \in Nat /\ MaxDebt \in Nat

VARIABLES
  readPtr,      \* _readPtr
  writePtr,     \* _writePtr
  msgCount,     \* _msgCount
  len,          \* _len of each block of the buffer
  phase,        \* how far destroy() or init() has come
  val,          \* _msgQueueSem._val
  waiters,      \* _msgQueueSem._waiterList
  passed,       \* receivers between the semaphore and the mutex
  spurious      \* history: a permit may be about that has no message

bufVars == <<readPtr, writePtr, msgCount, len, phase>>
semVars == <<val, waiters>>
vars == <<bufVars, semVars, passed, spurious>>

Block == 0 .. Capacity - 1

\* A pointer that is not into the buffer: null, or null and some blocks.
Null == -1

\* "live": in use; "woken": the waiters are woken; "freed": the buffer is back
\* in the heap; "unbased": its bounds are null; "half": so is _writePtr;
\* "gone": all are; "init": a new buffer, with _writePtr set; "clear": in clear(),
\* with _writePtr set back.
Phase == {"live", "clear", "woken", "freed", "unbased", "half", "gone", "init"}

\* The buffer belongs to the queue, and its pointers are set.
Owned == phase \in {"live", "woken"}

\* _msgBlockSize: the length word and the body, rounded up to whole words.
MsgBlockSize == ((MaxMsgSize + Word + Word - 1) \div Word) * Word

Init ==
  /\ readPtr = 0 /\ writePtr = 0 /\ msgCount = 0
  /\ len \in [Block -> Length]
  /\ phase = "live"
  /\ val = 0 /\ waiters = {}
  /\ passed = {} /\ spurious = FALSE

-----------------------------------------------------------------------------
(* Mutants: plausible slips in the definitions that follow.                *)

BackStuck(i) == IF i <= 0 THEN 0 ELSE i - 1
SemUnlockTwice == val' = val + 2 + Cardinality(waiters) /\ waiters' = {}

-----------------------------------------------------------------------------
(* The buffer and the semaphore                                            *)

\* A pointer that reaches the end of the buffer is set to its start, and one
\* that is at the start is set to the end before it is moved back.
Forward(i) == IF i + 1 >= Capacity THEN 0 ELSE i + 1
Back(i) == (IF i <= 0 THEN Capacity ELSE i) - 1

\* The test in front of both ways to add a message.  The sum is a uint, so the
\* largest lengths pass; what their copy does to other memory is not modelled.
Accepts(l) == ~ ((l + Word) % WordMod > MsgBlockSize \/ l < 1)

\* Semaphore::unlock: one permit more, and every waiter is unlinked.
SemUnlock == val' = val + 1 + Cardinality(waiters) /\ waiters' = {}

EmptyBuffer == readPtr' = 0 /\ writePtr' = 0 /\ msgCount' = 0

\* One message more, and its permit.  A message that takes the last free block
\* makes the pointers equal: the permits of all of them are worth nothing then.
CountIn ==
  /\ msgCount < MaxCount
  /\ msgCount' = msgCount + 1
  /\ SemUnlock
  /\ spurious' = (spurious \/ readPtr' = writePtr')

-----------------------------------------------------------------------------
(* Receivers                                                               *)

\* getMessage() up to the mutex: _msgQueueSem.lock().  A receiver that finds
\* no permit is linked; the node of one that tries again is linked already.
\* One that was woken is as one that calls anew.
GetPermit(g) ==
  /\ g \notin passed
  /\ val > -MaxDebt
  /\ val' = val - 1
  /\ \/ val - 1 >= 0 /\ passed' = passed \cup {g} /\ waiters' = waiters
     \/ val - 1 < 0 /\ waiters' = waiters \cup {g} /\ passed' = passed
  /\ UNCHANGED <<bufVars, spurious>>

\* The rest of getMessage(), with the mutex.  With bounds that are null the
\* end of the buffer is reached at once, and from null it never is.
GetMessage(g) ==
  /\ g \in passed
  /\ readPtr # writePtr
  /\ readPtr' = IF phase \in {"unbased", "half", "init"} THEN Null ELSE Forward(readPtr)
  /\ msgCount' = msgCount - 1
  /\ passed' = passed \ {g}
  /\ UNCHANGED <<writePtr, len, phase, semVars, spurious>>

\* ... which returns EBUSY if there is no message.
GetBusy(g) ==
  /\ g \in passed
  /\ readPtr = writePtr
  /\ passed' = passed \ {g}
  /\ UNCHANGED <<bufVars, semVars, spurious>>

-----------------------------------------------------------------------------
(* Senders                                                                 *)

\* No test for a full buffer: the oldest message is overwritten then.
AddMessage(l) ==
  /\ Owned /\ Accepts(l)
  /\ len' = [len EXCEPT ![writePtr] = l]
  /\ writePtr' = Forward(writePtr)
  /\ readPtr' = readPtr
  /\ CountIn
  /\ UNCHANGED <<phase, passed>>

AddUrgentMessage(l) ==
  /\ Owned /\ Accepts(l)
  /\ readPtr' = Back(readPtr)
  /\ writePtr' = writePtr
  /\ len' = [len EXCEPT ![readPtr'] = l]
  /\ CountIn
  /\ UNCHANGED <<phase, passed>>

-----------------------------------------------------------------------------
(* The owner of the queue                                                  *)

\* clear() sets _writePtr back before _readPtr.
ClearWrite ==
  /\ phase = "live" /\ phase' = "clear" /\ val < MaxPermits
  /\ writePtr' = 0
  /\ spurious' = TRUE
  /\ UNCHANGED <<readPtr, msgCount, len, semVars, passed>>

\* Semaphore::destroy() is unlock(): a permit that comes with no message.
\* Mutex::destroy() does nothing, the depth being never below 0.
ClearRead ==
  /\ phase = "clear" /\ phase' = "live"
  /\ EmptyBuffer /\ SemUnlock
  /\ UNCHANGED <<len, passed, spurious>>

\* destroy() wakes the receivers, ...
DestroyWake ==
  /\ phase = "live" /\ phase' = "woken"
  /\ SemUnlock
  /\ spurious' = TRUE
  /\ UNCHANGED <<readPtr, writePtr, msgCount, len, passed>>

\* ... frees the buffer, and then sets its bounds to null.
DestroyFree ==
  /\ \/ phase = "woken" /\ phase' = "freed"
     \/ phase = "freed" /\ phase' = "unbased"
  /\ UNCHANGED <<readPtr, writePtr, msgCount, len, semVars, passed, spurious>>

\* `_readPtr = _writePtr = nullptr' sets the right one first.
DestroyWrite ==
  /\ phase = "unbased" /\ phase' = "half"
  /\ writePtr' = Null
  /\ UNCHANGED <<readPtr, msgCount, len, semVars, passed, spurious>>

DestroyRead ==
  /\ phase = "half" /\ phase' = "gone"
  /\ readPtr' = Null /\ msgCount' = 0
  /\ UNCHANGED <<writePtr, len, semVars, passed, spurious>>

\* The queue is allocated anew; the new buffer holds anything.  Receivers that
\* are still about may find their way into the mutex.  If the heap has no room
\* nothing of this state changes.
InitWrite ==
  /\ phase = "gone" /\ phase' = "init"
  /\ writePtr' = 0
  /\ len' \in [Block -> Length]
  /\ UNCHANGED <<readPtr, msgCount, semVars, passed, spurious>>

InitRead ==
  /\ phase = "init" /\ phase' = "live"
  /\ EmptyBuffer
  /\ val' = 0 /\ waiters' = {}
  /\ spurious' = (passed # {})
  /\ UNCHANGED <<len, passed>>

Next ==
  \/ \E g \in Receiver : GetPermit(g) \/ GetMessage(g) \/ GetBusy(g)
  \/ \E l \in Length : AddMessage(l) \/ AddUrgentMessage(l)
  \/ ClearWrite \/ ClearRead
  \/ DestroyWake \/ DestroyFree \/ DestroyWrite \/ DestroyRead
  \/ InitWrite \/ InitRead

Spec == Init /\ [][Next]_vars

-----------------------------------------------------------------------------
(* Properties                                                              *)

\* The block that is k places behind block r.
Place(r, k) == IF r + k >= Capacity THEN r + k - Capacity ELSE r + k

\* Of c messages these can be told from the distance of the pointers: a full
\* buffer looks like an empty one.
Reachable(c) == c % Capacity

\* The lengths of c messages that start at block r of buffer b.
Contents(r, c, b) == [k \in 1 .. c |-> b[Place(r, k - 1)]]

\* The messages a receiver can get at, in the order they will leave: none from
\* the moment the buffer is freed.
Queued == Contents(readPtr, IF Owned THEN Reachable(msgCount) ELSE 0, len)

\* The variables have their types: while the buffer has its bounds the pointers
\* stay inside it, whose end addMessage() and getMessage() test for after each
\* move, and the count, which is unsigned in the code, does not fall below 0.
TypeOK ==
  /\ phase \in Phase
  /\ readPtr \in Block \cup {Null} /\ writePtr \in Block \cup {Null}
  /\ msgCount \in Int
  /\ phase \in {"live", "woken", "freed"} =>
       readPtr \in Block /\ writePtr \in Block /\ msgCount \in 0 .. MaxCount
  /\ len \in [Block -> Length]
  /\ val \in Int /\ waiters \in SUBSET Receiver
  /\ passed \in SUBSET Receiver
  /\ spurious \in BOOLEAN

\* _msgCount, which isEmpty() looks at, agrees with the distance of the
\* pointers, which getMessage() looks at, up to whole rounds of the buffer, in
\* spite of urgent messages, of receivers in the middle of clear() and of
\* senders that overrun a full buffer, until destroy() touches the pointers.  So getMessage() returns
\* EBUSY just if the count is a multiple of the capacity, and never takes the
\* unsigned count below 0.
CountIsDistance ==
  phase \in {"live", "woken", "freed"} =>
    /\ msgCount >= 0
    /\ writePtr = Place(readPtr, Reachable(msgCount))

\* Without clear() and destroy(), and while senders leave a block free, every
\* receiver that got past the semaphore finds a message: getMessage() never
\* returns EBUSY.  The permits left and the linked receivers that unlock()
\* will add back are backed as well.
PermitsBacked ==
  ~ spurious =>
    /\ passed # {} => readPtr # writePtr
    /\ Cardinality(passed) <= msgCount
    /\ Cardinality(passed) + val + Cardinality(waiters) <= msgCount

\* A receiver is in the waiter list only while the semaphore is in debt: the
\* list is emptied by each unlock(), so none sleeps beside a free permit.
WaitersInDebt == waiters # {} => val < 0

\* The permits of the semaphore are sound: a receiver that passes finds a
\* message, and none sleeps beside a permit, however often lock() retries and
\* unlock() pays back.
PermitsSound == PermitsBacked /\ WaitersInDebt

Abs == INSTANCE AbsQueue WITH Message <- Length, queue <- Queued

\* The circular buffer implements a queue that is first in, first out, with
\* urgent messages in front, and that loses all its messages at once when a
\* sender takes the last free block.
ImplementsQueue == Abs!Spec
=============================================================================
