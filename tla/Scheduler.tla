------------------------------ MODULE Scheduler ------------------------------
(***************************************************************************)
(* The scheduler of the one CPU (kernel/src/task/schedule.cpp) with the    *)
(* thread operations that move threads in and out of its run queue         *)
(* (Thread::suspend and Thread::wakeup of kernel/src/task/thread.cpp).     *)
(*                                                                         *)
(* Every thread has the priority 0 its zeroed storage gives it:            *)
(* Thread::setPriority is private and has no caller.  So there is one run  *)
(* queue, _maxPrio is the priority of the current thread from the first    *)
(* append on, and the branches for _maxPrio > priority are never taken.    *)
(*                                                                         *)
(* A thread is linked by its _commList in at most one ring, the run queue  *)
(* or the waiter list of a semaphore.  A ring is the sequence of threads   *)
(* from header->next on; _curNodeInGroup may point at any node of any ring,*)
(* since remove() sets it to the successor of the removed node.            *)
(*                                                                         *)
(* The module declares the state and the steps; it has no behaviour of its *)
(* own, the modules that extend it interleave its steps with theirs.       *)
(***************************************************************************)
EXTENDS Integers, Sequences, FiniteSets

CONSTANTS
  Thread,       \* the threads of the system
  WaitLists,    \* the _waiterList headers of the semaphores
  RunHeader,    \* the header of the run queue
  TotalTicks,   \* Thread::_totalTicks, the length of a time slice
  Wild          \* "the current thread" when the CPU runs on a wild pointer

ASSUME SchedulerAssumption ==
  /\ IsFiniteSet(Thread) /\ Thread # {}
  /\ TotalTicks \in Nat \ {0}
  /\ RunHeader \notin Thread \cup WaitLists
  /\ Thread \cap WaitLists = {}
  /\ Wild \notin Thread

VARIABLES
  ring,         \* the threads linked behind each header
  state,        \* Thread::_state
  execTicks,    \* Thread::_execTicks
  curThread,    \* Scheduler::_curThread
  curNode,      \* _curNodeInGroup
  nextThread    \* Scheduler::_higherPriorityThread

schedVars == <<ring, state, execTicks, curThread, curNode, nextThread>>

Header == {RunHeader} \cup WaitLists
Node == Thread \cup Header
State == {"Ready", "Running", "Waiting"}

\* Node x lies in the ring of header h, for the rings r.
InRing(r, x, h) == x = h \/ \E i \in DOMAIN r[h] : r[h][i] = x
Linked(r, x) == \E h \in Header : InRing(r, x, h)

\* The ring a linked node is in, and its place there: 0 is the header.
HeaderOf(r, x) == CHOOSE h \in Header : InRing(r, x, h)
PlaceOf(r, x) ==
  LET s == r[HeaderOf(r, x)]
  IN  IF x \in Header THEN 0 ELSE CHOOSE i \in DOMAIN s : s[i] = x

\* x->next, for a linked node.
NextOf(r, x) ==
  LET h == HeaderOf(r, x)
      k == PlaceOf(r, x)
  IN  IF k < Len(r[h]) THEN r[h][k + 1] ELSE h

\* The nodes of x's ring in list order, starting behind x and ending before x.
Behind(r, x) ==
  LET h == HeaderOf(r, x)
      k == PlaceOf(r, x)
  IN  SubSeq(r[h], k + 1, Len(r[h]))
        \o (IF k = 0 THEN <<>> ELSE <<h>> \o SubSeq(r[h], 1, k - 1))

\* addNodeToRingDoubleListTail(x, t): t is linked in front of x.
LinkBefore(r, x, t) ==
  LET h == HeaderOf(r, x)
      k == PlaceOf(r, x)
  IN  [r EXCEPT ![h] = IF k = 0
                         THEN Append(@, t)
                         ELSE SubSeq(@, 1, k - 1) \o <<t>> \o SubSeq(@, k, Len(@))]

\* delNodeFromRingDoubleList
Unlink(r, t) ==
  [h \in Header |->
     IF InRing(r, t, h)
       THEN LET k == CHOOSE i \in DOMAIN r[h] : r[h][i] = t
            IN  [i \in 1 .. Len(r[h]) - 1 |-> IF i < k THEN r[h][i] ELSE r[h][i + 1]]
       ELSE r[h]]

-----------------------------------------------------------------------------
\* Scheduler::init and start(): the created threads are appended to the run
\* queue, the last of them is made the running one.
SchedInit ==
  \E queue \in [1 .. Cardinality(Thread) -> Thread] :
    /\ \A i, j \in DOMAIN queue : queue[i] = queue[j] => i = j
    /\ ring = [h \in Header |-> IF h = RunHeader THEN queue ELSE <<>>]
    /\ curThread = queue[Cardinality(Thread)]
    /\ state = [t \in Thread |-> IF t = curThread THEN "Running" ELSE "Ready"]
    /\ curNode = curThread
    /\ execTicks = [t \in Thread |-> 0]
    /\ nextThread = queue[1]

\* Scheduler::findNextThread walks the ring from _curNodeInGroup on.  A header
\* of a waiter list on the way is read as if it were a thread, whose state is
\* whatever lies there; without a Ready thread the walk returns its start node
\* unseen.  Unlinked nodes have null links.
ReadyAt(s, i) == s[i] \in Thread /\ state[s[i]] = "Ready"

FirstReady(s, i) == ReadyAt(s, i) /\ \A j \in 1 .. i - 1 : ~ReadyAt(s, j)

\* Mutant: the rotation point is not moved to the thread that was found.
FindNextThreadStays(t, node) ==
  \E i \in DOMAIN Behind(ring, curNode) :
    /\ FirstReady(Behind(ring, curNode), i)
    /\ t = Behind(ring, curNode)[i] /\ node = curNode

FindNextThread(t, node) ==
  LET s == Behind(ring, curNode)
  IN  IF ~Linked(ring, curNode)
        THEN t = Wild /\ node = curNode
        ELSE \/ \E i \in DOMAIN s : FirstReady(s, i) /\ t = s[i] /\ node = s[i]
             \/ /\ \E i \in DOMAIN s :
                     s[i] \in WaitLists /\ \A j \in 1 .. i - 1 : ~ReadyAt(s, j)
                /\ t = Wild /\ node = curNode
             \/ /\ ~\E i \in DOMAIN s : ReadyAt(s, i)
                /\ t = (IF curNode \in Thread THEN curNode ELSE Wild)
                /\ node = curNode

\* Scheduler::scheduleInInterrupt up to the context switch.  The result is in
\* nextThread; the switch is due unless that is the current thread.
SliceOver == execTicks[curThread] + 1 >= TotalTicks

Reschedule(t) ==
  /\ execTicks' = [execTicks EXCEPT ![curThread] = IF SliceOver THEN 0 ELSE @ + 1]
  /\ IF SliceOver
       THEN \E node \in Node :
              /\ FindNextThread(t, node)
              /\ curNode' = node
              /\ IF t = curThread
                   THEN UNCHANGED <<state, nextThread>>
                   ELSE /\ state' = [x \in Thread |->
                                       CASE x = curThread -> "Ready"
                                         [] x = t /\ x # curThread -> "Running"
                                         [] OTHER -> state[x]]
                        /\ nextThread' = t
       ELSE t = curThread /\ UNCHANGED <<state, curNode, nextThread>>

\* The decrementer interrupt (CommonKernel::handleSysTickInterrupt).  External
\* interrupts are off in the handler, so it is one step with the switch.
Tick ==
  /\ curThread # Wild
  /\ \E t \in Thread \cup {Wild} :
       /\ Reschedule(t)
       /\ curThread' = t
  /\ UNCHANGED ring

\* Thread::suspendSelf in its parts: the two writes of Scheduler::remove, between
\* which the tick may come, then the new state.  The rotation point moves on first.
\* Removing an unlinked thread follows a null pointer.
RemoveRotates(t) ==
  IF Linked(ring, t)
    THEN curNode' = NextOf(ring, t) /\ UNCHANGED <<ring, curThread>>
    ELSE curThread' = Wild /\ UNCHANGED <<ring, curNode>>

\* Mutant: the rotation point is moved, but the thread stays linked.
RemoveNotUnlinked(t) == UNCHANGED <<ring, curThread, curNode>>

\* If a tick came in between, the rotation point may be the thread itself again: it
\* is left at an unlinked node then.
Remove(t) ==
  IF Linked(ring, t)
    THEN ring' = Unlink(ring, t) /\ UNCHANGED <<curThread, curNode>>
    ELSE curThread' = Wild /\ UNCHANGED <<ring, curNode>>

\* Thread::wakeup by which a thread unlinked from a waiter list (r is the rings
\* without it) gets into the run queue again.
Wakeup(t, r) ==
  IF state[t] = "Waiting"
    THEN /\ state' = [state EXCEPT ![t] = "Ready"]
         /\ IF Linked(r, curNode)
              THEN ring' = LinkBefore(r, curNode, t) /\ UNCHANGED curThread
              ELSE ring' = r /\ curThread' = Wild
    ELSE ring' = r /\ UNCHANGED <<state, curThread>>
=============================================================================
