------------------------------- MODULE Pools -------------------------------
(***************************************************************************)
(* The kernel's pools of preallocated objects: threads (ThreadManager),    *)
(* processes (ProcManager), VFS nodes (VFSManager), standard files         *)
(* (StdFileMng), message queues (MsgQueueManager) and listeners            *)
(* (ListenerManager).  They are one design with differences the constants  *)
(* below name: where a returned object is linked, whether objects are      *)
(* counted, and whether an empty pool is noticed.  A behaviour is that of  *)
(* one pool, chosen at the start.                                          *)
(*                                                                         *)
(* Each operation works under the lock of its pool and is one step, but for*)
(* MsgQueueManager::allocate, which initialises the queue between two      *)
(* critical sections.  The objects of a pool are numbered from 1; for      *)
(* processes this is the process id.  Processes beyond the pool come from  *)
(* the heap, with ids from N + 1 on.  Clients give back what they hold.    *)
(***************************************************************************)
EXTENDS Integers, Sequences

CONSTANTS
  Client,       \* the threads that use the pool
  Kinds,        \* the pools to look at
  N,            \* the number of objects of the pool
  MaxNormal,    \* how many processes are taken from the heap
  MaxStray,     \* bound on how far the count exceeds N
  Nobody        \* the owner of an object no client holds

AllKinds == {"thread", "proc", "vfsnode", "stdfile", "msgqueue", "listener"}

ASSUME PoolsAssumption ==
  /\ Kinds \subseteq AllKinds
  /\ N \in Nat \ {0} /\ MaxNormal \in Nat /\ MaxStray \in Nat
  /\ Nobody \notin Client

\* The pools that are double rings link a returned object at the tail, the
\* single lists at the header.
Ring == {"thread", "proc", "vfsnode"}
Counted == {"thread", "proc", "vfsnode", "msgqueue"}
Unchecked == {"thread", "proc"}

VARIABLES
  kind,         \* which pool this is
  pool,         \* its free list
  owner,        \* who holds each object, the processes on the heap included
  transit,      \* the queue a client is initialising, 0 if none
  used,         \* _curUsedThreadNum, _curUsedProcNum, allocatedCount, usedCount
  maxUsed,      \* the high-water mark, where there is one
  nextPid,      \* ProcManager::ProcessId
  linked,       \* FALSE while the pointers of the ring's header are null
  headerOwner,  \* who holds the header of the ring as an object
  strays,       \* how many objects at the null pointer clients hold
  overdrawn     \* history: an empty list has been taken from

outside == <<linked, headerOwner, strays, overdrawn>>
poolVars == <<kind, pool, owner, transit, used, maxUsed, nextPid, outside>>

Object == 1 .. N
AnyObject == 1 .. N + MaxNormal

PoolTypeOK ==
  /\ kind \in Kinds
  /\ pool \in Seq(AnyObject)
  /\ owner \in [AnyObject -> Client \cup {Nobody}]
  /\ transit \in [Client -> Object \cup {0}]
  /\ used \in Int /\ maxUsed \in Nat
  /\ nextPid \in N + 1 .. N + MaxNormal + 1
  /\ linked \in BOOLEAN /\ headerOwner \in Client \cup {Nobody}
  /\ strays \in Nat /\ overdrawn \in BOOLEAN

\* ListenerManagerImp::init links each listener in front of the one before.
PoolInit ==
  /\ kind \in Kinds
  /\ pool = [i \in Object |-> IF kind = "listener" THEN N + 1 - i ELSE i]
  /\ owner = [o \in AnyObject |-> Nobody]
  /\ transit = [t \in Client |-> 0]
  /\ used = 0 /\ maxUsed = 0
  /\ nextPid = N + 1
  /\ linked = TRUE /\ headerOwner = Nobody /\ strays = 0 /\ overdrawn = FALSE

Max2(a, b) == IF a > b THEN a ELSE b

CountTaken ==
  IF kind \in Counted
    THEN used' = used + 1 /\ maxUsed' = Max2(maxUsed, used')
    ELSE UNCHANGED <<used, maxUsed>>

CountReturned == used' = (IF kind \in Counted THEN used - 1 ELSE used)

\* The free list with an object linked in again.  While the pointers of the
\* header are null, the object is linked behind it and lost: allocate starts
\* at header->next, which stays null.
GivenBack(o) ==
  IF ~linked THEN pool
    ELSE IF kind \in Ring THEN Append(pool, o) ELSE <<o>> \o pool

-----------------------------------------------------------------------------
\* allocate: the first object of the free list is handed out.  An empty list
\* is answered with a null pointer, which changes nothing.
Take(t) ==
  /\ kind # "msgqueue" /\ pool # <<>>
  /\ owner' = [owner EXCEPT ![Head(pool)] = t]
  /\ pool' = Tail(pool)
  /\ CountTaken
  /\ UNCHANGED <<kind, transit, nextPid, outside>>

\* ThreadManager::allocate and ProcManager::allocate only assert that the list
\* is not empty, and assertions are compiled out: the header is taken for the
\* list node of an object and unlinked from itself, which clears its pointers.
TakeHeader(t) ==
  /\ kind \in Unchecked /\ pool = <<>> /\ linked
  /\ headerOwner' = t /\ linked' = FALSE /\ overdrawn' = TRUE
  /\ CountTaken
  /\ UNCHANGED <<kind, pool, owner, transit, nextPid, strays>>

\* From then on the null pointer is taken for a list node and handed out.
TakeNull(t) ==
  /\ ~linked /\ used < N + MaxStray
  /\ strays' = strays + 1
  /\ CountTaken
  /\ UNCHANGED <<kind, pool, owner, transit, nextPid, linked, headerOwner, overdrawn>>

\* deallocate links the header to itself: the list is empty again, and all that
\* was given back in between stays lost.  What stands where the id of a process
\* would be decides whether ProcManager::deallocate does anything.
ReturnHeader(t) ==
  /\ headerOwner = t
  /\ headerOwner' = Nobody
  /\ \/ linked' = TRUE /\ CountReturned
     \/ kind = "proc" /\ UNCHANGED <<linked, used>>
  /\ UNCHANGED <<kind, pool, owner, transit, maxUsed, nextPid, strays, overdrawn>>

ReturnNull ==
  /\ strays > 0
  /\ strays' = strays - 1
  /\ \/ CountReturned
     \/ kind = "proc" /\ UNCHANGED used
  /\ UNCHANGED <<kind, pool, owner, transit, maxUsed, nextPid, linked, headerOwner, overdrawn>>

\* MsgQueueManager::allocate: the queue is taken under the lock, initialised
\* without it, and given back under the lock again if it got no buffer.
TakeQueue(t) ==
  /\ kind = "msgqueue" /\ pool # <<>> /\ transit[t] = 0
  /\ transit' = [transit EXCEPT ![t] = Head(pool)]
  /\ pool' = Tail(pool)
  /\ CountTaken
  /\ UNCHANGED <<kind, owner, nextPid, outside>>

QueueInitialised(t) ==
  /\ transit[t] # 0
  /\ owner' = [owner EXCEPT ![transit[t]] = t]
  /\ transit' = [transit EXCEPT ![t] = 0]
  /\ UNCHANGED <<kind, pool, used, maxUsed, nextPid, outside>>

\* Mutant: the queue without a buffer is not linked in again.
QueueInitLeaks(t) ==
  /\ transit[t] # 0
  /\ transit' = [transit EXCEPT ![t] = 0]
  /\ CountReturned
  /\ UNCHANGED <<kind, pool, owner, maxUsed, nextPid, outside>>

QueueInitFails(t) ==
  /\ transit[t] # 0
  /\ pool' = GivenBack(transit[t])
  /\ transit' = [transit EXCEPT ![t] = 0]
  /\ CountReturned
  /\ UNCHANGED <<kind, owner, maxUsed, nextPid, outside>>

\* ProcManager::allocate(NormalProc): a process on the heap, with a new id.
TakeNormal(t) ==
  /\ kind = "proc"
  /\ nextPid <= N + MaxNormal
  /\ owner' = [owner EXCEPT ![nextPid] = t]
  /\ nextPid' = nextPid + 1
  /\ UNCHANGED <<kind, pool, transit, used, maxUsed, outside>>

\* ProcManager::deallocate tells by the id where a process came from.
FromPool(o) == o < N + 1

Deallocate(t, o) ==
  /\ owner[o] = t
  /\ owner' = [owner EXCEPT ![o] = Nobody]
  /\ IF FromPool(o)
       THEN pool' = GivenBack(o) /\ CountReturned
       ELSE UNCHANGED <<pool, used>>
  /\ UNCHANGED <<kind, transit, maxUsed, nextPid, outside>>

PoolNext ==
  \E t \in Client :
    \/ Take(t)
    \/ TakeHeader(t)
    \/ TakeNull(t)
    \/ ReturnHeader(t)
    \/ ReturnNull
    \/ TakeQueue(t)
    \/ QueueInitialised(t)
    \/ QueueInitFails(t)
    \/ TakeNormal(t)
    \/ \E o \in AnyObject : Deallocate(t, o)

PoolSpec == PoolInit /\ [][PoolNext]_poolVars

-----------------------------------------------------------------------------
OnList(o) == \E i \in DOMAIN pool : pool[i] = o
InTransit(o) == \E t \in Client : transit[t] = o

(* An object is in one place only: on the free list once, or with the client *)
(* that holds it, or being initialised by one client.  No pool hands an      *)
(* object out twice, and none is lost when a queue gets no buffer.           *)
InOnePlace ==
  /\ \A i, j \in DOMAIN pool : pool[i] = pool[j] => i = j
  /\ \A s, t \in Client : transit[s] # 0 /\ transit[s] = transit[t] => s = t
  /\ \A o \in Object :
       /\ OnList(o) \/ owner[o] # Nobody \/ InTransit(o)
       /\ ~(OnList(o) /\ owner[o] # Nobody)
       /\ ~(OnList(o) /\ InTransit(o))
       /\ ~(owner[o] # Nobody /\ InTransit(o))

(* A process from the heap never gets into the pool, from which it would be  *)
(* handed out as a real-time process.                                        *)
HeapNeverPooled == \A i \in DOMAIN pool : pool[i] \in Object

(* What VFSManager::verify tests, for every pool that counts: the objects on *)
(* the free list and the counted ones are all there are; and the high-water  *)
(* mark was never passed.                                                    *)
CountsAgree ==
  kind \in Counted => Len(pool) + used = N /\ 0 <= used /\ used <= maxUsed /\ maxUsed <= N

(* All three: whatever the clients do, a pool that checks for an empty list  *)
(* neither loses nor duplicates nor miscounts an object, also when it is     *)
(* exhausted; the pools of threads and processes do so until somebody takes  *)
(* from the empty list, after which nothing is said of them.                 *)
PoolSound ==
  IF overdrawn THEN kind \in Unchecked
    ELSE InOnePlace /\ HeapNeverPooled /\ CountsAgree
=============================================================================
