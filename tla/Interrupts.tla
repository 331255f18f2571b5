----------------------------- MODULE Interrupts -----------------------------
(***************************************************************************)
(* External interrupts: the table of vectors (kernel/src/interrut.cpp) with*)
(* the way its clients use it, SerialTty::init and SerialTty::teminate     *)
(* (kernel/src/tty/serialtty.cpp), the interrupt controller as the         *)
(* motherboard drives it and externalIntHandler.                           *)
(*                                                                         *)
(* There is one CPU.  The lock of a vector is a spinlock that the handler  *)
(* takes too, and a thread holds it with interrupts enabled: a handler that*)
(* finds it held spins for ever, since the holder never runs again.  What  *)
(* keeps this from happening is the order of the driver alone: connect,    *)
(* then unmask; mask, then disconnect.  Drivers run as threads, so their   *)
(* updates of the mask may overlap.  A thread that finds the lock held  *)
(* by another thread spins until the tick gives the CPU to the holder, so  *)
(* for a thread waiting for the lock is a guard.                           *)
(*                                                                         *)
(* A node of a vector's list is identified by the device that connected it *)
(* (its argument), which is what disconnectInterruptVector searches for.   *)
(* interVectorflags, intptCounter and callbackFunCounter are written and   *)
(* never read; they are left out.                                          *)
(*                                                                         *)
(* The vectors are lines of the master 8259, whose poll picIrqNo reads; the*)
(* answer of the slave is shifted by 8 there and names no vector of the    *)
(* table, so lines behind the slave are left out, and so are the spurious  *)
(* interrupts, for which externalIntHandler returns at once.               *)
(***************************************************************************)
EXTENDS Integers, Sequences, SequencesExt, FiniteSets

CONSTANTS
  Device,       \* the devices with a driver
  Vector,       \* the interrupt vectors
  VecOf,        \* Uart::_vecNum of each device
  MayFail,      \* the devices for which kheap.allocate may return null
  NoVector      \* no vector: the CPU is not stuck in a handler

ASSUME InterruptsAssumption ==
  /\ VecOf \in [Device -> Vector]
  /\ MayFail \subseteq Device
  /\ NoVector \notin Vector
  /\ IsFiniteSet(Device) /\ "free" \notin Device

VARIABLES
  stage,        \* where each device's driver is in init or teminate
  chain,        \* callbackDescHeader of each vector: a list of devices
  holder,       \* the driver that holds the vector's spinlock
  mask,         \* I8259::_mask, the vectors whose bit is set
  masked,       \* the mask register of the interrupt controller
  copy,         \* what each driver that updates _mask has of it in a register
  lost,         \* history: an update of the mask undid another
  request,      \* the devices that ask for service on their vector
  allocated,    \* the devices whose callback node is allocated
  stuck         \* the vector whose handler spins for ever

intVars == <<stage, chain, holder, mask, masked, copy, lost, request, allocated, stuck>>

Free == "free"
PC == {"off", "connect", "link", "unlock", "enable", "unmask", "unmaskOut", "on",
       "mask", "maskOut", "disconnect", "unlink", "release", "dispose"}

IntTypeOK ==
  /\ stage \in [Device -> PC]
  /\ chain \in [Vector -> Seq(Device)]
  /\ holder \in [Vector -> Device \cup {Free}]
  /\ mask \subseteq Vector /\ masked \subseteq Vector
  /\ copy \in [Device -> SUBSET Vector] /\ lost \in BOOLEAN
  /\ request \subseteq Device
  /\ allocated \subseteq Device
  /\ stuck \in Vector \cup {NoVector}

\* The table lies in zeroed storage; the controller starts with all masked.
IntInit ==
  /\ stage = [d \in Device |-> "off"]
  /\ chain = [v \in Vector |-> <<>>]
  /\ holder = [v \in Vector |-> Free]
  /\ mask = Vector /\ masked = Vector
  /\ copy = [d \in Device |-> {}] /\ lost = FALSE
  /\ request = {}
  /\ allocated = {}
  /\ stuck = NoVector

Running == stuck = NoVector

Go(d, from, to) == stage[d] = from /\ stage' = [stage EXCEPT ![d] = to]

-----------------------------------------------------------------------------
\* Mutant: the vector is unmasked before the callback is connected.
AllocateNodeUnmasked(d) ==
  /\ Running
  /\ Go(d, "off", "connect")
  /\ allocated' = allocated \cup {d}
  /\ mask' = mask \ {VecOf[d]} /\ masked' = mask'
  /\ UNCHANGED <<chain, holder, copy, lost, request, stuck>>

\* connectInterruptVector: the node is allocated first.
AllocateNode(d) ==
  /\ Running
  /\ Go(d, "off", "connect")
  /\ allocated' = allocated \cup {d}
  /\ UNCHANGED <<chain, holder, mask, masked, copy, lost, request, stuck>>

\* Without memory it returns ENOMEM, which SerialTty::init does not look at.
AllocateNodeFails(d) ==
  /\ d \in MayFail /\ Running
  /\ Go(d, "off", "enable")
  /\ UNCHANGED <<chain, holder, mask, masked, copy, lost, request, allocated, stuck>>

\* Spinlock::lock by a thread, on the way in and on the way out.
Lock(d, from, to) ==
  /\ Running
  /\ holder[VecOf[d]] = Free
  /\ holder' = [holder EXCEPT ![VecOf[d]] = d]
  /\ Go(d, from, to)
  /\ UNCHANGED <<chain, mask, masked, copy, lost, request, allocated, stuck>>

Unlock(d, from, to) ==
  /\ Running
  /\ holder' = [holder EXCEPT ![VecOf[d]] = Free]
  /\ Go(d, from, to)
  /\ UNCHANGED <<chain, mask, masked, copy, lost, request, allocated, stuck>>

LockToConnect(d) == Lock(d, "connect", "link")

\* The node becomes the head of the vector's list.
Link(d) ==
  /\ Running
  /\ chain' = [chain EXCEPT ![VecOf[d]] = <<d>> \o @]
  /\ Go(d, "link", "unlock")
  /\ UNCHANGED <<holder, mask, masked, copy, lost, request, allocated, stuck>>

UnlockConnected(d) == Unlock(d, "unlock", "enable")

\* I8259::unmask and I8259::mask change _mask and write it to the controller
\* with interrupts enabled and no lock: the tick may come between the load of
\* _mask, its store and the output.
LoadMask(d, from, to) ==
  /\ Running
  /\ copy' = [copy EXCEPT ![d] = mask]
  /\ Go(d, from, to)
  /\ UNCHANGED <<chain, holder, mask, masked, lost, allocated, stuck>>

\* The store of what was made of the copy; a change of _mask since the load is
\* undone.
StoreMask(d, value, from, to) ==
  /\ Running
  /\ mask' = value /\ copy' = [copy EXCEPT ![d] = value]
  /\ lost' = (lost \/ copy[d] # mask)
  /\ Go(d, from, to)
  /\ UNCHANGED <<chain, holder, masked, request, allocated, stuck>>

\* out8(_base + 1, _mask): _mask is not volatile, so the compiler may take the
\* value from the register or load it again.
OutMask(d, from, to) ==
  /\ Running
  /\ masked' \in {copy[d], mask}
  /\ lost' = (lost \/ masked' # mask)
  /\ copy' = [copy EXCEPT ![d] = {}]
  /\ Go(d, from, to)
  /\ UNCHANGED <<chain, holder, mask, request, allocated, stuck>>

\* HMB::peripheralEnableIrq
LoadToEnable(d) == LoadMask(d, "enable", "unmask") /\ UNCHANGED request
EnableIrq(d) == StoreMask(d, copy[d] \ {VecOf[d]}, "unmask", "unmaskOut")
OutEnabled(d) == OutMask(d, "unmaskOut", "on")

\* HMB::peripheralDisableIrq, after Uart::close has reset the device.
LoadToDisable(d) == LoadMask(d, "on", "mask") /\ request' = request \ {d}
DisableIrq(d) == StoreMask(d, copy[d] \cup {VecOf[d]}, "mask", "maskOut")
OutDisabled(d) == OutMask(d, "maskOut", "disconnect")

LockToDisconnect(d) == Lock(d, "disconnect", "unlink")

\* Mutant: the predecessor pointer lags one node behind, so a node that is not
\* the head is not taken out.
UnlinkHeadOnly(d) ==
  /\ Running
  /\ chain' = [chain EXCEPT ![VecOf[d]] =
                 IF @ # <<>> /\ Head(@) = d THEN Tail(@) ELSE @]
  /\ Go(d, "unlink", "release")
  /\ UNCHANGED <<holder, mask, masked, copy, lost, request, allocated, stuck>>

\* disconnectInterruptVector takes the first node with this argument out; there
\* is none if the device could not be connected.
Unlink(d) ==
  /\ Running
  /\ chain' = [chain EXCEPT ![VecOf[d]] = RemoveFirst(@, d)]
  /\ Go(d, "unlink", "release")
  /\ UNCHANGED <<holder, mask, masked, copy, lost, request, allocated, stuck>>

UnlockDisconnected(d) == Unlock(d, "release", "dispose")

\* kheap.free of the node; of a null pointer if none was found.
Dispose(d) ==
  /\ Running
  /\ allocated' = allocated \ {d}
  /\ Go(d, "dispose", "off")
  /\ UNCHANGED <<chain, holder, mask, masked, copy, lost, request, stuck>>

-----------------------------------------------------------------------------
\* A device asks for service: a character came in or the transmitter is empty.
\* A request on a masked vector stays pending in the controller; once the CPU
\* spins for ever, requests matter to nobody.
Request(d) ==
  /\ Running
  /\ d \notin request
  /\ request' = request \cup {d}
  /\ UNCHANGED <<stage, chain, holder, mask, masked, copy, lost, allocated, stuck>>

Pending(v) == v \notin masked /\ \E d \in request : VecOf[d] = v

\* externalIntHandler and solveInterurpt: with interrupts off on the one CPU
\* the handler is one step.  Every callback of the list runs and clears the
\* request of its device; then the controller is told.
Serve(v) ==
  /\ Running /\ Pending(v)
  /\ holder[v] = Free
  /\ request' = request \ ToSet(chain[v])
  /\ UNCHANGED <<stage, chain, holder, mask, masked, copy, lost, allocated, stuck>>

\* The handler finds the spinlock held by a thread it interrupted.
Spin(v) ==
  /\ Running /\ Pending(v)
  /\ holder[v] # Free
  /\ stuck' = v
  /\ UNCHANGED <<stage, chain, holder, mask, masked, copy, lost, request, allocated>>

-----------------------------------------------------------------------------
Driver(d) ==
  \/ AllocateNode(d)
  \/ AllocateNodeFails(d)
  \/ LockToConnect(d)
  \/ Link(d)
  \/ UnlockConnected(d)
  \/ LoadToEnable(d) \/ EnableIrq(d) \/ OutEnabled(d)
  \/ LoadToDisable(d) \/ DisableIrq(d) \/ OutDisabled(d)
  \/ LockToDisconnect(d)
  \/ Unlink(d)
  \/ UnlockDisconnected(d)
  \/ Dispose(d)

IntNext ==
  \/ \E d \in Device : Driver(d) \/ Request(d)
  \/ \E v \in Vector : Serve(v) \/ Spin(v)

IntSpec == IntInit /\ [][IntNext]_intVars

-----------------------------------------------------------------------------
SharedBy(v) == {d \in Device : VecOf[d] = v}

(* The handler deadlocks with a thread only on a vector that two devices     *)
(* share, or after two drivers updated the mask at the same time and one of  *)
(* the updates was lost: where a vector has one device and no update of the  *)
(* mask was lost, the order of SerialTty::init and SerialTty::teminate keeps *)
(* interrupts away while the lock is held.                                   *)
SpinsOnlyIfShared == stuck # NoVector => lost \/ Cardinality(SharedBy(stuck)) > 1

(* A handler never follows a list through a freed node: every node linked in *)
(* a vector's list is allocated, and none is linked twice.                   *)
ChainIsAllocated ==
  \A v \in Vector :
    /\ ToSet(chain[v]) \subseteq allocated
    /\ \A i, j \in DOMAIN chain[v] : chain[v][i] = chain[v][j] => i = j

(* Whoever connected successfully stays connected until it disconnects,      *)
(* whatever the other devices of its vector do: its callback is in the list  *)
(* of its vector all the time it is on.                                      *)
ConnectedWhileOn ==
  \A d \in Device :
    stage[d] \in {"unlock", "enable", "unmask", "unmaskOut", "on", "mask", "maskOut",
                  "disconnect", "unlink"} /\ d \in allocated =>
      Contains(chain[VecOf[d]], d)

(* Both: the list a handler walks is made of allocated nodes, each once, and *)
(* has the node of every device that is connected.                           *)
ChainSound == ChainIsAllocated /\ ConnectedWhileOn
=============================================================================
