------------------------------ MODULE AbsQueue ------------------------------
(***************************************************************************)
(* What a message queue promises: messages leave in the order they came,   *)
(* urgent ones before all that are waiting.  Messages are lost by clearing *)
(* the queue, and by the message for which there is no room: it takes all  *)
(* the others, and itself, with it.                                        *)
(***************************************************************************)
EXTENDS Naturals, Sequences

CONSTANTS Message, Capacity

VARIABLE queue

Init == queue = <<>>

HasRoom == Len(queue) + 1 < Capacity

Put(m) == HasRoom /\ queue' = Append(queue, m)
PutUrgent(m) == HasRoom /\ queue' = <<m>> \o queue
Overrun == ~ HasRoom /\ queue' = <<>>
Take == queue # <<>> /\ queue' = Tail(queue)
Clear == queue' = <<>>

Next == Take \/ Clear \/ Overrun \/ \E m \in Message : Put(m) \/ PutUrgent(m)

Spec == Init /\ [][Next]_queue
=============================================================================
