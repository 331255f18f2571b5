------------------------------ MODULE HeapAbs ------------------------------
(***************************************************************************)
(* What an allocator promises its callers: an allocation hands out a range *)
(* of bytes that nobody owns, and only the owner's free takes it back.     *)
(* Nothing is said of descriptors, free lists or which range is chosen.    *)
(***************************************************************************)
EXTENDS Integers

VARIABLES
  memory,     \* the byte addresses the allocator may hand out, never changed
  owned       \* the size of every owned range, by its first address

Bytes(a, n) == a .. a + n - 1

Init == owned = <<>>

Allocate(a, n) ==
  /\ a \notin DOMAIN owned
  /\ Bytes(a, n) \subseteq memory
  /\ \A b \in DOMAIN owned : Bytes(a, n) \cap Bytes(b, owned[b]) = {}
  /\ owned' = [x \in DOMAIN owned \cup {a} |-> IF x = a THEN n ELSE owned[x]]

Free(a) == owned' = [x \in DOMAIN owned \ {a} |-> owned[x]]

Next ==
  /\ memory' = memory
  /\ \/ \E a \in DOMAIN owned' \ DOMAIN owned : Allocate(a, owned'[a])
     \/ \E a \in DOMAIN owned : Free(a)

Spec == Init /\ [][Next]_<<memory, owned>>
=============================================================================
