------------------------------ MODULE MtdTable ------------------------------
(***************************************************************************)
(* The table of MTD devices (fs/mtd/mtdcore.cpp): registration, use counts *)
(* and lookup by number, by device and by name.  Drivers register a device *)
(* that is not in the table, and users put back what they got; nothing in  *)
(* the code checks either.                                                 *)
(***************************************************************************)
EXTENDS Integers, FiniteSets

CONSTANTS
  Mtd,          \* the devices, each with its own mtd_info
  Name,         \* mtd_info::name of each device
  Slots,        \* MAX_MTD_DEVICES
  MaxUses,      \* the most references users hold at a time
  Null          \* an empty slot, and "not found"

ASSUME MtdTableAssumption ==
  /\ Slots \in Nat \ {0} /\ MaxUses \in Nat
  /\ DOMAIN Name = Mtd
  /\ Null \notin Mtd

VARIABLES
  table,        \* mtd_table
  index,        \* mtd_info::index
  usecount,     \* mtd_info::usecount
  uses          \* the references users have got and not put back

mtdVars == <<table, index, usecount, uses>>

Slot == 0 .. Slots - 1

MtdTypeOK ==
  /\ table \in [Slot -> Mtd \cup {Null}]
  /\ index \in [Mtd -> Slot]
  /\ usecount \in [Mtd -> Nat]
  /\ uses \in [Mtd -> Nat]

MtdInit ==
  /\ table = [i \in Slot |-> Null]
  /\ index = [d \in Mtd |-> 0]
  /\ usecount = [d \in Mtd |-> 0]
  /\ uses = [d \in Mtd |-> 0]

Registered(d) == \E i \in Slot : table[i] = d

FirstOf(S) == CHOOSE i \in S : \A j \in S : i <= j

\* The loop that goes on leaves the last match, the one that breaks the first.
LastOf(S) == CHOOSE i \in S : \A j \in S : i >= j

\* add_mtd_device; a full table is answered with 1 and changes nothing.
add_mtd_device(d) ==
  LET empty == {i \in Slot : table[i] = Null}
  IN  /\ ~Registered(d) /\ empty # {}
      /\ table' = [table EXCEPT ![FirstOf(empty)] = d]
      /\ index' = [index EXCEPT ![d] = FirstOf(empty)]
      /\ usecount' = [usecount EXCEPT ![d] = 0]
      /\ UNCHANGED uses

\* Mutant: a device in use is removed.
del_used(d) ==
  /\ table[index[d]] = d
  /\ table' = [table EXCEPT ![index[d]] = Null]
  /\ UNCHANGED <<index, usecount, uses>>

\* del_mtd_device; ENODEV and EBUSY change nothing.
del_mtd_device(d) ==
  /\ table[index[d]] = d
  /\ usecount[d] = 0
  /\ table' = [table EXCEPT ![index[d]] = Null]
  /\ UNCHANGED <<index, usecount, uses>>

Found(d) ==
  /\ d # Null
  /\ uses[d] < MaxUses
  /\ usecount' = [usecount EXCEPT ![d] = @ + 1]
  /\ uses' = [uses EXCEPT ![d] = @ + 1]
  /\ UNCHANGED <<table, index>>

\* get_mtd_device(mtd, -1): the device itself, if it is registered.
get_by_device(d) ==
  LET at == {i \in Slot : table[i] = d}
  IN  at # {} /\ Found(table[LastOf(at)])

\* get_mtd_device(mtd, num): the device of that number; mtd may be null.
get_by_number(d, num) ==
  LET there == table[num]
  IN  Found(IF d # Null /\ d # there THEN Null ELSE there)

\* get_mtd_device_nm(name): the first device of that name.
get_mtd_device_nm(name) ==
  LET at == {i \in Slot : table[i] # Null /\ Name[table[i]] = name}
  IN  at # {} /\ Found(table[FirstOf(at)])

\* The count it leaves is not negative; the assertion behind it, c < 0, is
\* compiled out, and would fail here.
put_mtd_device(d) ==
  /\ uses[d] > 0
  /\ usecount' = [usecount EXCEPT ![d] = @ - 1]
  /\ uses' = [uses EXCEPT ![d] = @ - 1]
  /\ UNCHANGED <<table, index>>

MtdNext ==
  \/ \E d \in Mtd :
       \/ add_mtd_device(d)
       \/ del_mtd_device(d)
       \/ get_by_device(d)
       \/ put_mtd_device(d)
  \/ \E d \in Mtd \cup {Null}, num \in Slot : get_by_number(d, num)
  \/ \E d \in Mtd : get_mtd_device_nm(Name[d])

MtdSpec == MtdInit /\ [][MtdNext]_mtdVars

-----------------------------------------------------------------------------
(* A device somebody uses stays in the table, under the number it was given, *)
(* whatever other devices come and go.                                       *)
UsedIsRegistered ==
  \A d \in Mtd : uses[d] > 0 => table[index[d]] = d

(* Every device of the table can be removed again: it is in one slot, and    *)
(* knows which.                                                              *)
NumbersAgree == \A i \in Slot : table[i] # Null => index[table[i]] = i

(* Both: the table never loses, duplicates or misnumbers a device.           *)
TableSound == NumbersAgree /\ UsedIsRegistered

=============================================================================
