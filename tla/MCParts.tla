------------------------------ MODULE MCParts ------------------------------
(***************************************************************************)
(* The small components, which share no state, in one run: a behaviour is  *)
(* that of the component `part' names, and the others stay as they are at  *)
(* boot.                                                                   *)
(***************************************************************************)
EXTENDS Interrupts, Pools, SysTick, MtdTable, VfsPath, NandIdent, OneNandProbe

CONSTANTS d1, d2, d3, v1, v2, m3

VARIABLE part

\* The devices share the vector v1, but for d3, which has v2 to itself.
MCVecOf == [d \in Device |-> IF d = d3 THEN v2 ELSE v1]

\* The devices of v1 are alike.
Alike == Permutations({d1, d2})

\* Two devices of one name.
MCName == [d \in Mtd |-> IF d = m3 THEN "nand1" ELSE "nand0"]

Tails == {<<0, 0, 0, 0>>, <<16, 0, 0, 0>>, <<16, 68, Samsung, 220>>, <<16, 68, Hynix, 220>>, <<1, 2, 3, 4>>}
IdOf(maf, dev, cell, ext, t) ==
  [i \in 0 .. 7 |-> CASE i = 0 -> maf [] i = 1 -> dev [] i = 2 -> cell [] i = 3 -> ext [] OTHER -> t[i - 3]]
\* All values of the fourth byte for the Samsung and Hynix ids of six bytes and for an
\* id of four, some for the others
SomeIds ==
  {IdOf(maf, 220, cell, ext, <<16, 68, maf, 220>>) : maf \in {Samsung, Hynix}, cell \in {0, 4}, ext \in 0 .. 255}
  \cup {IdOf(Samsung, 220, 0, ext, <<0, 0, 0, 0>>) : ext \in 0 .. 255}
  \cup {IdOf(maf, 220, cell, ext, t) :
          maf \in {Samsung, Hynix}, cell \in {0, 4}, ext \in {0, 21, 106, 149, 255}, t \in Tails}
  \cup {IdOf(maf, dev, 0, ext, t) :
          maf \in {Amd, Micron, Toshiba}, dev \in {1, 51, 67, 117, 188, 9}, ext \in {0, 1, 21, 149}, t \in Tails}
  \cup {[i \in 0 .. 7 |-> 220], [i \in 0 .. 7 |-> 0]}

SomePages ==
  {[valid |-> v, revision |-> r, page |-> 2048, oob |-> 64, pages |-> 64, chip |-> 256, wide |-> w] :
     v \in {0, 3}, r \in {0, 2}, w \in {FALSE}}
SomeBoards ==
  {[wide |-> FALSE, maxchips |-> 1, mode |-> "soft", size |-> 0, bytes |-> 0],
   [wide |-> FALSE, maxchips |-> 3, mode |-> "hw", size |-> 512, bytes |-> 3],
   [wide |-> FALSE, maxchips |-> 1, mode |-> "syndrome", size |-> 1024, bytes |-> 10],
   [wide |-> TRUE, maxchips |-> 3, mode |-> "none", size |-> 0, bytes |-> 0]}

SomeChips ==
  {[density |-> d, ddp |-> two, flex |-> f[1], mlc |-> f[2], process |-> p, buffer |-> b, known |-> k[1], same |-> k[2]] :
     d \in 2 .. 5, two \in BOOLEAN, f \in {<<FALSE, FALSE>>, <<FALSE, TRUE>>, <<TRUE, TRUE>>}, p \in BOOLEAN,
     b \in {1024, 2048}, k \in {<<TRUE, TRUE>>, <<FALSE, TRUE>>, <<TRUE, FALSE>>}}

-----------------------------------------------------------------------------
\* A part that stays as it is at boot has one of its initial states.
PathIdle == path = <<>> /\ PathCall
IdentIdle ==
  /\ nandId = IdOf(Samsung, 220, 0, 21, <<0, 0, 0, 0>>)
  /\ param = [valid |-> 3] /\ board = [mode |-> "soft"] /\ others = 0
  /\ IdentStart
ProbeIdle == oneId = [known |-> FALSE] /\ ProbeStart

MCInit ==
  /\ part \in {"interrupts", "pools", "systick", "mtd", "path", "nandident", "onenandprobe"}
  /\ IF part = "pools" THEN TRUE ELSE kind = "thread"
  /\ IF part = "systick" THEN TRUE ELSE now = 0
  /\ IF part = "path" THEN PathInit ELSE PathIdle
  /\ IF part = "nandident" THEN IdentInit ELSE IdentIdle
  /\ IF part = "onenandprobe" THEN ProbeInit ELSE ProbeIdle
  /\ IntInit /\ PoolInit /\ TickInit /\ MtdInit

MCNext ==
  /\ UNCHANGED part
  /\ \/ /\ part = "interrupts" /\ IntNext
        /\ UNCHANGED <<poolVars, tickVars, mtdVars, pathVars, identVars, probeVars>>
     \/ /\ part = "pools" /\ PoolNext
        /\ UNCHANGED <<intVars, tickVars, mtdVars, pathVars, identVars, probeVars>>
     \/ /\ part = "systick" /\ TickNext
        /\ UNCHANGED <<intVars, poolVars, mtdVars, pathVars, identVars, probeVars>>
     \/ /\ part = "mtd" /\ MtdNext
        /\ UNCHANGED <<intVars, poolVars, tickVars, pathVars, identVars, probeVars>>
     \/ /\ part = "path" /\ PathNext
        /\ UNCHANGED <<intVars, poolVars, tickVars, mtdVars, identVars, probeVars>>
     \/ /\ part = "nandident" /\ IdentNext
        /\ UNCHANGED <<intVars, poolVars, tickVars, mtdVars, pathVars, probeVars>>
     \/ /\ part = "onenandprobe" /\ ProbeNext
        /\ UNCHANGED <<intVars, poolVars, tickVars, mtdVars, pathVars, identVars>>

MCSpec ==
  MCInit
  /\ [][MCNext]_<<part, intVars, poolVars, tickVars, mtdVars, pathVars, identVars, probeVars>>

(* The drivers find the devices that are there: a NAND or OneNAND chip gets  *)
(* the geometry and the layout its id says, and the table of MTD devices     *)
(* keeps what is registered and used.                                        *)
DevicesFound ==
  /\ part = "nandident" => IdentifiedRight
  /\ part = "onenandprobe" => ProbedRight
  /\ part = "mtd" => TableSound
=============================================================================
