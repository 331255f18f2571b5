--------------------------- MODULE MCYaffsCheckpt ---------------------------
(* The devices of the run of YaffsCheckpt                                  *)
EXTENDS YaffsCheckpt

Device == [cpb |-> 2, perChunk |-> 9, reserved |-> 2, share |-> 3, maxVer |-> 4, maxFaults |-> 1]
MCLayouts ==
  {[Device EXCEPT !.cpb = 3, !.perChunk = 7, !.reserved = 0, !.share = 4, !.maxVer = 3],
   \* so few erased blocks that the open of a checkpoint is refused
   Device,
   \* checkpoints that need more blocks than there are
   [Device EXCEPT !.perChunk = 5, !.reserved = 0, !.maxFaults = 0]}
=============================================================================
