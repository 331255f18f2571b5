------------------------------- MODULE MCNand -------------------------------
(* The chips and the calls of the runs of NandBbt *)
EXTENDS NandBbt

MainAndMirror ==
  LET d == [options |-> {"LASTBLOCK", "VERSION", "WRITE", "CREATE"}, offs |-> 3, veroffs |-> 4, len |-> 4,
            maxblocks |-> 2, bits |-> 2, rcode |-> 0]
  IN  [td |-> d, md |-> d]
InData ==
  LET d == [options |-> {"LASTBLOCK", "PERCHIP", "VERSION", "WRITE", "CREATE", "NO_OOB"}, offs |-> 0, veroffs |-> 1, len |-> 1,
            maxblocks |-> 2, bits |-> 4, rcode |-> 0]
  IN  [td |-> d, md |-> d]

Pos12 == (0 :> 1) @@ (1 :> 2)
Pos123 == Pos12 @@ (2 :> 3)

SomeReads == {<<0, 1>>, <<1, 2>>, <<0, 4>>, <<2, 2>>, <<3, 1>>}
TwoReads == {<<1, 2>>, <<3, 1>>, <<2, 4>>}
SomeWrites == {<<0, 1>>, <<3, 1>>, <<0, 4>>, <<2, 2>>}
TwoWrites == {<<1, 1>>, <<2, 4>>, <<3, 2>>}
SomeErases == {<<0, 1>>, <<0, 2>>}
TwoErases == {<<0, 1>>, <<1, 2>>}
TableErases == {<<0, 1>>, <<5, 2>>}

\* One chip with a controller that computes the codes, read and written with faults
Board ==
  [nChips |-> 1, blocks |-> 2, pages |-> 2, steps |-> 2, oob |-> 4, ecc |-> "hw", eccPos |-> Pos12,
   oobFree |-> <<3>>, prePad |-> 0, postPad |-> 0, badPos |-> 0, largePage |-> TRUE,
   descr |-> <<>>, bbtOptions |-> {}, skipScan |-> TRUE, factoryBad |-> {{}},
   marks |-> {0, 1}, reads |-> SomeReads, writes |-> SomeWrites, erases |-> SomeErases, oobModes |-> {"auto"},
   faults |-> {"fail", "late", "cut", "torn"}, maxFaults |-> 1, maxFlips |-> 0, maxOps |-> 4, maxFateAt |-> 2]

MCBoards ==
  {[Board EXCEPT !.oobModes = {"auto", "place"}],
   \* small pages, the codes are read before the data, bits flip, a table in memory
   [Board EXCEPT !.ecc = "oob_first", !.largePage = FALSE, !.skipScan = FALSE, !.maxFaults = 0, !.maxFlips = 2],
   \* two chips without a table in flash, codes in software
   [Board EXCEPT !.nChips = 2, !.pages = 1, !.ecc = "soft", !.skipScan = FALSE, !.factoryBad = {{}, {1}},
                 !.reads = TwoReads, !.writes = TwoWrites, !.erases = TwoErases, !.faults = {"fail"}, !.maxOps = 3],
   \* codes between the data
   [Board EXCEPT !.oob = 5, !.ecc = "syndrome", !.oobFree = <<0, 2>>, !.prePad = 1, !.badPos = 4,
                 !.faults = {"fail", "late", "cut"}, !.maxFlips = 1],
   \* a table of two bytes and its mirror in the last blocks, updated under faults
   [Board EXCEPT !.blocks = 8, !.pages = 1, !.oob = 5, !.oobFree = <<>>, !.descr = MainAndMirror,
                 !.bbtOptions = {"USE_FLASH"}, !.skipScan = FALSE, !.factoryBad = {{}, {5}, {7}},
                 !.reads = {}, !.writes = {}, !.erases = TableErases, !.marks = {1, 4}, !.oobModes = {},
                 !.maxOps = 5, !.maxFateAt = 6],
   \* tables in the data area of each of two chips, bits of them flip
   [Board EXCEPT !.nChips = 2, !.blocks = 4, !.pages = 1, !.steps = 3, !.eccPos = Pos123, !.oobFree = <<>>,
                 !.descr = InData, !.bbtOptions = {"USE_FLASH", "NO_OOB_BBM", "NO_OOB"}, !.skipScan = FALSE,
                 !.reads = {}, !.writes = {}, !.erases = {}, !.marks = {1, 5}, !.oobModes = {},
                 !.maxFaults = 0, !.maxFlips = 2, !.maxFateAt = 4]}
=============================================================================
