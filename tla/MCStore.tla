------------------------------ MODULE MCStore -------------------------------
(***************************************************************************)
(* What is written and read of the entities.  Sessions write two lots (1   *)
(* and 2) and their notice (3): the notice with the content of a lot or    *)
(* only with its identities, a lot with its notice, a replay of both lots, *)
(* and a page of discovered lots.  An export reads what they commit.  The  *)
(* lots of a notice are read from the portal, on their own.                *)
(*                                                                         *)
(* A behaviour is one of the first two or one of the last: its budgets say *)
(* which.                                                                  *)
(***************************************************************************)
EXTENDS EntityStore, Exporter, NoticeLots

CONSTANTS c1, c2

Of(lot1, lot2, notice) ==
  [e \in 1..3 |-> CASE e = 1 -> lot1 [] e = 2 -> lot2 [] e = 3 -> notice]

Writes(kind, fetched, relations) ==
  [kind |-> kind, listed |-> {}, fetched |-> fetched, relations |-> relations]

MCEntities == 1..3
MCBatches ==
  {Writes("persist", Of(c1, NoContent, c1), {<<3, 1>>}),
   Writes("persist", Of(NoContent, NoContent, c2), {<<3, 1>>, <<3, 2>>}),
   Writes("persist", Of(NoContent, c2, NoContent), {<<3, 2>>}),
   Writes("replay", Of(c2, c1, NoContent), {}),
   [NoBatch EXCEPT !.listed = {1, 2}]}

\* The second lot is of the other source.
MCSourceOf == [e \in 1..3 |-> IF e = 2 THEN "eep" ELSE "zakup"]
MCFileOrder == <<"combined", "eep", "zakup">>

MCBudget == [begin |-> 4, fail |-> 1]
MCExportBudget == [export |-> 2, fail |-> 1]
MCLotsBudget == [extract |-> 1, fail |-> 1, add |-> 1, remove |-> 2]

Alone    == [begin |-> 0, fail |-> 0]
Exported == [begin |-> 1, fail |-> 0]
NoExport == [export |-> 0, fail |-> 0]
NoLots   == [extract |-> 0, fail |-> 0, add |-> 0, remove |-> 0]

MCInit ==
  \/ /\ \/ InitWith(MCBudget) /\ ExportInit(NoExport)
        \/ InitWith(Exported) /\ ExportInit(MCExportBudget)
     /\ LotsInit(NoLots) /\ listed = {}
  \/ InitWith(Alone) /\ ExportInit(NoExport) /\ LotsInit(MCLotsBudget)

MCNext ==
  \/ UNCHANGED <<exportVars, lotsVars>> /\ Next
  \/ UNCHANGED <<vars, lotsVars>> /\ ExportNext
  \/ UNCHANGED <<vars, exportVars>> /\ LotsNext

MCSpec ==
  MCInit /\ [][MCNext]_<<vars, exportVars, lotsVars>> /\ Fairness

=============================================================================
