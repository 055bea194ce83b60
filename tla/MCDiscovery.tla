---------------------------- MODULE MCDiscovery ----------------------------
(***************************************************************************)
(* Instances of Discovery for TLC.                                         *)
(***************************************************************************)
EXTENDS Discovery, TLC

CONSTANTS r1, r2, r3, eep, zakup, lots, points, adverts

MCServiceOf == (r1 :> eep) @@ (r2 :> zakup) @@ (r3 :> eep)
MCCatalogOf == (r1 :> lots) @@ (r2 :> adverts) @@ (r3 :> points)
MCConcurrency == (eep :> 2) @@ (zakup :> 1)
MCStartPage == [r \in Runs |-> 1]
MCMaxPages == (r1 :> 0) @@ (r2 :> 0) @@ (r3 :> 1)
MCSize == (lots :> 2) @@ (points :> 2) @@ (adverts :> 1)
MCBudget == [failure |-> 1, publish |-> 1, kill |-> 1, again |-> 1]

=============================================================================
