---------------------------- MODULE MCZakupLanes ----------------------------
(***************************************************************************)
(* Small instances of ZakupLanes, with lanes without rotation, on a proxy  *)
(* that a provider rotates, or with a pool of one proxy more, and of the   *)
(* stack that a request goes through on its lane.  A behaviour is one of   *)
(* the lanes or one of the stack.                                          *)
(***************************************************************************)
EXTENDS ZakupLanes, StrategyStack

ThreeProxies == <<"p1", "p2", "p3">>

LaneCalls(requests, blocks, gateways, raises, ages) ==
  [request |-> requests, block |-> blocks, gateway |-> gateways,
   raise |-> raises, age |-> ages]

MCBudgets ==
  [direct |-> {LaneCalls(3, 3, 1, 1, 0)},
   provider |-> {LaneCalls(3, 1, 0, 1, 1)},
   pool |-> {LaneCalls(2, 2, 0, 0, 0), LaneCalls(2, 1, 0, 1, 1)}]
ProbeBudgets == [direct |-> {LaneCalls(5, 5, 0, 2, 0)}]

MCStackBudget == [request |-> 3, block |-> 3, raise |-> 1, page |-> 1]

NoCalls == [k \in Kinds |-> 0]
NoStackEvents == [k \in StackEvents |-> 0]

MCInit ==
  \/ Init /\ StackInit(NoStackEvents) /\ endpoint = "lots/filter"
  \/ InitWith("direct", NoCalls) /\ StackInit(StackBudget)

MCNext ==
  \/ UNCHANGED stackVars /\ Next
  \/ UNCHANGED vars /\ StackNext

MCSpec == MCInit /\ [][MCNext]_<<vars, stackVars>> /\ Fairness

=============================================================================
