------------------------------ MODULE MCWorkers ------------------------------
(***************************************************************************)
(* Instances of Workers for TLC: two loops, one or two processes, two      *)
(* tasks of which the first discovers the second.                          *)
(***************************************************************************)
EXTENDS Workers, TLC

CONSTANTS w1, w2, p1, p2, a, b

MCOneProcess == (w1 :> p1) @@ (w2 :> p1)
MCTwoProcesses == (w1 :> p1) @@ (w2 :> p2)
MCDaemons == (p1 :> "daemon") @@ (p2 :> "daemon")
MCDaemonAndOnce == (p1 :> "daemon") @@ (p2 :> "once")
MCDrain == (p1 :> "drain")
MCPair == (a :> {b}) @@ (b :> {})
MCSingle == (a :> {})

NoBudget == [k \in Kinds |-> 0]
MCCrashBudget ==
  [NoBudget EXCEPT !["expire"] = 1, !["kill"] = 1]
MCRefreshBudget ==
  [NoBudget EXCEPT !["expire"] = 2, !["change"] = 1, !["enqueue"] = 1,
                   !["signal"] = 1]
MCDrainBudget ==
  [NoBudget EXCEPT !["fault"] = 1, !["block"] = 1]
MCStaleBudget ==
  [NoBudget EXCEPT !["expire"] = 1]

\* Nothing that is queued at first is urgent.
CalmInit == Init /\ \A t \in Tasks : ~frontier[t].urgent

CalmSpec == CalmInit /\ [][Next]_vars /\ Fairness

=============================================================================
