----------------------------- MODULE MCSources ------------------------------
(***************************************************************************)
(* What stands between a worker and a portal: the lanes of EepHttpClient,  *)
(* the captcha solvers of the Zakup browsers, and the bundle these start   *)
(* with.  They share no variable: a behaviour is one of one of them, which *)
(* its budgets say.                                                        *)
(***************************************************************************)
EXTENDS EepLanes, CaptchaSolvers, BundleCache

\* EepLanes: two lanes and a proxy that no lane has; everything that may fail in
\* one process, less of it and a restart, or a restart beside another client.
ThreeProxies == <<"p1", "p2", "p3">>
MCLaneBudget ==
  [get |-> 2, block |-> 2, error |-> 1, lost |-> 0, save |-> 1, rotate |-> 1,
   kill |-> 0, other |-> 0]
LossBudget == [MCLaneBudget EXCEPT !.block = 1, !.lost = 1]
RestartBudget == [MCLaneBudget EXCEPT !.error = 0, !.save = 0, !.kill = 1]
SharedBudget == [RestartBudget EXCEPT !.block = 1, !.other = 1]

\* CaptchaSolvers: two browsers of a process, and one of another that has the
\* lane of the second.
MCProcessOf == [c \in 1..3 |-> IF c = 3 THEN "p2" ELSE "p1"]
MCLaneOf == [c \in 1..3 |-> IF c = 1 THEN "x" ELSE "y"]
MCCaptchaBudget ==
  [solve |-> 4, error |-> 1, lost |-> 1, raise |-> 1, record |-> 1, kill |-> 1]

\* BundleCache: a killed process does not come back, and no download outlives
\* stale_after; MCBundleCache is about those that do.
MCBundleBudget ==
  [load |-> 4, fail |-> 2, kill |-> 1, restart |-> 0, slow |-> 0]

None(kinds) == [k \in kinds |-> 0]

MCInit ==
  \/ /\ \/ \E b \in {MCLaneBudget, LossBudget, RestartBudget} : InitWith(b)
        \/ InitWith(SharedBudget) /\ network \in {"proxy", "pool"}
     /\ CaptchaInit(None(CaptchaEvents)) /\ BundleInit(None(BundleEvents))
  \/ /\ InitWith(None(LaneEvents)) /\ network = "direct"
     /\ \/ CaptchaInit(MCCaptchaBudget) /\ BundleInit(None(BundleEvents))
        \/ CaptchaInit(None(CaptchaEvents)) /\ BundleInit(MCBundleBudget)

MCNext ==
  \/ UNCHANGED <<captchaVars, bundleVars>> /\ Next
  \/ UNCHANGED <<vars, bundleVars>> /\ CaptchaNext
  \/ UNCHANGED <<vars, captchaVars>> /\ BundleNext

MCSpec ==
  /\ MCInit /\ [][MCNext]_<<vars, captchaVars, bundleVars>>
  /\ Fairness /\ CaptchaFairness /\ BundleFairness

=============================================================================
