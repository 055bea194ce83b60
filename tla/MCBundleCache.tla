--------------------------- MODULE MCBundleCache ----------------------------
(***************************************************************************)
(* BundleCache with a browser that was killed while it loaded the bundle   *)
(* and comes back behind stale_after, when another one waits as well.      *)
(***************************************************************************)
EXTENDS BundleCache

RaceBudget == [load |-> 4, fail |-> 0, kill |-> 1, restart |-> 1, slow |-> 0]

=============================================================================
