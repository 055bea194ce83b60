----------------------------- MODULE BundleCache -----------------------------
(***************************************************************************)
(* ZakupBundleCache: the browsers of several processes share a directory.  *)
(* A bundle that is not there yet is downloaded in ranges into a part      *)
(* file, under a lock file that is taken over when it is old, and the part *)
(* file becomes the bundle.  A file is the sequence of the ranges that     *)
(* were appended to it; the portal keeps the bundle it has.                *)
(***************************************************************************)
EXTENDS Naturals, Sequences

CONSTANTS
  Loaders, NoLoader,  \* browsers that start, each in a process of its own
  Ranges,             \* ranges of a bundle
  BundleBudget        \* bounds

\* Starts of a browser, range requests that fail for good, killed processes,
\* killed ones that come back, downloads that outlive stale_after.
BundleEvents == {"load", "fail", "kill", "restart", "slow"}

ASSUME BundleAssumption ==
  /\ NoLoader \notin Loaders /\ Ranges \in Nat \ {0}
  /\ BundleBudget \in [BundleEvents -> Nat]

VARIABLES
  bundle,        \* destination
  part,          \* the .part file, <<>> without one
  lockFile,      \* the loader that created the .lock file
  lockIsOld,     \* its st_mtime is more than stale_after ago
  load,          \* where each loader is
  offset,
  bundleBudget

bundleVars == <<bundle, part, lockFile, lockIsOld, load, offset, bundleBudget>>

Whole == [i \in 1..Ranges |-> i]

BundleTypeOK ==
  /\ bundle \in Seq(1..Ranges) /\ part \in Seq(1..Ranges)
  /\ lockFile \in Loaders \cup {NoLoader}
  /\ lockIsOld \in BOOLEAN
  /\ load \in [Loaders -> {"idle", "check", "lock", "stale", "recheck",
                           "measure", "fetch", "append", "publish", "done",
                           "failed", "serve", "dead"}]
  /\ offset \in [Loaders -> Nat]
  /\ bundleBudget \in [BundleEvents -> Nat]

BundleInit(events) ==
  /\ bundle = <<>> /\ part = <<>>
  /\ lockFile = NoLoader /\ lockIsOld = FALSE
  /\ load = [l \in Loaders |-> "idle"]
  /\ offset = [l \in Loaders |-> 0]
  /\ bundleBudget = events

BundleSpend(kind) ==
  /\ bundleBudget[kind] > 0
  /\ bundleBudget' = [bundleBudget EXCEPT ![kind] = @ - 1]

LoadGoes(l, s) == load' = [load EXCEPT ![l] = s]

-----------------------------------------------------------------------------

\* start: any bundle in the directory is served as it is, another one is left to
\* prepare.
StartBrowser(l) ==
  /\ load[l] \in {"idle", "serve"} /\ BundleSpend("load")
  /\ LoadGoes(l, IF bundle = <<>> THEN "check" ELSE "serve")
  /\ UNCHANGED <<bundle, part, lockFile, lockIsOld, offset>>

\* The bundle is there, and as long as it should be.
Cached == Len(bundle) = Ranges

CheckCache(l) ==
  /\ load[l] = "check"
  /\ LoadGoes(l, IF Cached THEN "serve" ELSE "lock")
  /\ UNCHANGED <<bundle, part, lockFile, lockIsOld, offset, bundleBudget>>

\* _try_create_lock.  (Broken: without O_EXCL.)
CreatesAny == TRUE
Creates == lockFile = NoLoader

TryLock(l) ==
  /\ load[l] = "lock" /\ Creates
  /\ lockFile' = l /\ lockIsOld' = FALSE
  /\ LoadGoes(l, "recheck")
  /\ UNCHANGED <<bundle, part, offset, bundleBudget>>

\* The lock file was not created, and it is old.  (A young one is waited for.)
FindStale(l) ==
  /\ load[l] = "lock" /\ lockFile # NoLoader /\ lockIsOld
  /\ LoadGoes(l, "stale")
  /\ UNCHANGED <<bundle, part, lockFile, lockIsOld, offset, bundleBudget>>

\* The lock file is removed, whichever it is by now.
UnlinkStale(l) ==
  /\ load[l] = "stale"
  /\ lockFile' = NoLoader /\ lockIsOld' = FALSE
  /\ LoadGoes(l, "lock")
  /\ UNCHANGED <<bundle, part, offset, bundleBudget>>

Recheck(l) ==
  /\ load[l] = "recheck"
  /\ LoadGoes(l, IF Cached THEN "done" ELSE "measure")
  /\ UNCHANGED <<bundle, part, lockFile, lockIsOld, offset, bundleBudget>>

\* _download goes on where the part file ends.  (Broken: from the start.)
FromStart == 0
ResumeAt == IF Len(part) > Ranges THEN 0 ELSE Len(part)

Measure(l) ==
  /\ load[l] = "measure"
  /\ part' = IF Len(part) > Ranges THEN <<>> ELSE part
  /\ offset' = [offset EXCEPT ![l] = ResumeAt]
  /\ LoadGoes(l, IF ResumeAt < Ranges THEN "fetch" ELSE "publish")
  /\ UNCHANGED <<bundle, lockFile, lockIsOld, bundleBudget>>

\* _get_range, retries included: the range asked for, or an exception behind
\* which the lock is released and the part file stays.
FetchRange(l) ==
  /\ load[l] = "fetch"
  /\ \/ LoadGoes(l, "append") /\ UNCHANGED <<offset, bundleBudget>>
     \/ /\ BundleSpend("fail")
        /\ LoadGoes(l, "failed")
        /\ offset' = [offset EXCEPT ![l] = 0]
  /\ UNCHANGED <<bundle, part, lockFile, lockIsOld>>

AppendRange(l) ==
  /\ load[l] = "append"
  /\ part' = Append(part, offset[l] + 1)
  /\ offset' = [offset EXCEPT ![l] = @ + 1]
  /\ LoadGoes(l, IF offset[l] + 1 < Ranges THEN "fetch" ELSE "publish")
  /\ UNCHANGED <<bundle, lockFile, lockIsOld, bundleBudget>>

\* partial.replace(destination), which raises when the part file is gone.
Publish(l) ==
  /\ load[l] = "publish"
  /\ bundle' = IF part = <<>> THEN bundle ELSE part
  /\ part' = <<>>
  /\ offset' = [offset EXCEPT ![l] = 0]
  /\ LoadGoes(l, IF part = <<>> THEN "failed" ELSE "done")
  /\ UNCHANGED <<lockFile, lockIsOld, bundleBudget>>

\* The lock file is removed on every way out, whichever it is by now.  (Broken:
\* only when nothing failed.)
UnlockDone(l) ==
  /\ load[l] = "done" /\ lockFile' = NoLoader
  /\ LoadGoes(l, "serve")
Unlock(l) ==
  /\ load[l] \in {"done", "failed"} /\ lockFile' = NoLoader
  /\ LoadGoes(l, IF load[l] = "done" THEN "serve" ELSE "idle")

Leave(l) ==
  /\ Unlock(l)
  /\ lockIsOld' = FALSE
  /\ UNCHANGED <<bundle, part, offset, bundleBudget>>

-----------------------------------------------------------------------------

\* The process is killed, or comes back.
KillLoader(l) ==
  /\ load[l] \notin {"idle", "serve", "dead"} /\ BundleSpend("kill")
  /\ LoadGoes(l, "dead")
  /\ offset' = [offset EXCEPT ![l] = 0]
  /\ UNCHANGED <<bundle, part, lockFile, lockIsOld>>

Restart(l) ==
  /\ load[l] = "dead" /\ BundleSpend("restart")
  /\ LoadGoes(l, "idle")
  /\ UNCHANGED <<bundle, part, lockFile, lockIsOld, offset>>

\* Where a loader works behind the lock file it created.
Holding ==
  {"recheck", "measure", "fetch", "append", "publish", "done", "failed"}

\* stale_after has passed: since the owner of the lock died, or while it works.
LockAges ==
  /\ lockFile # NoLoader /\ ~lockIsOld
  /\ IF load[lockFile] \in Holding THEN BundleSpend("slow")
     ELSE UNCHANGED bundleBudget
  /\ lockIsOld' = TRUE
  /\ UNCHANGED <<bundle, part, lockFile, load, offset>>

-----------------------------------------------------------------------------

LoadStep(l) ==
  \/ CheckCache(l) \/ TryLock(l) \/ FindStale(l) \/ UnlinkStale(l)
  \/ Recheck(l) \/ Measure(l) \/ FetchRange(l) \/ AppendRange(l)
  \/ Publish(l) \/ Leave(l)

BundleNext ==
  \/ \E l \in Loaders :
       StartBrowser(l) \/ LoadStep(l) \/ KillLoader(l) \/ Restart(l)
  \/ LockAges

BundleSpec == BundleInit(BundleBudget) /\ [][BundleNext]_bundleVars

\* Every request ends, the waiting loaders look again, and time passes.
BundleFairness ==
  /\ \A l \in Loaders : WF_bundleVars(LoadStep(l))
  /\ WF_bundleVars(LockAges)

-----------------------------------------------------------------------------
\* Properties.

\* "An interrupted .part file is continued ...  Once complete, Playwright serves
\* that exact hashed bundle from disk": what a browser is given is the bundle,
\* each range once and in its place.
ServedBundleIsWhole == \A l \in Loaders : load[l] = "serve" => bundle = Whole

\* Every start gets its bundle, an error, or is killed: a lock file that was left
\* behind does not stop the others.
LoadsEnd ==
  \A l \in Loaders :
    load[l] \notin {"idle", "serve", "dead"}
      ~> load[l] \in {"idle", "serve", "dead"}

=============================================================================
