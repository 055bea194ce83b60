------------------------------- MODULE Workers -------------------------------
(***************************************************************************)
(* WorkerService: processes of asyncio worker loops that claim batches     *)
(* from the shared Frontier, extract each task from the source, persist    *)
(* it, enqueue what it discovered and complete the row, while leases run   *)
(* out, requests fail, loops are cancelled, processes are asked to stop or *)
(* crash, and discovery and the scheduler keep enqueuing.                  *)
(*                                                                         *)
(* A loop's position is pc[w].  A label is an await of the source or of    *)
(* the database; what a coroutine does between two awaits is one step.     *)
(***************************************************************************)
EXTENDS Frontier

CONSTANTS
  Procs,       \* worker processes, each with its own WorkerService
  ProcOf,      \* the process of each loop
  Backfill,    \* the loops with worker_index < backfill_workers
  Mode,        \* per process: run(), run(once=True) or run(drain=True)
  MaxAttempts, \* max_attempts
  Children,    \* the tasks that extracting a task discovers
  ZeroGrace,   \* idle_grace_seconds = 0
  Budget       \* how often each thing of Kinds may still happen (bounds)

\* What the environment does, each bounded by the budget of that name: a lease
\* runs out under a live process, a database call fails, the source blocks
\* (or throttles) a request, discovery or the scheduler enqueues, the source
\* publishes new content, an operator signals or kills a process.
Kinds == {"expire", "fault", "block", "enqueue", "change", "signal", "kill"}

ASSUME WorkersAssumption ==
  /\ ProcOf \in [Owners -> Procs]
  /\ Backfill \subseteq Owners
  /\ Mode \in [Procs -> {"daemon", "once", "drain"}]
  /\ MaxAttempts \in Nat \ {0}
  /\ Children \in [Tasks -> SUBSET Tasks]
  /\ ZeroGrace \in BOOLEAN
  /\ Budget \in [Kinds -> Nat]

VARIABLES
  pc,        \* where each loop is
  held,      \* tokens of the batch not started yet
  cur,       \* the token in hand: a set of at most one
  seen,      \* the content version this extraction read, 0 for none
  stop,      \* per process: shutdown_requested
  cancelled, \* per process: gather_fail_fast is cancelling the loops
  empty,     \* per process: _empty_since is None, set, or set long enough ago
  drained,   \* per process: a loop decided that the drain is complete
  source,    \* the content version the source publishes
  saved,     \* the content version persisted, 0 while last_success_at is NULL
  effects,   \* tokens whose extraction was persisted (history variable)
  budget     \* what is left of Budget

procVars == <<stop, cancelled, empty, drained>>
loopVars == <<pc, held, cur, seen>>
dataVars == <<source, saved, effects>>
vars == <<frontierVars, loopVars, procVars, dataVars, budget>>

\* Awaits inside the try of _process_task, during which the heartbeat runs.
Working == {"extract", "extend", "persist", "enqueue"}
\* Awaits of complete, retry and fail: the heartbeat has been stopped.
Settling == {"select", "delete", "blocked", "error", "missing", "faildelete"}
Processing == Working \cup Settling
\* Awaits of the loop outside _process_task.
Looping == {"claim", "wide", "claimed", "next", "activity", "busy", "idle"}
Leaving == {"release", "closing"}
Ended == {"stopped", "orphaned", "abandoned", "crashed"}

TypeOK ==
  /\ FrontierType
  /\ pc \in [Owners -> Processing \cup Looping \cup Leaving \cup Ended]
  /\ held \in [Owners -> SUBSET Token]
  /\ cur \in [Owners -> SUBSET Token]
  /\ seen \in [Owners -> Nat]
  /\ stop \in [Procs -> BOOLEAN]
  /\ cancelled \in [Procs -> BOOLEAN]
  /\ empty \in [Procs -> {"none", "since", "elapsed"}]
  /\ drained \in [Procs -> BOOLEAN]
  /\ source \in [Tasks -> Nat]
  /\ saved \in [Tasks -> Nat]
  /\ effects \subseteq Token
  /\ budget \in [Kinds -> Nat]

\* The processes start on whatever is queued.
Init ==
  /\ FrontierInit
  /\ pc = [w \in Owners |-> "claim"]
  /\ held = [w \in Owners |-> {}]
  /\ cur = [w \in Owners |-> {}]
  /\ seen = [w \in Owners |-> 0]
  /\ stop = [p \in Procs |-> FALSE]
  /\ cancelled = [p \in Procs |-> FALSE]
  /\ empty = [p \in Procs |-> "none"]
  /\ drained = [p \in Procs |-> FALSE]
  /\ source = [t \in Tasks |-> 1]
  /\ saved = [t \in Tasks |-> 0]
  /\ effects = {}
  /\ budget = Budget

At(w, labels) == pc[w] \in labels
Goto(w, label) == pc' = [pc EXCEPT ![w] = label]
Stopping(w) == stop[ProcOf[w]]
Spend(kind) ==
  /\ budget[kind] > 0
  /\ budget' = [budget EXCEPT ![kind] = @ - 1]

-----------------------------------------------------------------------------
\* _worker_loop

\* The first claim of a backfill loop is restricted; "wide" is its second one.
ClaimTasks(w) ==
  /\ \/ At(w, {"claim"}) /\ ~Stopping(w)
     \/ At(w, {"wide"})
  /\ \E S \in Picks(w \in Backfill /\ pc[w] = "claim") :
       /\ S # {}
       /\ Claim(w, S)
       /\ held' = [held EXCEPT ![w] = Claimed(S)]
  /\ Goto(w, "claimed")
  /\ UNCHANGED <<cur, seen, procVars, dataVars, budget>>

\* (Broken: run(drain=True) waits like a daemon.)
AfterEmptyClaimNoDrain(w) ==
  CASE pc[w] = "claim" /\ w \in Backfill -> "wide"
    [] Mode[ProcOf[w]] = "once"  -> "closing"
    [] OTHER                     -> "claim"
AfterEmptyClaim(w) ==
  CASE pc[w] = "claim" /\ w \in Backfill -> "wide"
    [] Mode[ProcOf[w]] = "once"  -> "closing"
    [] Mode[ProcOf[w]] = "drain" -> "activity"
    [] OTHER                     -> "claim"

ClaimNothing(w) ==
  /\ \/ At(w, {"claim"}) /\ ~Stopping(w)
     \/ At(w, {"wide"})
  /\ {} \in Picks(w \in Backfill /\ pc[w] = "claim")
  /\ AfterEmptyClaim(w) # pc[w]
  /\ Goto(w, AfterEmptyClaim(w))
  /\ UNCHANGED <<frontierVars, held, cur, seen, procVars, dataVars, budget>>

LeaveLoop(w) ==
  /\ At(w, {"claim"})
  /\ Stopping(w)
  /\ Goto(w, "closing")
  /\ UNCHANGED <<frontierVars, held, cur, seen, procVars, dataVars, budget>>

\* The non-empty claim has returned: _empty_since = None under _drain_lock.
StartBatch(w) ==
  /\ At(w, {"claimed"})
  /\ Goto(w, "next")
  /\ empty' = [empty EXCEPT ![ProcOf[w]] = "none"]
  /\ UNCHANGED <<frontierVars, held, cur, seen, stop, cancelled, drained,
                 dataVars, budget>>

\* The for loop over the batch.  RETURNING promises no order, so any token
\* may be the next one.
NextTask(w) ==
  /\ At(w, {"next"})
  /\ held[w] # {}
  /\ ~Stopping(w)
  /\ \E k \in held[w] :
       /\ cur' = [cur EXCEPT ![w] = {k}]
       /\ held' = [held EXCEPT ![w] = @ \ {k}]
  /\ Goto(w, "extract")
  /\ UNCHANGED <<frontierVars, seen, procVars, dataVars, budget>>

LeaveBatch(w) ==
  /\ At(w, {"next"})
  /\ held[w] # {}
  /\ Stopping(w)
  /\ Goto(w, "release")
  /\ UNCHANGED <<frontierVars, held, cur, seen, procVars, dataVars, budget>>

EndBatch(w) ==
  /\ At(w, {"next"})
  /\ held[w] = {}
  /\ Goto(w, IF Mode[ProcOf[w]] = "once" THEN "closing" ELSE "claim")
  /\ UNCHANGED <<frontierVars, held, cur, seen, procVars, dataVars, budget>>

\* release(tasks[index:]), then the finally clause: release_by_owner.
ReleaseRest(w) ==
  /\ At(w, {"release"})
  /\ Release(w, held[w])
  /\ held' = [held EXCEPT ![w] = {}]
  /\ Goto(w, "closing")
  /\ UNCHANGED <<cur, seen, procVars, dataVars, budget>>

\* (Broken: without the release.)
CloseLoopKeeping(w) ==
  /\ At(w, {"closing"})
  /\ Goto(w, "stopped")
  /\ held' = [held EXCEPT ![w] = {}]
  /\ UNCHANGED <<frontierVars, cur, seen, procVars, dataVars, budget>>
CloseLoop(w) ==
  /\ At(w, {"closing"})
  /\ ReleaseByOwner(w)
  /\ held' = [held EXCEPT ![w] = {}]
  /\ Goto(w, "stopped")
  /\ UNCHANGED <<cur, seen, procVars, dataVars, budget>>

\* run(), finally: a loop whose own release_by_owner failed is still in
\* worker_ids; it is released once more, an error being ignored.
ReapOwner(w) ==
  /\ At(w, {"orphaned"})
  /\ \A v \in Owners : ProcOf[v] = ProcOf[w] => At(v, Ended)
  /\ \/ ReleaseByOwner(w) /\ Goto(w, "stopped") /\ UNCHANGED budget
     \/ Spend("fault") /\ Goto(w, "abandoned") /\ UNCHANGED frontierVars
  /\ UNCHANGED <<held, cur, seen, procVars, dataVars>>

-----------------------------------------------------------------------------
\* _drain_complete

\* activity().depth: every row, delayed and leased ones included.  (Broken:
\* the ready rows only.)
ReadyOnly == \E t \in Tasks : Claimable(t, FALSE)
Depth == \E t \in Tasks : Queued(t)

ReadActivity(w) ==
  /\ At(w, {"activity"})
  /\ Goto(w, IF Depth THEN "busy" ELSE "idle")
  /\ UNCHANGED <<frontierVars, held, cur, seen, procVars, dataVars, budget>>

DrainBusy(w) ==
  /\ At(w, {"busy"})
  /\ empty' = [empty EXCEPT ![ProcOf[w]] = "none"]
  /\ Goto(w, "claim")
  /\ UNCHANGED <<frontierVars, held, cur, seen, stop, cancelled, drained,
                 dataVars, budget>>

DrainIdle(w) ==
  LET p == ProcOf[w]
      complete == IF empty[p] = "none" THEN ZeroGrace
                                       ELSE empty[p] = "elapsed"
  IN  /\ At(w, {"idle"})
      /\ empty' = [empty EXCEPT ![p] = IF @ = "none" THEN "since" ELSE @]
      /\ stop' = [stop EXCEPT ![p] = @ \/ complete]
      /\ drained' = [drained EXCEPT ![p] = @ \/ complete]
      /\ Goto(w, IF complete THEN "closing" ELSE "claim")
      /\ UNCHANGED <<frontierVars, held, cur, seen, cancelled, dataVars,
                     budget>>

GraceElapses(p) ==
  /\ empty[p] = "since"
  /\ empty' = [empty EXCEPT ![p] = "elapsed"]
  /\ UNCHANGED <<frontierVars, loopVars, stop, cancelled, drained, dataVars,
                 budget>>

-----------------------------------------------------------------------------
\* _process_task

\* adapter.extract and _validate_extracted_batch: content, a block or throttle
\* (RetriableSourceError), HTTP 404 or 410, or any other exception, a contract
\* violation of the batch included.
Extract(w) ==
  /\ At(w, {"extract"})
  /\ \/ /\ \E k \in cur[w] : seen' = [seen EXCEPT ![w] = source[k.task]]
        /\ Goto(w, "extend")
        /\ UNCHANGED budget
     \/ Goto(w, "blocked") /\ Spend("block") /\ UNCHANGED seen
     \/ Goto(w, "missing") /\ UNCHANGED <<seen, budget>>
     \/ Goto(w, "error") /\ UNCHANGED <<seen, budget>>
  /\ UNCHANGED <<frontierVars, held, cur, procVars, dataVars>>

\* The task is over for this loop: the next one of the batch.
FinishTask(w) ==
  /\ Goto(w, "next")
  /\ cur' = [cur EXCEPT ![w] = {}]
  /\ seen' = [seen EXCEPT ![w] = 0]

\* The fence before persistence.  LeaseLostError leaves the row alone.
ExtendLease(w) ==
  /\ At(w, {"extend"})
  /\ \E k \in cur[w] :
       \/ /\ Holds(w, k)
          /\ Extend(k)
          /\ Goto(w, "persist")
          /\ UNCHANGED <<cur, seen>>
       \/ /\ ~Holds(w, k)
          /\ FinishTask(w)
          /\ UNCHANGED frontierVars
  /\ UNCHANGED <<held, procVars, dataVars, budget>>

\* entities.persist, one transaction; nothing in it looks at the lease.
Persist(w) ==
  /\ At(w, {"persist"})
  /\ \E k \in cur[w] :
       /\ saved' = [saved EXCEPT ![k.task] = seen[w]]
       /\ effects' = effects \cup {k}
  /\ Goto(w, "enqueue")
  /\ UNCHANGED <<frontierVars, held, cur, seen, procVars, source, budget>>

\* enqueue without refresh_existing skips what was persisted before.  (Broken:
\* the test turned round.)
SavedOnly(S) == {t \in S : saved[t] # 0}
Unsaved(S) == {t \in S : saved[t] = 0}

EnqueueFound(w) ==
  /\ At(w, {"enqueue"})
  /\ \E k \in cur[w] : EnqueueAll(Unsaved(Children[k.task]), TRUE)
  /\ Goto(w, "select")
  /\ UNCHANGED <<held, cur, seen, procVars, dataVars, budget>>

CompleteRead(w) ==
  /\ At(w, {"select"})
  /\ \E k \in cur[w] :
       \/ Current(k) /\ Goto(w, "delete") /\ UNCHANGED <<cur, seen>>
       \/ ~Current(k) /\ FinishTask(w)
  /\ UNCHANGED <<frontierVars, held, procVars, dataVars, budget>>

CompleteWrite(w) ==
  /\ At(w, {"delete"})
  /\ \E k \in cur[w] : Remove(k, "success")
  /\ FinishTask(w)
  /\ UNCHANGED <<held, procVars, dataVars, budget>>

\* A 404, a 410 or the last attempt is final; a block never is.
Exhausted(w) ==
  \/ pc[w] = "missing"
  \/ pc[w] = "error" /\ \E k \in cur[w] : k.attempt >= MaxAttempts

ScheduleRetry(w) ==
  /\ At(w, {"blocked", "error"})
  /\ ~Exhausted(w)
  /\ \E k \in cur[w] : Retry(k)
  /\ FinishTask(w)
  /\ UNCHANGED <<held, procVars, dataVars, budget>>

FailRead(w) ==
  /\ Exhausted(w)
  /\ \E k \in cur[w] :
       \/ Current(k) /\ Goto(w, "faildelete") /\ UNCHANGED <<cur, seen>>
       \/ ~Current(k) /\ FinishTask(w)
  /\ UNCHANGED <<frontierVars, held, procVars, dataVars, budget>>

FailWrite(w) ==
  /\ At(w, {"faildelete"})
  /\ \E k \in cur[w] : Remove(k, "failed")
  /\ FinishTask(w)
  /\ UNCHANGED <<held, procVars, dataVars, budget>>

\* _lease_heartbeat renews a lease that ran out as long as nobody took it.  A
\* heartbeat that has died is one that takes no further step.
Heartbeat(w) ==
  /\ At(w, Working)
  /\ \E k \in cur[w] :
       Holds(w, k) /\ frontier[k.task].lease = "expired" /\ Extend(k)
  /\ UNCHANGED <<loopVars, procVars, dataVars, budget>>

-----------------------------------------------------------------------------
\* Failures, cancellation, shutdown, crash.

\* A database call raises.  Inside the try of _process_task that is one more
\* error of the task; anywhere else it escapes the loop, whose finally clause
\* runs while gather_fail_fast cancels the other loops of the process.  (run()
\* requests the shutdown only when they all have ended.)
InTry == {"extend", "persist", "enqueue", "select", "delete"}
Fault(w) ==
  /\ Spend("fault")
  /\ \/ /\ At(w, InTry)
        /\ Goto(w, "error")
        /\ UNCHANGED <<cancelled, held, cur, seen>>
     \/ /\ At(w, {"claim", "wide", "activity", "release", "closing",
                  "blocked", "error", "missing", "faildelete"})
        /\ Goto(w, IF pc[w] = "closing" THEN "orphaned" ELSE "closing")
        /\ cur' = [cur EXCEPT ![w] = {}]
        /\ held' = [held EXCEPT ![w] = {}]
        /\ seen' = [seen EXCEPT ![w] = 0]
        /\ cancelled' = [cancelled EXCEPT ![ProcOf[w]] = TRUE]
  /\ UNCHANGED <<frontierVars, stop, empty, drained, dataVars>>

\* CancelledError: inside _process_task the unfinished rest of the batch, the
\* task in hand included, is released before the finally clause runs.
Cancel(w) ==
  /\ cancelled[ProcOf[w]]
  /\ At(w, Processing \cup Looping)
  /\ Goto(w, IF At(w, Processing) THEN "release" ELSE "closing")
  /\ held' = [held EXCEPT ![w] = @ \cup cur[w]]
  /\ cur' = [cur EXCEPT ![w] = {}]
  /\ seen' = [seen EXCEPT ![w] = 0]
  /\ UNCHANGED <<frontierVars, procVars, dataVars, budget>>

\* SIGINT or SIGTERM.
RequestShutdown(p) ==
  /\ Spend("signal")
  /\ ~stop[p]
  /\ stop' = [stop EXCEPT ![p] = TRUE]
  /\ UNCHANGED <<frontierVars, loopVars, cancelled, empty, drained, dataVars>>

\* SIGKILL: every loop of the process is gone, its rows stay leased.
Crash(p) ==
  /\ Spend("kill")
  /\ LET alive == {w \in Owners : ProcOf[w] = p /\ ~At(w, Ended)}
     IN  /\ alive # {}
         /\ pc' = [w \in Owners |-> IF w \in alive THEN "crashed" ELSE pc[w]]
         /\ held' = [w \in Owners |-> IF w \in alive THEN {} ELSE held[w]]
         /\ cur' = [w \in Owners |-> IF w \in alive THEN {} ELSE cur[w]]
         /\ seen' = [w \in Owners |-> IF w \in alive THEN 0 ELSE seen[w]]
  /\ UNCHANGED <<frontierVars, procVars, dataVars>>

-----------------------------------------------------------------------------
\* The rest of the system, as the queue sees it.

\* DiscoveryService: listing pages are enqueued with refresh_existing=True.
Discover(t, urgent) ==
  /\ Spend("enqueue")
  /\ EnqueueAll({t}, urgent)
  /\ UNCHANGED <<loopVars, procVars, dataVars>>

\* enqueue_refresh selects what was persisted before.
EnqueueRefresh(S, urgent) ==
  /\ Spend("enqueue")
  /\ S # {}
  /\ \A t \in S : saved[t] > 0
  /\ EnqueueAll(S, urgent)
  /\ UNCHANGED <<loopVars, procVars, dataVars>>

SourceChanges(t) ==
  /\ Spend("change")
  /\ source' = [source EXCEPT ![t] = @ + 1]
  /\ UNCHANGED <<frontierVars, loopVars, procVars, saved, effects>>

\* A lease of a live loop runs out when the loop or its heartbeat is late; one
\* of a killed process always does.
LeaseExpires(t) ==
  /\ LeaseRunsOut(t)
  /\ IF \E w \in Owners : frontier[t].owner = w /\ At(w, Ended)
     THEN UNCHANGED budget
     ELSE Spend("expire")
  /\ UNCHANGED <<loopVars, procVars, dataVars>>

DelayElapses(t) ==
  /\ BecomeDue(t)
  /\ UNCHANGED <<loopVars, procVars, dataVars, budget>>

ReleaseStaleLeases ==
  /\ ReleaseStale
  /\ UNCHANGED <<loopVars, procVars, dataVars, budget>>

-----------------------------------------------------------------------------
LoopStep(w) ==
  \/ ClaimTasks(w) \/ ClaimNothing(w) \/ LeaveLoop(w) \/ StartBatch(w)
  \/ NextTask(w) \/ LeaveBatch(w) \/ EndBatch(w)
  \/ ReadActivity(w) \/ DrainBusy(w) \/ DrainIdle(w)
  \/ ReleaseRest(w) \/ CloseLoop(w) \/ ReapOwner(w) \/ Cancel(w)

TaskStep(w) ==
  \/ Extract(w) \/ ExtendLease(w) \/ Persist(w) \/ EnqueueFound(w)
  \/ CompleteRead(w) \/ CompleteWrite(w)
  \/ ScheduleRetry(w) \/ FailRead(w) \/ FailWrite(w)

Environment ==
  \/ \E p \in Procs : RequestShutdown(p) \/ Crash(p) \/ GraceElapses(p)
  \/ \E t \in Tasks :
       \/ \E urgent \in BOOLEAN : Discover(t, urgent)
       \/ SourceChanges(t) \/ LeaseExpires(t) \/ DelayElapses(t)
  \/ \E S \in SUBSET Tasks, urgent \in BOOLEAN : EnqueueRefresh(S, urgent)
  \/ ReleaseStaleLeases

Next ==
  \/ \E w \in Owners : LoopStep(w) \/ TaskStep(w) \/ Heartbeat(w) \/ Fault(w)
  \/ Environment

Spec == Init /\ [][Next]_vars

\* The event loop runs every coroutine whose await has been answered, every
\* answer comes (requests and statements have timeouts), and time passes.
Fairness ==
  /\ \A w \in Owners :
       WF_vars(LoopStep(w)) /\ WF_vars(TaskStep(w)) /\ WF_vars(Cancel(w))
  /\ \A t \in Tasks : WF_vars(DelayElapses(t))
  /\ \A t \in Tasks :
       WF_vars(LeaseExpires(t) /\ UNCHANGED budget)
  /\ \A p \in Procs : WF_vars(GraceElapses(p))

FairSpec == Spec /\ Fairness

-----------------------------------------------------------------------------
\* Safety

Tokens(w) == held[w] \cup cur[w]

\* Two loops never hold the same attempt of the same row: what fences a slow
\* loop from the one that has claimed its row since.  (claim increments attempt
\* and complete, fail, retry and extend_lease match on it.)
SingleHolder ==
  \A v, w \in Owners : v # w => Tokens(v) \cap Tokens(w) = {}

\* A success in the history is of an attempt whose content was committed
\* before, and what it discovered has been queued or persisted: a crash between
\* persist, enqueue and complete only makes the task run again.
SuccessIsDurable ==
  \A h \in history : h.outcome = "success" =>
    /\ [task |-> h.task, id |-> h.id, attempt |-> h.attempt] \in effects
    /\ \A c \in Children[h.task] : births[c] > 0 \/ saved[c] > 0

\* A loop that has ended other than by a kill holds no lease: graceful shutdown,
\* cancellation and a failed loop all give their rows back.
StoppedHoldsNoLease ==
  \A w \in Owners : pc[w] = "stopped" => OwnedBy(w) = {}

\* A drain that decided it was complete leaves an empty queue, provided nobody
\* else was enqueuing and no lease ran out under a loop that was still working.
DrainExitsEmpty ==
  \A p \in Procs :
    /\ drained[p]
    /\ budget["expire"] = Budget["expire"]
    /\ budget["enqueue"] = Budget["enqueue"]
    => \A t \in Tasks : ~Queued(t)

\* Nobody but its owner gives back, extends or re-leases a row under a live
\* lease: a loop working from an older claim cannot disturb a newer one.  (The
\* delete of complete and fail is the exception, see StaleDeleteSparesNewClaim.)
LiveLeaseIsExclusive ==
  [][\A t \in Tasks : \A w \in Owners :
       /\ frontier[t].owner = w
       /\ frontier[t].lease = "live"
       /\ frontier'[t].id = frontier[t].id
       /\ frontier'[t].owner # w
       => pc'[w] # pc[w]]_vars

\* A loop that still holds the current attempt of its row never overwrites
\* newer content with older content.
CurrentHolderNeverRegresses ==
  [][\A w \in Owners : \A k \in cur[w] :
       /\ pc[w] = "persist" /\ pc'[w] = "enqueue"
       /\ Current(k)
       => saved'[k.task] >= saved[k.task]]_vars

\* What tests/test_postgres_integration.py expects of a stale task: complete
\* and fail with an older attempt leave a newer claim of the row alone.
StaleDeleteSparesNewClaim ==
  [][\A w \in Owners : \A k \in cur[w] :
       /\ pc[w] \in {"delete", "faildelete"} /\ pc'[w] = "next"
       /\ frontier[k.task].id = k.id
       /\ ~Current(k)
       => frontier'[k.task] = frontier[k.task]]_vars

-----------------------------------------------------------------------------
\* Liveness

\* Every queued task is eventually completed or failed while one loop keeps
\* running: a killed process delays its rows only until their leases run out.
EveryTaskSettles == \A t \in Tasks : Queued(t) ~> ~Queued(t)

\* A drain ends.
DrainEnds == \A w \in Owners : <>(pc[w] \in Ended)

=============================================================================
