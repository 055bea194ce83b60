----------------------------- MODULE Scheduler -----------------------------
(***************************************************************************)
(* run_scheduler: processes of one source that coordinate their periodic   *)
(* jobs through table scheduler_job_state.  A job's row carries the time   *)
(* of its last start and a lease without an owner: claim_scheduler_job     *)
(* takes it, complete_scheduler_job clears it, whoever calls it.           *)
(*                                                                         *)
(* The clock is abstracted to what the SQL compares with now():            *)
(*   started: last_started_at is NULL ("never"), less than the interval    *)
(*            ago ("recent"), or longer ("due")                            *)
(*   lease  : leased_until is NULL ("none"), >= now ("live"), < now        *)
(*            ("expired")                                                  *)
(* What a job does to the queue is in Discovery and Workers; last_error    *)
(* and last_success_at, which nothing reads, are left out.                 *)
(***************************************************************************)
EXTENDS Integers

CONSTANTS
  Schedulers,  \* scheduler processes of the source
  Jobs,        \* the names of _jobs
  Immediate,   \* the jobs claimed with start_immediately
  Budget       \* bounds

\* What the environment does: a job outlives its lease, a call fails, a process
\* is asked to stop or killed.
Kinds == {"overrun", "fault", "stop", "kill"}

ASSUME SchedulerAssumption ==
  /\ Immediate \subseteq Jobs
  /\ Budget \in [Kinds -> Nat]

VARIABLES
  row,     \* scheduler_job_state
  state,   \* where each process is
  task,    \* the _execute_job task of each process and job
  lapsed,  \* the tasks whose own lease ran out (history variable)
  budget

vars == <<row, state, task, lapsed, budget>>

NoRow == [exists |-> FALSE, started |-> "never", lease |-> "none"]

Row == [exists: BOOLEAN, started: {"never", "recent", "due"},
        lease: {"none", "live", "expired"}]

\* A lease is only ever given with a start.
TypeOK ==
  /\ row \in [Jobs -> Row]
  /\ \A j \in Jobs : row[j].lease # "none" => row[j].started # "never"
  /\ state \in [Schedulers -> {"up", "stopping", "down"}]
  /\ task \in [Schedulers -> [Jobs -> {"none", "created", "working", "completing"}]]
  /\ lapsed \in [Schedulers -> SUBSET Jobs]
  /\ budget \in [Kinds -> Nat]

Init ==
  /\ row = [j \in Jobs |-> NoRow]
  /\ state = [s \in Schedulers |-> "up"]
  /\ task = [s \in Schedulers |-> [j \in Jobs |-> "none"]]
  /\ lapsed = [s \in Schedulers |-> {}]
  /\ budget = Budget

Spend(kind) ==
  /\ budget[kind] > 0
  /\ budget' = [budget EXCEPT ![kind] = @ - 1]

Runs(s, j) == task[s][j] # "none"

-----------------------------------------------------------------------------
\* claim_scheduler_job: INSERT ... ON CONFLICT DO NOTHING, then the UPDATE.

Inserted(j) ==
  IF row[j].exists THEN row[j]
  ELSE [NoRow EXCEPT !.exists = TRUE,
                     !.started = IF j \in Immediate THEN "never" ELSE "recent"]

\* (Broken: the lease is not looked at, or an expired one not accepted.)
DueOnly(r) == r.started # "recent"
DueUnleased(r) == r.lease = "none" /\ r.started # "recent"
Due(r) == r.lease # "live" /\ r.started # "recent"

\* (Broken: last_started_at is left as it is.)
StartedSilently(r) == [r EXCEPT !.lease = "live"]
Started(r) == [r EXCEPT !.lease = "live", !.started = "recent"]

\* A pass of the loop comes to a job none of whose tasks runs here.
ClaimJob(s, j) ==
  /\ state[s] = "up" /\ ~Runs(s, j)
  /\ IF Due(Inserted(j))
     THEN /\ row' = [row EXCEPT ![j] = Started(Inserted(j))]
          /\ task' = [task EXCEPT ![s][j] = "created"]
          /\ lapsed' = [lapsed EXCEPT ![s] = @ \ {j}]
     ELSE /\ row[j] # Inserted(j)
          /\ row' = [row EXCEPT ![j] = Inserted(j)]
          /\ UNCHANGED <<task, lapsed>>
  /\ UNCHANGED <<state, budget>>

-----------------------------------------------------------------------------
\* _execute_job

\* The task's first step: the settings and the context are built.
StartJob(s, j) ==
  /\ task[s][j] = "created"
  /\ task' = [task EXCEPT ![s][j] = "working"]
  /\ UNCHANGED <<row, state, lapsed, budget>>

\* The work is done, or failed: the finally clause.
FinishJob(s, j) ==
  /\ task[s][j] = "working"
  /\ task' = [task EXCEPT ![s][j] = "completing"]
  /\ UNCHANGED <<row, state, lapsed, budget>>

\* complete_scheduler_job, whoever holds the lease by now.
CompleteJob(s, j) ==
  /\ task[s][j] = "completing"
  /\ row' = [row EXCEPT ![j].lease = "none"]
  /\ task' = [task EXCEPT ![s][j] = "none"]
  /\ UNCHANGED <<state, lapsed, budget>>

\* The settings or the context cannot be built (before the try), or the
\* completing statement fails: nothing clears the lease.
AbortJob(s, j) ==
  /\ task[s][j] \in {"created", "completing"}
  /\ Spend("fault")
  /\ task' = [task EXCEPT ![s][j] = "none"]
  /\ UNCHANGED <<row, state, lapsed>>

\* The loop is left, by a signal or because a claim failed: the tasks are
\* cancelled.  One that was working completes its row with an error; one that
\* was completing it stops there, its statement committed or not; one that had
\* not taken its first step never takes it and leaves its lease behind.
Stop(s) ==
  /\ state[s] = "up"
  /\ Spend("stop")
  /\ state' = [state EXCEPT ![s] = "stopping"]
  /\ task' = [task EXCEPT ![s] =
                [j \in Jobs |-> IF @[j] = "working" THEN "completing" ELSE "none"]]
  /\ \E done \in SUBSET {j \in Jobs : task[s][j] = "completing"} :
       row' = [j \in Jobs |->
                 IF j \in done THEN [row[j] EXCEPT !.lease = "none"] ELSE row[j]]
  /\ UNCHANGED lapsed

\* gather has returned.
Exit(s) ==
  /\ state[s] = "stopping"
  /\ \A j \in Jobs : ~Runs(s, j)
  /\ state' = [state EXCEPT ![s] = "down"]
  /\ UNCHANGED <<row, task, lapsed, budget>>

Crash(s) ==
  /\ state[s] # "down"
  /\ Spend("kill")
  /\ state' = [state EXCEPT ![s] = "down"]
  /\ task' = [task EXCEPT ![s] = [j \in Jobs |-> "none"]]
  /\ UNCHANGED <<row, lapsed>>

\* compose.yaml, restart: unless-stopped.
Restart(s) ==
  /\ state[s] = "down"
  /\ state' = [state EXCEPT ![s] = "up"]
  /\ UNCHANGED <<row, task, lapsed, budget>>

-----------------------------------------------------------------------------
\* Time.

IntervalElapses(j) ==
  /\ row[j].started = "recent"
  /\ row' = [row EXCEPT ![j].started = "due"]
  /\ UNCHANGED <<state, task, lapsed, budget>>

\* The lease of a job that still runs is never extended.
LeaseExpires(j) ==
  LET runners == {s \in Schedulers : Runs(s, j) /\ j \notin lapsed[s]}
  IN  /\ row[j].lease = "live"
      /\ row' = [row EXCEPT ![j].lease = "expired"]
      /\ lapsed' = [s \in Schedulers |->
                      IF s \in runners THEN lapsed[s] \cup {j} ELSE lapsed[s]]
      /\ IF runners = {} THEN UNCHANGED budget ELSE Spend("overrun")
      /\ UNCHANGED <<state, task>>

JobStep(s, j) ==
  ClaimJob(s, j) \/ StartJob(s, j) \/ FinishJob(s, j) \/ CompleteJob(s, j)

Next ==
  \/ \E s \in Schedulers :
       \/ \E j \in Jobs : JobStep(s, j) \/ AbortJob(s, j)
       \/ Stop(s) \/ Exit(s) \/ Crash(s) \/ Restart(s)
  \/ \E j \in Jobs : IntervalElapses(j) \/ LeaseExpires(j)

Spec == Init /\ [][Next]_vars

\* Processes run and are restarted, every job ends, and time passes.
Fairness ==
  /\ \A s \in Schedulers : WF_vars(Exit(s)) /\ WF_vars(Restart(s))
  /\ \A s \in Schedulers, j \in Jobs : WF_vars(JobStep(s, j))
  /\ \A j \in Jobs :
       WF_vars(IntervalElapses(j)) /\ WF_vars(LeaseExpires(j) /\ UNCHANGED budget)

FairSpec == Spec /\ Fairness

-----------------------------------------------------------------------------
\* Properties.

\* Processes that race for a job, crash, stop and restart never run it twice at
\* a time as long as no run of a job outlives its lease.
JobRunsAlone ==
  budget["overrun"] = Budget["overrun"] =>
    \A j \in Jobs : \A s, v \in Schedulers :
      Runs(s, j) /\ Runs(v, j) => s = v

\* ARCHITECTURE.md, of the same: the PostgreSQL lease excludes that several
\* scheduler processes execute one job at once.  Stated here only of runs that
\* are within their own lease.
LeaseExcludes ==
  \A j \in Jobs : \A s, v \in Schedulers :
    /\ Runs(s, j) /\ j \notin lapsed[s]
    /\ Runs(v, j) /\ j \notin lapsed[v]
    => s = v

\* Every job is started again and again: a run that crashed, was aborted or
\* cancelled holds its job up no longer than its lease.
JobsRecur ==
  \A j \in Jobs : []<>(\E s \in Schedulers : task[s][j] = "working")

=============================================================================
