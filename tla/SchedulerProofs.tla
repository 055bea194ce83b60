-------------------------- MODULE SchedulerProofs --------------------------
(***************************************************************************)
(* Theorems about Scheduler for any processes, jobs and budget.            *)
(***************************************************************************)
EXTENDS Scheduler, FiniteSetTheorems, TLAPS

Tasks == {"none", "created", "working", "completing"}

\* One task of one process changes.
LEMMA OneTask ==
  ASSUME NEW f \in [Schedulers -> [Jobs -> Tasks]], NEW x \in Tasks,
         NEW s \in Schedulers, NEW j \in Jobs
  PROVE  /\ [f EXCEPT ![s][j] = x] \in [Schedulers -> [Jobs -> Tasks]]
         /\ \A v \in Schedulers, k \in Jobs :
              [f EXCEPT ![s][j] = x][v][k] =
                IF v = s /\ k = j THEN x ELSE f[v][k]
<1> DEFINE h == [f[s] EXCEPT ![j] = x]
<1>1. h \in [Jobs -> Tasks] /\ \A k \in Jobs : h[k] = IF k = j THEN x ELSE f[s][k]
  OBVIOUS
<1>2. [f EXCEPT ![s][j] = x] = [f EXCEPT ![s] = h]
  OBVIOUS
<1> HIDE DEF h
<1> QED BY <1>1, <1>2

\* What a budget may pay for keeps it well-typed and never lets it grow.
LEMMA SpendType ==
  ASSUME budget \in [Kinds -> Nat], NEW kind \in Kinds, Spend(kind)
  PROVE  /\ budget' \in [Kinds -> Nat]
         /\ budget' = [budget EXCEPT ![kind] = @ - 1]
BY DEF Spend

\* The row a claim sees is well-typed.
LEMMA InsertedType ==
  ASSUME TypeOK, NEW j \in Jobs
  PROVE  /\ Inserted(j) \in Row
         /\ Inserted(j).lease # "none" => Inserted(j).started # "never"
         /\ Inserted(j).exists
         /\ row[j].exists => Inserted(j) = row[j]
<1>1. CASE row[j].exists
  BY <1>1 DEF TypeOK, Inserted
<1>2. CASE ~row[j].exists
  BY <1>2 DEF Inserted, Row, NoRow
<1> QED BY <1>1, <1>2

LEMMA InitType == Init => TypeOK
BY SchedulerAssumption DEF Init, TypeOK, Row, NoRow

LEMMA NextType == TypeOK /\ [Next]_vars => TypeOK'
<1> SUFFICES ASSUME TypeOK, [Next]_vars PROVE TypeOK'
  OBVIOUS
<1> USE DEF TypeOK
<1>1. ASSUME NEW s \in Schedulers, NEW j \in Jobs, ClaimJob(s, j) PROVE TypeOK'
  <2>1. CASE Due(Inserted(j))
    <3>1. Started(Inserted(j)) \in Row /\ Started(Inserted(j)).started # "never"
      <4>1. Inserted(j) \in Row
        BY InsertedType
      <4> QED BY <4>1 DEF Started, Row
    <3>2. /\ row' = [row EXCEPT ![j] = Started(Inserted(j))]
          /\ task' = [task EXCEPT ![s][j] = "created"]
          /\ lapsed' = [lapsed EXCEPT ![s] = @ \ {j}]
          /\ UNCHANGED <<state, budget>>
      BY <1>1, <2>1 DEF ClaimJob
    <3>3. task' \in [Schedulers -> [Jobs -> Tasks]]
      BY <3>2, OneTask DEF Tasks
    <3>4. /\ row' \in [Jobs -> Row]
          /\ \A k \in Jobs : row'[k].lease # "none" => row'[k].started # "never"
      BY <3>1, <3>2
    <3>5. lapsed' \in [Schedulers -> SUBSET Jobs]
      BY <3>2
    <3> QED BY <3>2, <3>3, <3>4, <3>5 DEF Tasks
  <2>2. CASE ~Due(Inserted(j))
    BY <1>1, <2>2, InsertedType DEF ClaimJob
  <2> QED BY <2>1, <2>2
<1>2. ASSUME NEW s \in Schedulers, NEW j \in Jobs,
             StartJob(s, j) \/ FinishJob(s, j)
      PROVE  TypeOK'
  <2>0. PICK x \in Tasks : task' = [task EXCEPT ![s][j] = x]
    BY <1>2 DEF StartJob, FinishJob, Tasks
  <2>1. task' \in [Schedulers -> [Jobs -> Tasks]]
    BY <2>0, OneTask DEF Tasks
  <2> QED BY <1>2, <2>1 DEF StartJob, FinishJob, Tasks
<1>3. ASSUME NEW s \in Schedulers, NEW j \in Jobs, CompleteJob(s, j)
      PROVE  TypeOK'
  BY <1>3 DEF CompleteJob, Row
<1>4. ASSUME NEW s \in Schedulers, NEW j \in Jobs, AbortJob(s, j) PROVE TypeOK'
  BY <1>4, SpendType DEF AbortJob, Kinds
<1>5. ASSUME NEW s \in Schedulers, Stop(s) PROVE TypeOK'
  <2>1. /\ state' \in [Schedulers -> {"up", "stopping", "down"}]
        /\ task' \in [Schedulers -> [Jobs -> Tasks]]
        /\ lapsed' = lapsed
    BY <1>5 DEF Stop, Tasks
  <2>2. /\ row' \in [Jobs -> Row]
        /\ \A j \in Jobs : row'[j].lease # "none" => row'[j].started # "never"
    <3>1. PICK done \in SUBSET Jobs :
            row' = [j \in Jobs |->
                      IF j \in done THEN [row[j] EXCEPT !.lease = "none"] ELSE row[j]]
      BY <1>5 DEF Stop
    <3>2. \A j \in Jobs : /\ row'[j] \in Row
                          /\ row'[j].lease # "none" => row'[j].started # "never"
      BY <3>1 DEF Row
    <3> QED BY <3>1, <3>2
  <2>3. budget' \in [Kinds -> Nat]
    BY <1>5, SpendType DEF Stop, Kinds
  <2> QED BY <2>1, <2>2, <2>3 DEF Tasks
<1>6. ASSUME NEW s \in Schedulers, Exit(s) \/ Restart(s) PROVE TypeOK'
  BY <1>6 DEF Exit, Restart
<1>7. ASSUME NEW s \in Schedulers, Crash(s) PROVE TypeOK'
  BY <1>7, SpendType DEF Crash, Kinds
<1>8. ASSUME NEW j \in Jobs, IntervalElapses(j) PROVE TypeOK'
  BY <1>8 DEF IntervalElapses, Row
<1>9. ASSUME NEW j \in Jobs, LeaseExpires(j) PROVE TypeOK'
  <2>1. /\ row' \in [Jobs -> Row]
        /\ \A k \in Jobs : row'[k].lease # "none" => row'[k].started # "never"
    BY <1>9 DEF LeaseExpires, Row
  <2>2. lapsed' \in [Schedulers -> SUBSET Jobs]
    BY <1>9 DEF LeaseExpires
  <2>3. budget' \in [Kinds -> Nat]
    BY <1>9, SpendType DEF LeaseExpires, Kinds
  <2> QED BY <1>9, <2>1, <2>2, <2>3 DEF LeaseExpires
<1>10. CASE UNCHANGED vars
  BY <1>10 DEF vars
<1> QED
  BY <1>1, <1>2, <1>3, <1>4, <1>5, <1>6, <1>7, <1>8, <1>9, <1>10
     DEF Next, JobStep

\* Every reachable state is well-typed; in particular no job's row has a lease
\* without a start.
THEOREM TypeCorrect == Spec => []TypeOK
BY InitType, NextType, PTL DEF Spec

-----------------------------------------------------------------------------
\* A job runs alone.

OnTime == budget["overrun"] = Budget["overrun"]

\* As long as no run has outlived its lease, a run's lease is in the row, which
\* is what keeps the others out.
RunsUnderLease ==
  \A s \in Schedulers, j \in Jobs :
    Runs(s, j) => /\ row[j].exists /\ row[j].lease = "live"
                  /\ j \notin lapsed[s]

Alone ==
  \A j \in Jobs : \A s, v \in Schedulers : Runs(s, j) /\ Runs(v, j) => s = v

AloneInv ==
  /\ budget["overrun"] <= Budget["overrun"]
  /\ OnTime => RunsUnderLease /\ Alone

LEMMA InitAlone == Init => AloneInv
BY SchedulerAssumption DEF Init, AloneInv, OnTime, RunsUnderLease, Alone, Runs, Kinds

\* No step pays back what was spent.
LEMMA BudgetShrinks ==
  ASSUME TypeOK, [Next]_vars, budget["overrun"] <= Budget["overrun"]
  PROVE  /\ budget'["overrun"] <= Budget["overrun"]
         /\ OnTime' => OnTime /\ budget'["overrun"] = budget["overrun"]
<1>1. CASE UNCHANGED budget
  BY <1>1 DEF OnTime
<1>2. ASSUME NEW kind \in Kinds, Spend(kind)
      PROVE  /\ budget'["overrun"] <= Budget["overrun"]
             /\ OnTime' => OnTime /\ budget'["overrun"] = budget["overrun"]
  BY <1>2, SchedulerAssumption DEF Spend, OnTime, TypeOK, Kinds
<1>3. UNCHANGED budget \/ \E kind \in Kinds : Spend(kind)
  BY DEF Next, JobStep, vars, ClaimJob, StartJob, FinishJob, CompleteJob, AbortJob,
         Stop, Exit, Crash, Restart, IntervalElapses, LeaseExpires, Kinds
<1> QED BY <1>1, <1>2, <1>3

LEMMA NextAlone == TypeOK /\ AloneInv /\ [Next]_vars => AloneInv'
<1> SUFFICES ASSUME TypeOK, AloneInv, [Next]_vars, OnTime'
             PROVE  RunsUnderLease' /\ Alone'
  BY BudgetShrinks DEF AloneInv
<1>0. OnTime /\ budget'["overrun"] = budget["overrun"] /\ RunsUnderLease /\ Alone
  BY BudgetShrinks DEF AloneInv
<1> USE DEF RunsUnderLease, Alone, Runs
<1>1. ASSUME NEW s \in Schedulers, NEW j \in Jobs, ClaimJob(s, j)
      PROVE  RunsUnderLease' /\ Alone'
  <2>1. CASE Due(Inserted(j))
    <3>1. \A v \in Schedulers : task[v][j] = "none"
      BY <1>0, <2>1, InsertedType DEF Due
    <3>2. /\ row' = [row EXCEPT ![j] = Started(Inserted(j))]
          /\ task' = [task EXCEPT ![s][j] = "created"]
          /\ lapsed' = [lapsed EXCEPT ![s] = @ \ {j}]
      BY <1>1, <2>1 DEF ClaimJob
    <3>3. Started(Inserted(j)).exists /\ Started(Inserted(j)).lease = "live"
      <4>1. Inserted(j) \in Row /\ Inserted(j).exists
        BY InsertedType
      <4> QED BY <4>1 DEF Started, Row
    <3>4. \A v \in Schedulers, k \in Jobs :
            task'[v][k] = IF v = s /\ k = j THEN "created" ELSE task[v][k]
      BY <3>2, OneTask DEF TypeOK, Tasks
    <3>5. \A v \in Schedulers : lapsed'[v] = IF v = s THEN lapsed[v] \ {j} ELSE lapsed[v]
      BY <3>2 DEF TypeOK
    <3>6. \A k \in Jobs : row'[k] = IF k = j THEN Started(Inserted(j)) ELSE row[k]
      BY <3>2 DEF TypeOK
    <3>7. RunsUnderLease'
      <4> SUFFICES ASSUME NEW v \in Schedulers, NEW k \in Jobs, task'[v][k] # "none"
                   PROVE  /\ row'[k].exists /\ row'[k].lease = "live"
                          /\ k \notin lapsed'[v]
        OBVIOUS
      <4>1. CASE k = j
        BY <3>1, <3>3, <3>4, <3>5, <3>6, <4>1
      <4>2. CASE k # j
        <5>1. task[v][k] # "none" /\ row'[k] = row[k]
          BY <3>4, <3>6, <4>2
        <5>2. row[k].exists /\ row[k].lease = "live" /\ k \notin lapsed[v]
          BY <1>0, <5>1
        <5> QED BY <3>5, <5>1, <5>2
      <4> QED BY <4>1, <4>2
    <3>8. Alone'
      BY <1>0, <3>1, <3>4
    <3> QED BY <3>7, <3>8
  <2>2. CASE ~Due(Inserted(j))
    <3>1. ~row[j].exists
      BY <1>1, <2>2 DEF ClaimJob, Inserted
    <3>2. /\ row' = [row EXCEPT ![j] = Inserted(j)]
          /\ UNCHANGED <<task, lapsed>>
      BY <1>1, <2>2 DEF ClaimJob
    <3>3. \A k \in Jobs : k # j => row'[k] = row[k]
      BY <3>2 DEF TypeOK
    <3> QED BY <1>0, <3>1, <3>2, <3>3
  <2> QED BY <2>1, <2>2
<1>2. ASSUME NEW s \in Schedulers, NEW j \in Jobs,
             StartJob(s, j) \/ FinishJob(s, j) \/ AbortJob(s, j)
      PROVE  RunsUnderLease' /\ Alone'
  <2>0. PICK x \in Tasks : task' = [task EXCEPT ![s][j] = x]
    BY <1>2 DEF StartJob, FinishJob, AbortJob, Tasks
  <2>3. task[s][j] # "none"
    BY <1>2 DEF StartJob, FinishJob, AbortJob
  <2>1. \A v \in Schedulers, k \in Jobs : task'[v][k] # "none" => task[v][k] # "none"
    BY <2>0, <2>3, OneTask DEF TypeOK, Tasks
  <2>2. row' = row /\ lapsed' = lapsed
    BY <1>2 DEF StartJob, FinishJob, AbortJob
  <2> QED BY <1>0, <2>1, <2>2
<1>3. ASSUME NEW s \in Schedulers, NEW j \in Jobs, CompleteJob(s, j)
      PROVE  RunsUnderLease' /\ Alone'
  <2>1. \A v \in Schedulers, k \in Jobs :
          task'[v][k] = IF v = s /\ k = j THEN "none" ELSE task[v][k]
    BY <1>3, OneTask DEF CompleteJob, TypeOK, Tasks
  <2>2. (\A k \in Jobs : k # j => row'[k] = row[k]) /\ lapsed' = lapsed
    BY <1>3 DEF CompleteJob, TypeOK
  <2>3. \A v \in Schedulers : task[v][j] # "none" => v = s
    BY <1>0, <1>3 DEF CompleteJob
  <2> QED BY <1>0, <2>1, <2>2, <2>3
<1>4. ASSUME NEW s \in Schedulers, Stop(s) PROVE RunsUnderLease' /\ Alone'
  <2>1. /\ task' \in [Schedulers -> [Jobs -> Tasks]]
        /\ \A v \in Schedulers, j \in Jobs :
             task'[v][j] # "none" => /\ task[v][j] # "none"
                                     /\ v = s => task[v][j] = "working"
    BY <1>4 DEF Stop, TypeOK, Tasks
  <2>2. \A j \in Jobs : row'[j] = row[j] \/ task[s][j] = "completing"
    BY <1>4 DEF Stop, TypeOK
  <2>3. lapsed' = lapsed
    BY <1>4 DEF Stop
  <2> QED BY <1>0, <2>1, <2>2, <2>3
<1>5. ASSUME NEW s \in Schedulers, Exit(s) \/ Restart(s) \/ Crash(s)
      PROVE  RunsUnderLease' /\ Alone'
  <2>1. /\ \A v \in Schedulers, j \in Jobs : task'[v][j] # "none" => task[v][j] # "none"
        /\ row' = row /\ lapsed' = lapsed
    BY <1>5 DEF Exit, Restart, Crash, TypeOK
  <2> QED BY <1>0, <2>1
<1>6. ASSUME NEW j \in Jobs, IntervalElapses(j) PROVE RunsUnderLease' /\ Alone'
  BY <1>0, <1>6 DEF IntervalElapses, TypeOK, Row
<1>7. ASSUME NEW j \in Jobs, LeaseExpires(j) PROVE RunsUnderLease' /\ Alone'
  <2>1. ~Spend("overrun")
    BY <1>0 DEF Spend, TypeOK, Kinds
  <2>2. /\ {s \in Schedulers : Runs(s, j) /\ j \notin lapsed[s]} = {}
        /\ row' = [row EXCEPT ![j].lease = "expired"]
        /\ lapsed' = [s \in Schedulers |-> lapsed[s]] /\ task' = task
    BY <1>7, <2>1 DEF LeaseExpires
  <2> QED BY <1>0, <2>2 DEF TypeOK, Row
<1>8. CASE UNCHANGED vars
  BY <1>0, <1>8 DEF vars
<1> QED
  BY <1>1, <1>2, <1>3, <1>4, <1>5, <1>6, <1>7, <1>8 DEF Next, JobStep

\* However many processes race for the jobs, stop, crash and restart, no job
\* runs twice at a time as long as no run has outlived its lease.
THEOREM JobsRunAlone == Spec => []JobRunsAlone
<1>1. AloneInv => JobRunsAlone
  BY DEF AloneInv, JobRunsAlone, OnTime, Alone
<1> QED BY <1>1, InitAlone, NextAlone, TypeCorrect, PTL DEF Spec

-----------------------------------------------------------------------------
\* Runs that outlive their leases.

\* The processes that run a job, those of them whose own lease has run out, how
\* often a lease ran out under a run, and the leases in a job's row.
Runners(j) == {s \in Schedulers : Runs(s, j)}
Late(j) == {s \in Runners(j) : j \in lapsed[s]}
Overruns == Budget["overrun"] - budget["overrun"]
Leases(j) == IF row[j].lease = "live" THEN 1 ELSE 0

\* Each time a lease runs out under its run, one more run may go on beside it.
OverrunsBound ==
  \A j \in Jobs :
    IsFiniteSet(Runners(j)) /\ Cardinality(Runners(j)) <= 1 + Overruns

\* The row pays for one run while its lease is live, the overruns for the others.
Paid(j) ==
  /\ IsFiniteSet(Runners(j))
  /\ Cardinality(Runners(j)) <= Overruns + Leases(j)
  /\ Cardinality(Late(j)) <= Overruns

\* A lease is in a row.
OnlyLeasedRows == \A j \in Jobs : row[j].lease # "none" => row[j].exists

PaidInv == Overruns \in Nat /\ OnlyLeasedRows /\ \A j \in Jobs : Paid(j)

LEMMA Counts ==
  ASSUME NEW j \in Jobs, IsFiniteSet(Runners(j))
  PROVE  /\ Cardinality(Runners(j)) \in Nat
         /\ IsFiniteSet(Late(j)) /\ Cardinality(Late(j)) \in Nat
         /\ Cardinality(Late(j)) <= Cardinality(Runners(j))
<1>1. Late(j) \in SUBSET Runners(j) BY DEF Late
<1> QED BY <1>1, FS_Subset, FS_CardinalityType

LEMMA OverrunsGrow ==
  ASSUME TypeOK, [Next]_vars, Overruns \in Nat
  PROVE  Overruns' \in Nat /\ Overruns <= Overruns'
<1>1. /\ budget["overrun"] \in Nat /\ Budget["overrun"] \in Nat
  BY SchedulerAssumption DEF TypeOK, Kinds
<1>2. CASE UNCHANGED budget BY <1>2 DEF Overruns
<1>3. ASSUME NEW kind \in Kinds, Spend(kind)
      PROVE  Overruns' \in Nat /\ Overruns <= Overruns'
  <2>1. \/ budget'["overrun"] = budget["overrun"]
        \/ /\ budget["overrun"] > 0
           /\ budget'["overrun"] = budget["overrun"] - 1
    BY <1>3 DEF Spend, TypeOK, Kinds
  <2> QED BY <1>1, <2>1 DEF Overruns
<1>4. UNCHANGED budget \/ \E kind \in Kinds : Spend(kind)
  BY DEF Next, JobStep, vars, ClaimJob, StartJob, FinishJob, CompleteJob,
         AbortJob, Stop, Exit, Crash, Restart, IntervalElapses, LeaseExpires,
         Kinds
<1> QED BY <1>2, <1>3, <1>4

\* A job that nobody starts, with the lease it had.
LEMMA StillPaid ==
  ASSUME Overruns \in Nat, Overruns' \in Nat, Overruns <= Overruns',
         NEW j \in Jobs, Paid(j),
         Runners(j)' \subseteq Runners(j), Late(j)' \subseteq Late(j),
         Leases(j) <= Leases(j)'
  PROVE  Paid(j)'
<1> DEFINE R == Runners(j)
           L == Late(j)
           S == Runners(j)'
           M == Late(j)'
<1>1. /\ IsFiniteSet(R) /\ Cardinality(R) \in Nat
      /\ IsFiniteSet(L) /\ Cardinality(L) \in Nat
      /\ Cardinality(R) <= Overruns + Leases(j) /\ Cardinality(L) <= Overruns
  BY Counts DEF Paid
<1>2. S \in SUBSET R /\ M \in SUBSET L OBVIOUS
<1>3. Leases(j) \in Nat /\ Leases(j)' \in Nat BY DEF Leases
<1> HIDE DEF R, L, S, M
<1>4. /\ IsFiniteSet(S) /\ Cardinality(S) \in Nat
      /\ Cardinality(S) <= Cardinality(R)
      /\ Cardinality(M) \in Nat /\ Cardinality(M) <= Cardinality(L)
  BY <1>1, <1>2, FS_Subset, FS_CardinalityType
<1>5. Cardinality(S) <= Overruns' + Leases(j)' /\ Cardinality(M) <= Overruns'
  BY <1>1, <1>3, <1>4
<1>6. /\ IsFiniteSet(Runners(j)')
      /\ Cardinality(Runners(j)') <= Overruns' + Leases(j)'
      /\ Cardinality(Late(j)') <= Overruns'
  BY <1>4, <1>5 DEF S, M
<1> QED BY <1>6 DEF Paid

\* A run ends, and clears the lease whoever has it.
LEMMA OneEnds ==
  ASSUME Overruns \in Nat, Overruns' \in Nat, Overruns <= Overruns',
         NEW j \in Jobs, Paid(j), NEW s \in Runners(j),
         Runners(j)' \subseteq Runners(j) \ {s}, Late(j)' \subseteq Late(j)
  PROVE  Paid(j)'
<1> DEFINE R == Runners(j)
           L == Late(j)
           S == Runners(j)'
           M == Late(j)'
<1>1. /\ IsFiniteSet(R) /\ Cardinality(R) \in Nat
      /\ IsFiniteSet(L) /\ Cardinality(L) \in Nat
      /\ Cardinality(R) <= Overruns + Leases(j) /\ Cardinality(L) <= Overruns
  BY Counts DEF Paid
<1>2. S \in SUBSET R /\ M \in SUBSET L /\ S # R OBVIOUS
<1>3. Leases(j) \in {0, 1} /\ Leases(j)' \in {0, 1} BY DEF Leases
<1> HIDE DEF R, L, S, M
<1>4. /\ IsFiniteSet(S) /\ Cardinality(S) \in Nat
      /\ Cardinality(S) <= Cardinality(R) /\ Cardinality(S) # Cardinality(R)
      /\ Cardinality(M) \in Nat /\ Cardinality(M) <= Cardinality(L)
  BY <1>1, <1>2, FS_Subset, FS_CardinalityType
<1>5. Cardinality(S) <= Overruns' + Leases(j)' /\ Cardinality(M) <= Overruns'
  BY <1>1, <1>3, <1>4
<1>6. /\ IsFiniteSet(Runners(j)')
      /\ Cardinality(Runners(j)') <= Overruns' + Leases(j)'
      /\ Cardinality(Late(j)') <= Overruns'
  BY <1>4, <1>5 DEF S, M
<1> QED BY <1>6 DEF Paid

\* A process takes the lease and starts the job.
LEMMA OneStarts ==
  ASSUME Overruns \in Nat, Overruns' = Overruns, NEW j \in Jobs, Paid(j),
         NEW s, s \notin Runners(j), Runners(j)' = Runners(j) \cup {s},
         Late(j)' \subseteq Late(j), Leases(j) = 0, Leases(j)' = 1
  PROVE  Paid(j)'
<1> DEFINE R == Runners(j)
           L == Late(j)
           M == Late(j)'
<1>1. /\ IsFiniteSet(R) /\ Cardinality(R) \in Nat
      /\ IsFiniteSet(L) /\ Cardinality(L) \in Nat
      /\ Cardinality(R) <= Overruns /\ Cardinality(L) <= Overruns
  <2>1. Overruns + 0 = Overruns OBVIOUS
  <2> QED BY <2>1, Counts DEF Paid
<1>2. s \notin R /\ M \in SUBSET L OBVIOUS
<1> HIDE DEF R, L, M
<1>3. /\ IsFiniteSet(R \cup {s})
      /\ Cardinality(R \cup {s}) = Cardinality(R) + 1
  BY <1>1, <1>2, FS_AddElement
<1>4. Cardinality(M) \in Nat /\ Cardinality(M) <= Cardinality(L)
  BY <1>1, <1>2, FS_Subset, FS_CardinalityType
<1>5. Cardinality(R \cup {s}) <= Overruns + 1 /\ Cardinality(M) <= Overruns
  BY <1>1, <1>3, <1>4
<1>6. /\ IsFiniteSet(Runners(j)')
      /\ Cardinality(Runners(j)') <= Overruns' + Leases(j)'
      /\ Cardinality(Late(j)') <= Overruns'
  BY <1>3, <1>5 DEF R, M
<1> QED BY <1>6 DEF Paid

\* A lease runs out: under nobody, or as one more overrun.
LEMMA LeaseEnds ==
  ASSUME TypeOK, Overruns \in Nat, Overruns' \in Nat, NEW j \in Jobs, Paid(j),
         LeaseExpires(j)
  PROVE  Paid(j)'
<1> DEFINE R == Runners(j)
           L == Late(j)
           fresh == {s \in Schedulers : Runs(s, j) /\ j \notin lapsed[s]}
<1>1. /\ IsFiniteSet(R) /\ Cardinality(R) \in Nat
      /\ IsFiniteSet(L) /\ Cardinality(L) \in Nat
      /\ Cardinality(R) <= Overruns + 1 /\ Cardinality(L) <= Overruns
  <2>1. Leases(j) = 1 BY DEF LeaseExpires, Leases
  <2> QED BY <2>1, Counts DEF Paid
<1>2. Runners(j)' = R BY DEF LeaseExpires, Runners, Runs
<1>3. Leases(j)' = 0 BY DEF LeaseExpires, Leases, TypeOK, Row
<1>4. L \subseteq R BY DEF Late
<1>5. Late(j)' \subseteq R BY <1>2 DEF Late
<1>6. CASE fresh = {}
  <2>1. R = L BY <1>6 DEF Runners, Late
  <2>2. \A s \in Schedulers : lapsed'[s] = lapsed[s]
    BY <1>6 DEF LeaseExpires
  <2>3. Late(j)' = L BY <1>2, <2>2 DEF Late, Runners
  <2>4. Overruns' = Overruns BY <1>6 DEF LeaseExpires, Overruns
  <2>5. /\ IsFiniteSet(Runners(j)')
        /\ Cardinality(Runners(j)') <= Overruns' + Leases(j)'
        /\ Cardinality(Late(j)') <= Overruns'
    BY <1>1, <1>2, <1>3, <2>1, <2>3, <2>4
  <2> QED BY <2>5 DEF Paid
<1>7. CASE fresh # {}
  <2>1. Overruns' = Overruns + 1
    <3>1. Spend("overrun") BY <1>7 DEF LeaseExpires
    <3>2. budget["overrun"] \in Nat /\ Budget["overrun"] \in Nat
      BY SchedulerAssumption DEF TypeOK, Kinds
    <3>3. budget'["overrun"] = budget["overrun"] - 1
      BY <3>1 DEF Spend, TypeOK, Kinds
    <3> QED BY <3>2, <3>3 DEF Overruns
  <2> DEFINE M == Late(j)'
  <2>2. M \in SUBSET R BY <1>5
  <2> HIDE DEF R, L, M
  <2>3. Cardinality(M) \in Nat /\ Cardinality(M) <= Cardinality(R)
    BY <1>1, <2>2, FS_Subset, FS_CardinalityType
  <2>4. Cardinality(R) <= Overruns' + 0 /\ Cardinality(M) <= Overruns'
    BY <1>1, <2>1, <2>3
  <2>5. /\ IsFiniteSet(Runners(j)')
        /\ Cardinality(Runners(j)') <= Overruns' + Leases(j)'
        /\ Cardinality(Late(j)') <= Overruns'
    BY <1>1, <1>2, <1>3, <2>4 DEF M
  <2> QED BY <2>5 DEF Paid
<1> QED BY <1>6, <1>7

LEMMA LeasesInRows ==
  ASSUME TypeOK, OnlyLeasedRows, [Next]_vars
  PROVE  OnlyLeasedRows'
<1>1. CASE UNCHANGED row BY <1>1 DEF OnlyLeasedRows
<1>2. ASSUME NEW s \in Schedulers, NEW j \in Jobs, ClaimJob(s, j)
      PROVE  OnlyLeasedRows'
  <2>1. Inserted(j) \in Row /\ Inserted(j).exists BY InsertedType
  <2>2. Started(Inserted(j)).exists BY <2>1 DEF Started, Row
  <2>3. PICK r : row' = [row EXCEPT ![j] = r] /\ r.exists
    BY <1>2, <2>1, <2>2 DEF ClaimJob
  <2> QED BY <2>3 DEF OnlyLeasedRows, TypeOK
<1>3. ASSUME \A j \in Jobs : /\ row'[j].exists = row[j].exists
                             /\ \/ row'[j].lease \in {"none", row[j].lease}
                                \/ row[j].lease = "live"
      PROVE  OnlyLeasedRows'
  BY <1>3 DEF OnlyLeasedRows
<1>4. ASSUME NEW s \in Schedulers, Stop(s) PROVE OnlyLeasedRows'
  BY <1>3, <1>4 DEF Stop, TypeOK, Row
<1>5. ASSUME NEW s \in Schedulers, NEW j \in Jobs, CompleteJob(s, j)
      PROVE  OnlyLeasedRows'
  BY <1>3, <1>5 DEF CompleteJob, TypeOK, Row
<1>6. ASSUME NEW j \in Jobs, IntervalElapses(j) \/ LeaseExpires(j)
      PROVE  OnlyLeasedRows'
  BY <1>3, <1>6 DEF IntervalElapses, LeaseExpires, TypeOK, Row
<1> QED
  BY <1>1, <1>2, <1>4, <1>5, <1>6
  DEF Next, JobStep, vars, StartJob, FinishJob, AbortJob, Exit, Crash, Restart

LEMMA NextPaid == TypeOK /\ PaidInv /\ [Next]_vars => PaidInv'
<1> SUFFICES ASSUME TypeOK, PaidInv, [Next]_vars,
                    NEW k \in Jobs
             PROVE  Paid(k)'
  BY OverrunsGrow, LeasesInRows DEF PaidInv
<1>0. /\ Overruns \in Nat /\ Overruns' \in Nat /\ Overruns <= Overruns'
      /\ Paid(k) /\ OnlyLeasedRows
  BY OverrunsGrow DEF PaidInv
<1>a. ASSUME \A v \in Schedulers : task'[v][k] # "none" => task[v][k] # "none",
             lapsed' = lapsed, row'[k].lease = row[k].lease
      PROVE  Paid(k)'
  <2>1. Runners(k)' \subseteq Runners(k) /\ Late(k)' \subseteq Late(k)
    BY <1>a DEF Runners, Late, Runs
  <2>2. Leases(k)' = Leases(k) /\ Leases(k) \in Nat BY <1>a DEF Leases
  <2>3. Leases(k) <= Leases(k)' BY <2>2
  <2> QED BY <1>0, <2>1, <2>3, StillPaid
<1>1. ASSUME NEW s \in Schedulers, NEW j \in Jobs, ClaimJob(s, j)
      PROVE  Paid(k)'
  <2>1. CASE Due(Inserted(j))
    <3>1. /\ row' = [row EXCEPT ![j] = Started(Inserted(j))]
          /\ task' = [task EXCEPT ![s][j] = "created"]
          /\ lapsed' = [lapsed EXCEPT ![s] = @ \ {j}]
          /\ ~Runs(s, j) /\ budget' = budget
      BY <1>1, <2>1 DEF ClaimJob
    <3>2. \A v \in Schedulers, i \in Jobs :
            task'[v][i] = IF v = s /\ i = j THEN "created" ELSE task[v][i]
      BY <3>1, OneTask DEF TypeOK, Tasks
    <3>3. \A v \in Schedulers :
            lapsed'[v] = IF v = s THEN lapsed[v] \ {j} ELSE lapsed[v]
      BY <3>1 DEF TypeOK
    <3>4. \A i \in Jobs :
            row'[i] = IF i = j THEN Started(Inserted(j)) ELSE row[i]
      BY <3>1 DEF TypeOK
    <3>5. CASE k # j
      <4>1. Runners(k)' \subseteq Runners(k) /\ Late(k)' \subseteq Late(k)
        BY <3>2, <3>3, <3>5 DEF Runners, Late, Runs
      <4>2. Leases(k)' = Leases(k) /\ Leases(k) \in Nat
        BY <3>4, <3>5 DEF Leases
      <4>3. Leases(k) <= Leases(k)' BY <4>2
      <4> QED BY <1>0, <4>1, <4>3, StillPaid
    <3>6. CASE k = j
      <4>1. row[j].lease # "live"
        <5>1. row[j].exists => row[j].lease # "live"
          BY <2>1, InsertedType DEF Due
        <5>2. ~row[j].exists => row[j].lease # "live"
          BY <1>0 DEF OnlyLeasedRows
        <5> QED BY <5>1, <5>2
      <4>2. Started(Inserted(j)).lease = "live"
        <5>1. Inserted(j) \in Row BY InsertedType
        <5> QED BY <5>1 DEF Started, Row
      <4>3. Leases(k) = 0 /\ Leases(k)' = 1
        BY <3>4, <3>6, <4>1, <4>2 DEF Leases
      <4>4. s \notin Runners(k) /\ Runners(k)' = Runners(k) \cup {s}
        BY <3>1, <3>2, <3>6 DEF Runners, Runs
      <4>5. Late(k)' \subseteq Late(k)
        BY <3>2, <3>3, <3>6 DEF Runners, Late, Runs
      <4>6. Overruns' = Overruns BY <3>1 DEF Overruns
      <4> QED BY <1>0, <4>3, <4>4, <4>5, <4>6, OneStarts
    <3> QED BY <3>5, <3>6
  <2>2. CASE ~Due(Inserted(j))
    <3>1. ~row[j].exists BY <1>1, <2>2 DEF ClaimJob, Inserted
    <3>2. /\ row' = [row EXCEPT ![j] = Inserted(j)]
          /\ UNCHANGED <<task, lapsed>>
      BY <1>1, <2>2 DEF ClaimJob
    <3>3. row[j].lease = "none" BY <1>0, <3>1 DEF OnlyLeasedRows
    <3>4. Inserted(j).lease = "none" BY <3>1 DEF Inserted, NoRow
    <3>5. row'[k].lease = row[k].lease BY <3>2, <3>3, <3>4 DEF TypeOK
    <3> QED BY <1>a, <3>2, <3>5
  <2> QED BY <2>1, <2>2
<1>2. ASSUME NEW s \in Schedulers, NEW j \in Jobs,
             StartJob(s, j) \/ FinishJob(s, j) \/ AbortJob(s, j)
      PROVE  Paid(k)'
  <2>1. PICK x \in Tasks : task' = [task EXCEPT ![s][j] = x]
    BY <1>2 DEF StartJob, FinishJob, AbortJob, Tasks
  <2>2. task[s][j] # "none" BY <1>2 DEF StartJob, FinishJob, AbortJob
  <2>3. \A v \in Schedulers : task'[v][k] # "none" => task[v][k] # "none"
    BY <2>1, <2>2, OneTask DEF TypeOK, Tasks
  <2>4. row' = row /\ lapsed' = lapsed
    BY <1>2 DEF StartJob, FinishJob, AbortJob
  <2> QED BY <1>a, <2>3, <2>4
<1>3. ASSUME NEW s \in Schedulers, NEW j \in Jobs, CompleteJob(s, j)
      PROVE  Paid(k)'
  <2>1. \A v \in Schedulers, i \in Jobs :
          task'[v][i] = IF v = s /\ i = j THEN "none" ELSE task[v][i]
    BY <1>3, OneTask DEF CompleteJob, TypeOK, Tasks
  <2>2. /\ lapsed' = lapsed /\ task[s][j] # "none"
        /\ k # j => row'[k] = row[k]
    BY <1>3 DEF CompleteJob, TypeOK
  <2>3. CASE k # j BY <1>a, <2>1, <2>2, <2>3
  <2>4. CASE k = j
    <3>1. /\ s \in Runners(k) /\ Runners(k)' \subseteq Runners(k) \ {s}
          /\ Late(k)' \subseteq Late(k)
      BY <2>1, <2>2, <2>4 DEF Runners, Late, Runs
    <3> QED BY <1>0, <3>1, OneEnds
  <2> QED BY <2>3, <2>4
<1>4. ASSUME NEW s \in Schedulers, Stop(s) PROVE Paid(k)'
  <2>1. /\ task' \in [Schedulers -> [Jobs -> Tasks]]
        /\ \A v \in Schedulers, j \in Jobs :
             task'[v][j] # "none" => /\ task[v][j] # "none"
                                     /\ v = s => task[v][j] = "working"
    BY <1>4 DEF Stop, TypeOK, Tasks
  <2>2. row'[k] = row[k] \/ task[s][k] = "completing"
    BY <1>4 DEF Stop, TypeOK
  <2>3. lapsed' = lapsed BY <1>4 DEF Stop
  <2>4. CASE row'[k] = row[k] BY <1>a, <2>1, <2>3, <2>4
  <2>5. CASE task[s][k] = "completing"
    <3>1. /\ s \in Runners(k) /\ Runners(k)' \subseteq Runners(k) \ {s}
          /\ Late(k)' \subseteq Late(k)
      BY <2>1, <2>3, <2>5 DEF Runners, Late, Runs
    <3> QED BY <1>0, <3>1, OneEnds
  <2> QED BY <2>2, <2>4, <2>5
<1>5. ASSUME NEW s \in Schedulers, Exit(s) \/ Restart(s) \/ Crash(s)
      PROVE  Paid(k)'
  <2>1. /\ \A v \in Schedulers : task'[v][k] # "none" => task[v][k] # "none"
        /\ row' = row /\ lapsed' = lapsed
    BY <1>5 DEF Exit, Restart, Crash, TypeOK
  <2> QED BY <1>a, <2>1
<1>6. ASSUME NEW j \in Jobs, IntervalElapses(j) PROVE Paid(k)'
  <2>1. task' = task /\ lapsed' = lapsed /\ row'[k].lease = row[k].lease
    BY <1>6 DEF IntervalElapses, TypeOK, Row
  <2> QED BY <1>a, <2>1
<1>7. ASSUME NEW j \in Jobs, LeaseExpires(j) PROVE Paid(k)'
  <2>1. CASE k = j BY <1>0, <1>7, <2>1, LeaseEnds
  <2>2. CASE k # j
    <3>1. /\ task' = task /\ row'[k] = row[k]
          /\ \A v \in Schedulers : k \in lapsed'[v] => k \in lapsed[v]
      BY <1>7, <2>2 DEF LeaseExpires, TypeOK
    <3>2. Runners(k)' \subseteq Runners(k) /\ Late(k)' \subseteq Late(k)
      BY <3>1 DEF Runners, Late, Runs
    <3>3. Leases(k)' = Leases(k) /\ Leases(k) \in Nat BY <3>1 DEF Leases
    <3>4. Leases(k) <= Leases(k)' BY <3>3
    <3> QED BY <1>0, <3>2, <3>4, StillPaid
  <2> QED BY <2>1, <2>2
<1>8. CASE UNCHANGED vars
  <2>1. task' = task /\ lapsed' = lapsed /\ row' = row BY <1>8 DEF vars
  <2> QED BY <1>a, <2>1
<1> QED
  BY <1>1, <1>2, <1>3, <1>4, <1>5, <1>6, <1>7, <1>8 DEF Next, JobStep

\* Although a run that outlived its lease clears that of its successor, overruns
\* do not multiply: at any time a job runs at most once more than leases ran
\* out under a run, whoever stops, fails or is killed.
THEOREM OverrunsBounded == Spec => []OverrunsBound
<1>1. Init => PaidInv
  <2> SUFFICES ASSUME Init PROVE PaidInv
    OBVIOUS
  <2>1. Overruns = 0 BY SchedulerAssumption DEF Init, Overruns, Kinds
  <2>2. \A j \in Jobs : Runners(j) = {} /\ Late(j) = {} /\ Leases(j) = 0
    BY DEF Init, Runners, Late, Runs, Leases, NoRow
  <2>3. OnlyLeasedRows BY DEF Init, OnlyLeasedRows, NoRow
  <2> QED BY <2>1, <2>2, <2>3, FS_EmptySet DEF PaidInv, Paid
<1>2. PaidInv => OverrunsBound
  <2> SUFFICES ASSUME PaidInv, NEW j \in Jobs
               PROVE  /\ IsFiniteSet(Runners(j))
                      /\ Cardinality(Runners(j)) <= 1 + Overruns
    BY DEF OverrunsBound
  <2>1. /\ Overruns \in Nat /\ Paid(j) /\ Leases(j) \in {0, 1}
    BY DEF PaidInv, Leases
  <2>2. Cardinality(Runners(j)) \in Nat BY <2>1, Counts DEF Paid
  <2> QED BY <2>1, <2>2 DEF Paid
<1> QED BY <1>1, <1>2, NextPaid, TypeCorrect, PTL DEF Spec

=============================================================================
