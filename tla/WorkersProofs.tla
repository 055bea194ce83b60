--------------------------- MODULE WorkersProofs ---------------------------
(***************************************************************************)
(* Theorems about Workers for any numbers of tasks, loops and processes    *)
(* and any budget.                                                         *)
(***************************************************************************)
EXTENDS Workers, FrontierProofs

-----------------------------------------------------------------------------
\* Type correctness.

Labels == Processing \cup Looping \cup Leaving \cup Ended

\* The initial state is well-typed.
LEMMA InitType == Init => TypeOK
<1> SUFFICES ASSUME Init PROVE TypeOK
  OBVIOUS
<1>1. FrontierType
  BY InitFrontierType DEF Init
<1>2. pc \in [Owners -> Labels]
  BY DEF Init, Labels, Looping
<1>3. /\ held \in [Owners -> SUBSET Token] /\ cur \in [Owners -> SUBSET Token]
      /\ seen \in [Owners -> Nat]
  BY DEF Init
<1>4. /\ stop \in [Procs -> BOOLEAN] /\ cancelled \in [Procs -> BOOLEAN]
      /\ empty \in [Procs -> {"none", "since", "elapsed"}]
      /\ drained \in [Procs -> BOOLEAN]
  BY DEF Init
<1>5. /\ source \in [Tasks -> Nat] /\ saved \in [Tasks -> Nat]
      /\ effects \subseteq Token
  BY DEF Init
<1>6. budget \in [Kinds -> Nat]
  BY WorkersAssumption DEF Init
<1> QED BY <1>1, <1>2, <1>3, <1>4, <1>5, <1>6 DEF TypeOK, Labels

\* An operation that leaves the tables alone keeps them well-typed.
LEMMA SameFrontierType ==
  ASSUME FrontierType, UNCHANGED frontierVars
  PROVE  FrontierType'
BY DEF FrontierType, frontierVars

\* A goto to a label keeps pc well-typed.
LEMMA GotoType ==
  ASSUME TypeOK, NEW w \in Owners, NEW label \in Labels, Goto(w, label)
  PROVE  pc' \in [Owners -> Labels]
BY DEF TypeOK, Labels, Goto

\* What a budget may pay for keeps it well-typed.
LEMMA SpendType ==
  ASSUME TypeOK, NEW kind \in Kinds, Spend(kind)
  PROVE  budget' \in [Kinds -> Nat]
BY DEF TypeOK, Spend

\* So does finishing a task.
LEMMA FinishTaskType ==
  ASSUME TypeOK, NEW w \in Owners, FinishTask(w)
  PROVE  /\ pc' \in [Owners -> Labels]
         /\ cur' \in [Owners -> SUBSET Token]
         /\ seen' \in [Owners -> Nat]
BY DEF TypeOK, FinishTask, Goto, Labels, Looping

\* Every step of a loop outside _process_task keeps the state well-typed.
LEMMA LoopStepType ==
  ASSUME TypeOK, NEW w \in Owners, LoopStep(w)
  PROVE  TypeOK'
<1> USE DEF TypeOK, frontierVars, procVars, dataVars, loopVars
<1> DEFINE p == ProcOf[w]
<1>p. p \in Procs
  BY WorkersAssumption
<1>1. CASE ClaimTasks(w)
  <2>1. PICK S \in Picks(w \in Backfill /\ pc[w] = "claim") :
          Claim(w, S) /\ held' = [held EXCEPT ![w] = Claimed(S)]
    BY <1>1 DEF ClaimTasks
  <2>2. S \in SUBSET Tasks
    BY DEF Picks
  <2>3. FrontierType' /\ Claimed(S) \in SUBSET Token
    BY <2>1, <2>2, ClaimType, ClaimedType
  <2>4. pc' \in [Owners -> Labels]
    BY <1>1, GotoType DEF ClaimTasks, Labels, Looping
  <2> QED BY <1>1, <2>1, <2>3, <2>4 DEF ClaimTasks, Labels
<1>2. CASE ClaimNothing(w)
  <2>1. AfterEmptyClaim(w) \in Labels
    BY DEF AfterEmptyClaim, Labels, Looping, Leaving
  <2> QED BY <1>2, <2>1, GotoType, SameFrontierType DEF ClaimNothing, Labels
<1>3. CASE LeaveLoop(w)
  BY <1>3, GotoType, SameFrontierType DEF LeaveLoop, Labels, Leaving
<1>4. CASE StartBatch(w)
  BY <1>p, <1>4, GotoType, SameFrontierType DEF StartBatch, Labels, Looping
<1>5. CASE NextTask(w)
  BY <1>5, GotoType, SameFrontierType
  DEF NextTask, Labels, Processing, Working
<1>6. CASE LeaveBatch(w)
  BY <1>6, GotoType, SameFrontierType DEF LeaveBatch, Labels, Leaving
<1>7. CASE EndBatch(w)
  BY <1>7, GotoType, SameFrontierType DEF EndBatch, Labels, Leaving, Looping
<1>8. CASE ReadActivity(w)
  BY <1>8, GotoType, SameFrontierType DEF ReadActivity, Labels, Looping
<1>9. CASE DrainBusy(w)
  BY <1>p, <1>9, GotoType, SameFrontierType DEF DrainBusy, Labels, Looping
<1>10. CASE DrainIdle(w)
  BY <1>p, <1>10, GotoType, SameFrontierType, WorkersAssumption
  DEF DrainIdle, Labels, Looping, Leaving
<1>11. CASE ReleaseRest(w)
  <2>1. RowsOfOwner(w, held[w]) \in SUBSET Tasks
    BY DEF RowsOfOwner, OwnedBy
  <2>2. FrontierType'
    BY <1>11, <2>1, UnleaseAllType DEF ReleaseRest, Release
  <2> QED BY <1>11, <2>2, GotoType DEF ReleaseRest, Labels, Leaving
<1>12. CASE CloseLoop(w)
  <2>1. FrontierType'
    BY <1>12, UnleaseAllType DEF CloseLoop, ReleaseByOwner, OwnedBy
  <2> QED BY <1>12, <2>1, GotoType DEF CloseLoop, Labels, Ended
<1>13. CASE ReapOwner(w)
  <2>1. CASE ReleaseByOwner(w) /\ Goto(w, "stopped") /\ UNCHANGED budget
    <3>1. FrontierType'
      BY <2>1, UnleaseAllType DEF ReleaseByOwner, OwnedBy
    <3> QED BY <1>13, <2>1, <3>1, GotoType DEF ReapOwner, Labels, Ended
  <2>2. CASE /\ Spend("fault") /\ Goto(w, "abandoned")
             /\ UNCHANGED frontierVars
    BY <1>13, <2>2, GotoType, SpendType, SameFrontierType
    DEF ReapOwner, Labels, Ended, Kinds
  <2> QED BY <1>13, <2>1, <2>2 DEF ReapOwner
<1>14. CASE Cancel(w)
  BY <1>14, GotoType, SameFrontierType DEF Cancel, Labels, Leaving
<1> QED
  BY <1>1, <1>2, <1>3, <1>4, <1>5, <1>6, <1>7, <1>8, <1>9, <1>10, <1>11,
     <1>12, <1>13, <1>14
  DEF LoopStep

\* The token in hand is one, as soon as there is one.
LEMMA InHandType ==
  ASSUME TypeOK, NEW w \in Owners, NEW k \in cur[w]
  PROVE  k \in Token /\ k.task \in Tasks
BY DEF TypeOK, Token

\* Every step of _process_task keeps the state well-typed.
LEMMA TaskStepType ==
  ASSUME TypeOK, NEW w \in Owners, TaskStep(w)
  PROVE  TypeOK'
<1> USE DEF TypeOK, frontierVars, procVars, dataVars, loopVars
<1>1. CASE Extract(w)
  <2>1. seen' \in [Owners -> Nat]
    BY <1>1, InHandType DEF Extract
  <2>2. pc' \in [Owners -> Labels]
    BY <1>1, GotoType DEF Extract, Labels, Processing, Working, Settling
  <2>3. budget' \in [Kinds -> Nat]
    BY <1>1, SpendType DEF Extract, Kinds
  <2> QED BY <1>1, <2>1, <2>2, <2>3, SameFrontierType DEF Extract, Labels
<1>2. CASE ExtendLease(w)
  <2>1. PICK k \in cur[w] :
          \/ Holds(w, k) /\ Extend(k) /\ Goto(w, "persist")
               /\ UNCHANGED <<cur, seen>>
          \/ ~Holds(w, k) /\ FinishTask(w) /\ UNCHANGED frontierVars
    BY <1>2 DEF ExtendLease
  <2>2. CASE Extend(k) /\ Goto(w, "persist") /\ UNCHANGED <<cur, seen>>
    <3>1. FrontierType'
      BY <2>2, InHandType, ExtendType
    <3> QED BY <1>2, <2>2, <3>1, GotoType
        DEF ExtendLease, Labels, Processing, Working
  <2>3. CASE FinishTask(w) /\ UNCHANGED frontierVars
    BY <1>2, <2>3, FinishTaskType, SameFrontierType DEF ExtendLease, Labels
  <2> QED BY <2>1, <2>2, <2>3
<1>3. CASE Persist(w)
  <2>1. saved' \in [Tasks -> Nat] /\ effects' \subseteq Token
    BY <1>3, InHandType DEF Persist
  <2> QED BY <1>3, <2>1, GotoType, SameFrontierType
      DEF Persist, Labels, Processing, Working
<1>4. CASE EnqueueFound(w)
  <2>1. PICK k \in cur[w] : EnqueueAll(Unsaved(Children[k.task]), TRUE)
    BY <1>4 DEF EnqueueFound
  <2>2. Unsaved(Children[k.task]) \in SUBSET Tasks
    BY InHandType, WorkersAssumption DEF Unsaved
  <2>3. FrontierType'
    BY <2>1, <2>2, EnqueueAllType
  <2> QED BY <1>4, <2>3, GotoType DEF EnqueueFound, Labels, Processing, Settling
<1>5. CASE CompleteRead(w)
  BY <1>5, GotoType, FinishTaskType, SameFrontierType
  DEF CompleteRead, Labels, Processing, Settling
<1>6. CASE CompleteWrite(w)
  <2>1. FrontierType'
    BY <1>6, InHandType, RemoveType DEF CompleteWrite, Outcomes
  <2> QED BY <1>6, <2>1, FinishTaskType DEF CompleteWrite, Labels
<1>7. CASE ScheduleRetry(w)
  <2>1. FrontierType'
    BY <1>7, InHandType, RetryType DEF ScheduleRetry
  <2> QED BY <1>7, <2>1, FinishTaskType DEF ScheduleRetry, Labels
<1>8. CASE FailRead(w)
  BY <1>8, GotoType, FinishTaskType, SameFrontierType
  DEF FailRead, Labels, Processing, Settling
<1>9. CASE FailWrite(w)
  <2>1. FrontierType'
    BY <1>9, InHandType, RemoveType DEF FailWrite, Outcomes
  <2> QED BY <1>9, <2>1, FinishTaskType DEF FailWrite, Labels
<1> QED
  BY <1>1, <1>2, <1>3, <1>4, <1>5, <1>6, <1>7, <1>8, <1>9 DEF TaskStep

\* Heartbeats and failed database calls do.
LEMMA LoopEventType ==
  ASSUME TypeOK, NEW w \in Owners, Heartbeat(w) \/ Fault(w)
  PROVE  TypeOK'
<1> USE DEF TypeOK, frontierVars, procVars, dataVars, loopVars
<1>1. CASE Heartbeat(w)
  <2>1. FrontierType'
    BY <1>1, InHandType, ExtendType DEF Heartbeat
  <2> QED BY <1>1, <2>1 DEF Heartbeat
<1>2. CASE Fault(w)
  <2>1. ProcOf[w] \in Procs
    BY WorkersAssumption
  <2>2. pc' \in [Owners -> Labels]
    BY <1>2, GotoType DEF Fault, Labels, Processing, Settling, Leaving, Ended
  <2>3. budget' \in [Kinds -> Nat]
    BY <1>2, SpendType DEF Fault, Kinds
  <2>4. held' \in [Owners -> SUBSET Token] /\ cur' \in [Owners -> SUBSET Token]
    BY <1>2 DEF Fault
  <2>5. seen' \in [Owners -> Nat]
    BY <1>2 DEF Fault
  <2>6. cancelled' \in [Procs -> BOOLEAN]
    <3>1. \/ UNCHANGED cancelled
          \/ cancelled' = [cancelled EXCEPT ![ProcOf[w]] = TRUE]
      BY <1>2 DEF Fault
    <3> QED BY <2>1, <3>1
  <2> QED BY <1>2, <2>2, <2>3, <2>4, <2>5, <2>6, SameFrontierType
     DEF Fault, Labels
<1> QED BY <1>1, <1>2

\* Everything the environment does, does.
LEMMA EnvironmentType ==
  ASSUME TypeOK, Environment
  PROVE  TypeOK'
<1> USE DEF TypeOK, frontierVars, procVars, dataVars, loopVars
<1>1. ASSUME NEW p \in Procs,
             RequestShutdown(p) \/ Crash(p) \/ GraceElapses(p)
      PROVE  TypeOK'
  <2>1. CASE RequestShutdown(p)
    BY <2>1, SpendType, SameFrontierType DEF RequestShutdown, Kinds
  <2>2. CASE Crash(p)
    <3>1. budget' \in [Kinds -> Nat]
      BY <2>2, SpendType DEF Crash, Kinds
    <3> QED BY <2>2, <3>1, SameFrontierType DEF Crash, Ended
  <2>3. CASE GraceElapses(p)
    BY <2>3, SameFrontierType DEF GraceElapses
  <2> QED BY <1>1, <2>1, <2>2, <2>3
<1>2. ASSUME NEW t \in Tasks, NEW urgent \in BOOLEAN, Discover(t, urgent)
      PROVE  TypeOK'
  BY <1>2, SpendType, EnqueueAllType DEF Discover, Kinds
<1>3. ASSUME NEW t \in Tasks,
             SourceChanges(t) \/ LeaseExpires(t) \/ DelayElapses(t)
      PROVE  TypeOK'
  <2>1. CASE SourceChanges(t)
    BY <2>1, SpendType, SameFrontierType DEF SourceChanges, Kinds
  <2>2. CASE LeaseExpires(t)
    <3>1. budget' \in [Kinds -> Nat]
      BY <2>2, SpendType DEF LeaseExpires, Kinds
    <3> QED BY <2>2, <3>1, TimeType DEF LeaseExpires
  <2>3. CASE DelayElapses(t)
    BY <2>3, TimeType DEF DelayElapses
  <2> QED BY <1>3, <2>1, <2>2, <2>3
<1>4. ASSUME NEW S \in SUBSET Tasks, NEW urgent \in BOOLEAN,
             EnqueueRefresh(S, urgent)
      PROVE  TypeOK'
  BY <1>4, SpendType, EnqueueAllType DEF EnqueueRefresh, Kinds
<1>5. CASE ReleaseStaleLeases
  BY <1>5, UnleaseAllType DEF ReleaseStaleLeases, ReleaseStale, StaleLeases
<1> QED BY <1>1, <1>2, <1>3, <1>4, <1>5 DEF Environment

\* Every step keeps the state well-typed.
LEMMA NextType == TypeOK /\ [Next]_vars => TypeOK'
<1> SUFFICES ASSUME TypeOK, [Next]_vars PROVE TypeOK'
  OBVIOUS
<1>1. CASE \E w \in Owners :
             LoopStep(w) \/ TaskStep(w) \/ Heartbeat(w) \/ Fault(w)
  BY <1>1, LoopStepType, TaskStepType, LoopEventType
<1>2. CASE Environment
  BY <1>2, EnvironmentType
<1>3. CASE UNCHANGED vars
  BY <1>3, SameFrontierType
  DEF vars, frontierVars, loopVars, procVars, dataVars, TypeOK
<1> QED BY <1>1, <1>2, <1>3 DEF Next

\* The queue's rows, the tokens the loops hold and everything else the code
\* keeps have their types in every reachable state.
THEOREM TypeCorrect == Spec => []TypeOK
<1> QED BY InitType, NextType, PTL DEF Spec

-----------------------------------------------------------------------------
\* The fencing of attempts: what makes SingleHolder inductive.

\* A token is of a row the task has had, at an attempt the row has reached.
Fenced ==
  \A w \in Owners : \A k \in Tokens(w) :
    /\ k.id \in 1..births[k.task]
    /\ frontier[k.task].id = k.id => k.attempt <= frontier[k.task].attempt

\* The row of a current token is its holder's or nobody's.
CurrentOwner ==
  \A w \in Owners : \A k \in Tokens(w) :
    Current(k) => frontier[k.task].owner \in {w, NoOwner}

LeaseInv == RowsCounted /\ Fenced /\ CurrentOwner /\ SingleHolder

\* A step gives no loop a token it did not have.
NoNewToken == \A v \in Owners : Tokens(v)' \subseteq Tokens(v)

\* The operations of the queue that neither add a row nor give one out.
Touch ==
  \/ \E S \in SUBSET Tasks : UnleaseAll(S)
  \/ \E k \in Token : Extend(k) \/ Retry(k)
  \/ \E k \in Token, outcome \in Outcomes : Remove(k, outcome)
  \/ \E t \in Tasks : LeaseRunsOut(t) \/ BecomeDue(t)

\* The enqueuing that is paid for from the budget.
Enqueues ==
  \/ \E t \in Tasks, urgent \in BOOLEAN : Discover(t, urgent)
  \/ \E S \in SUBSET Tasks, urgent \in BOOLEAN : EnqueueRefresh(S, urgent)

\* Steps of a loop outside _process_task touch rows or claim some.
LEMMA LoopStepTouches ==
  ASSUME TypeOK, NEW w \in Owners, LoopStep(w)
  PROVE  ClaimTasks(w) \/ [Touch]_frontierVars
<1>1. CASE ReleaseRest(w)
  BY <1>1 DEF ReleaseRest, Release, RowsOfOwner, OwnedBy, Touch
<1>2. CASE CloseLoop(w)
  BY <1>2 DEF CloseLoop, ReleaseByOwner, OwnedBy, Touch
<1>3. CASE ReapOwner(w)
  BY <1>3 DEF ReapOwner, ReleaseByOwner, OwnedBy, Touch
<1>4. CASE UNCHANGED frontierVars
  BY <1>4
<1> QED
  BY <1>1, <1>2, <1>3, <1>4
  DEF LoopStep, ClaimNothing, LeaveLoop, StartBatch, NextTask, LeaveBatch,
      EndBatch, ReadActivity, DrainBusy, DrainIdle, Cancel

\* Steps of _process_task touch rows or enqueue what was found.
LEMMA TaskStepTouches ==
  ASSUME TypeOK, NEW w \in Owners, TaskStep(w)
  PROVE  EnqueueFound(w) \/ [Touch]_frontierVars
<1>1. CASE ExtendLease(w)
  BY <1>1, InHandType DEF ExtendLease, Touch
<1>2. CASE CompleteWrite(w)
  BY <1>2, InHandType DEF CompleteWrite, Outcomes, Touch
<1>3. CASE ScheduleRetry(w)
  BY <1>3, InHandType DEF ScheduleRetry, Touch
<1>4. CASE FailWrite(w)
  BY <1>4, InHandType DEF FailWrite, Outcomes, Touch
<1>5. CASE UNCHANGED frontierVars
  BY <1>5
<1> QED
  BY <1>1, <1>2, <1>3, <1>4, <1>5
  DEF TaskStep, Extract, Persist, CompleteRead, FailRead

\* So every step of the system claims, enqueues or touches rows.
LEMMA NextTouches ==
  ASSUME TypeOK, [Next]_vars
  PROVE  \/ \E w \in Owners : ClaimTasks(w) \/ EnqueueFound(w)
         \/ Enqueues
         \/ [Touch]_frontierVars
<1>1. ASSUME NEW w \in Owners, LoopStep(w) \/ TaskStep(w)
      PROVE  ClaimTasks(w) \/ EnqueueFound(w) \/ [Touch]_frontierVars
  BY <1>1, LoopStepTouches, TaskStepTouches
<1>2. ASSUME NEW w \in Owners, Heartbeat(w)
      PROVE  Touch
  BY <1>2, InHandType DEF Heartbeat, Touch
<1>3. ASSUME NEW t \in Tasks, LeaseExpires(t) \/ DelayElapses(t)
      PROVE  Touch
  BY <1>3 DEF LeaseExpires, DelayElapses, Touch
<1>4. ASSUME ReleaseStaleLeases
      PROVE  Touch
  BY <1>4 DEF ReleaseStaleLeases, ReleaseStale, StaleLeases, Touch
<1>5. CASE UNCHANGED frontierVars
  BY <1>5
<1> QED
  BY <1>1, <1>2, <1>3, <1>4, <1>5
  DEF Next, Environment, Enqueues, Fault, RequestShutdown, Crash,
      GraceElapses, SourceChanges, vars, frontierVars

\* All of which are operations of the queue.
LEMMA NextOperates ==
  ASSUME TypeOK, [Next]_vars
  PROVE  [Operation]_frontierVars
<1>1. ASSUME NEW w \in Owners, ClaimTasks(w)
      PROVE  Operation
  <2>1. PICK S \in Picks(w \in Backfill /\ pc[w] = "claim") : Claim(w, S)
    BY <1>1 DEF ClaimTasks
  <2>2. S \in SUBSET Tasks /\ \A t \in S : Claimable(t, FALSE)
    BY DEF Picks, Claimable
  <2> QED BY <2>1, <2>2 DEF Operation
<1>2. ASSUME NEW w \in Owners, EnqueueFound(w)
      PROVE  Operation
  <2>1. PICK k \in cur[w] : EnqueueAll(Unsaved(Children[k.task]), TRUE)
    BY <1>2 DEF EnqueueFound
  <2>2. Unsaved(Children[k.task]) \in SUBSET Tasks
    BY InHandType, WorkersAssumption DEF Unsaved
  <2> QED BY <2>1, <2>2 DEF Operation
<1>3. CASE Enqueues
  <2>1. ASSUME NEW t \in Tasks, NEW urgent \in BOOLEAN, Discover(t, urgent)
        PROVE  Operation
    <3>1. EnqueueAll({t}, urgent) /\ {t} \in SUBSET Tasks
      BY <2>1 DEF Discover
    <3> QED BY <3>1 DEF Operation
  <2>2. ASSUME NEW S \in SUBSET Tasks, NEW urgent \in BOOLEAN,
               EnqueueRefresh(S, urgent)
        PROVE  Operation
    BY <2>2 DEF EnqueueRefresh, Operation
  <2> QED BY <1>3, <2>1, <2>2 DEF Enqueues
<1>4. CASE [Touch]_frontierVars
  BY <1>4 DEF Touch, Operation
<1> QED BY <1>1, <1>2, <1>3, <1>4, NextTouches

\* The workers and everything around them use the queue by its operations only:
\* the system implements the queue's own specification.
THEOREM ImplementsFrontier == Spec => FrontierSpec
<1>1. Init => FrontierInit
  BY DEF Init
<1>2. TypeOK /\ [Next]_vars => [Operation]_frontierVars
  BY NextOperates
<1> QED BY <1>1, <1>2, TypeCorrect, PTL DEF Spec, FrontierSpec

\* So no task is lost, whatever the loops, the crashes and the leases do.
THEOREM NoTaskIsLost == Spec => []NoTaskLost
BY ImplementsFrontier, QueueLosesNothing, PTL

\* Only a claim hands out tokens.
LEMMA OnlyClaimGives ==
  ASSUME TypeOK, [Next]_vars, \A w \in Owners : ~ClaimTasks(w)
  PROVE  NoNewToken
<1> SUFFICES ASSUME NEW v \in Owners PROVE Tokens(v)' \subseteq Tokens(v)
  BY DEF NoNewToken
<1>t. held \in [Owners -> SUBSET Token] /\ cur \in [Owners -> SUBSET Token]
  BY DEF TypeOK
<1>1. CASE UNCHANGED <<held, cur>>
  BY <1>1 DEF Tokens
<1>2. ASSUME NEW w \in Owners, LoopStep(w), ~UNCHANGED <<held, cur>>
      PROVE  Tokens(v)' \subseteq Tokens(v)
  <2>1. CASE NextTask(w)
    BY <1>t, <2>1 DEF NextTask, Tokens
  <2>2. CASE ReleaseRest(w) \/ CloseLoop(w)
    BY <1>t, <2>2 DEF ReleaseRest, CloseLoop, Tokens
  <2>3. CASE Cancel(w)
    BY <1>t, <2>3 DEF Cancel, Tokens
  <2> QED
    BY <1>2, <2>1, <2>2, <2>3
    DEF LoopStep, ClaimNothing, LeaveLoop, StartBatch, LeaveBatch, EndBatch,
        ReadActivity, DrainBusy, DrainIdle, ReapOwner
<1>3. ASSUME NEW w \in Owners, FinishTask(w), UNCHANGED held
      PROVE  Tokens(v)' \subseteq Tokens(v)
  BY <1>t, <1>3 DEF FinishTask, Tokens
<1>4. ASSUME NEW w \in Owners, TaskStep(w), ~UNCHANGED <<held, cur>>
      PROVE  Tokens(v)' \subseteq Tokens(v)
  BY <1>3, <1>4
  DEF TaskStep, Extract, ExtendLease, Persist, EnqueueFound, CompleteRead,
      CompleteWrite, ScheduleRetry, FailRead, FailWrite, procVars, dataVars,
      frontierVars
<1>5. ASSUME NEW w \in Owners, Fault(w)
      PROVE  Tokens(v)' \subseteq Tokens(v)
  BY <1>t, <1>5 DEF Fault, Tokens
<1>6. ASSUME NEW p \in Procs, Crash(p)
      PROVE  Tokens(v)' \subseteq Tokens(v)
  BY <1>t, <1>6 DEF Crash, Tokens
<1> QED
  BY <1>1, <1>2, <1>4, <1>5, <1>6
  DEF Next, Environment, Heartbeat, RequestShutdown, GraceElapses, Discover,
      SourceChanges, LeaseExpires, DelayElapses, EnqueueRefresh,
      ReleaseStaleLeases, vars, loopVars

\* Ageing rows and no new token keep the fencing.
LEMMA AgeingKeepsLeaseInv ==
  ASSUME TypeOK, TypeOK', LeaseInv, RowsAge, NoNewToken
  PROVE  LeaseInv'
<1>1. RowsCounted'
  BY AgeingKeepsCount
<1>2. SingleHolder'
  BY DEF LeaseInv, SingleHolder, NoNewToken
<1>3. ASSUME NEW w \in Owners, NEW k \in Tokens(w)'
      PROVE  /\ k.id \in 1..births'[k.task]
             /\ frontier'[k.task].id = k.id
                  => k.attempt <= frontier'[k.task].attempt
             /\ Current(k)' => frontier'[k.task].owner \in {w, NoOwner}
  <2>1. k \in Tokens(w)
    BY DEF NoNewToken
  <2>2. k \in Token
    BY <2>1 DEF TypeOK, Tokens
  <2>3. /\ k.task \in Tasks /\ k.id \in Nat /\ k.attempt \in Nat
        /\ births[k.task] \in Nat /\ frontier[k.task].attempt \in Nat
    BY <2>2 DEF Token, TypeOK, FrontierType, Row
  <2>4. RowAges(k.task)
    BY <2>3 DEF RowsAge
  <2>5. /\ k.id \in 1..births[k.task]
        /\ frontier[k.task].id = k.id
             => k.attempt <= frontier[k.task].attempt
        /\ Current(k) => frontier[k.task].owner \in {w, NoOwner}
    BY <2>1 DEF LeaseInv, Fenced, CurrentOwner
  <2>6. k.id \in 1..births'[k.task]
    BY <2>3, <2>4, <2>5 DEF RowAges
  <2>7. ASSUME frontier'[k.task].id = k.id
        PROVE  /\ frontier[k.task].id = k.id
               /\ k.attempt <= frontier[k.task].attempt
               /\ frontier[k.task].attempt <= frontier'[k.task].attempt
               /\ frontier'[k.task].attempt = frontier[k.task].attempt
                    => frontier'[k.task].owner
                         \in {frontier[k.task].owner, NoOwner}
    BY <2>4, <2>5, <2>7 DEF RowAges
  <2>8. frontier'[k.task].attempt \in Nat
    BY <2>3 DEF TypeOK, FrontierType, Row
  <2>9. frontier'[k.task].id = k.id => k.attempt <= frontier'[k.task].attempt
    BY <2>3, <2>7, <2>8
  <2>10. ASSUME Current(k)'
         PROVE  frontier'[k.task].owner \in {w, NoOwner}
    <3>1. frontier'[k.task].id = k.id /\ frontier'[k.task].attempt = k.attempt
      BY <2>10 DEF Current
    <3>2. frontier[k.task].attempt = k.attempt
      BY <2>3, <2>7, <3>1
    <3>3. Current(k)
      BY <2>7, <3>1, <3>2 DEF Current
    <3> QED BY <2>5, <2>7, <3>1, <3>2, <3>3
  <2> QED BY <2>6, <2>9, <2>10
<1>4. Fenced' /\ CurrentOwner'
  BY <1>3 DEF Fenced, CurrentOwner
<1> QED BY <1>1, <1>2, <1>4 DEF LeaseInv

\* A claim keeps it: what it hands out is of the next attempt, which no token
\* can have.
LEMMA ClaimKeepsLeaseInv ==
  ASSUME TypeOK, TypeOK', LeaseInv, RowsAge, NEW w \in Owners, ClaimTasks(w)
  PROVE  LeaseInv'
<1>t. /\ held \in [Owners -> SUBSET Token] /\ cur \in [Owners -> SUBSET Token]
      /\ frontier \in [Tasks -> Row] /\ births \in [Tasks -> Nat]
  BY DEF TypeOK, FrontierType
<1>1. PICK S \in SUBSET Tasks :
        /\ \A t \in S : Queued(t)
        /\ Claim(w, S)
        /\ held' = [held EXCEPT ![w] = Claimed(S)]
  BY DEF ClaimTasks, Picks, Claimable
<1>2. UNCHANGED <<cur, births>>
  BY DEF ClaimTasks, Claim
<1>3. /\ Tokens(w)' \subseteq Claimed(S) \cup Tokens(w)
      /\ \A v \in Owners \ {w} : Tokens(v)' = Tokens(v)
  BY <1>t, <1>1, <1>2 DEF Tokens
\* A claimed token matches its new row exactly.
<1>4. ASSUME NEW k \in Claimed(S)
      PROVE  /\ k.task \in S /\ k \in Token
             /\ k.id = frontier[k.task].id
             /\ k.id \in 1..births[k.task]
             /\ k.attempt = frontier[k.task].attempt + 1
             /\ frontier'[k.task].id = k.id
             /\ frontier'[k.task].attempt = k.attempt
             /\ frontier'[k.task].owner = w
  <2>1. PICK t \in S : k = [task |-> t, id |-> frontier[t].id,
                            attempt |-> NextAttempt(t)]
    BY DEF Claimed
  <2>2. frontier[t] \in Row /\ frontier[t].id \in 1..births[t]
    BY <1>t, <1>1 DEF LeaseInv, RowsCounted, Queued, Row
  <2>3. k.task = t /\ k.id = frontier[t].id /\ k.attempt = NextAttempt(t)
    BY <2>1
  <2>4. /\ frontier'[t].id = frontier[t].id
        /\ frontier'[t].attempt = NextAttempt(t)
        /\ frontier'[t].owner = w
    BY <1>t, <1>1, <2>2 DEF Claim, Row
  <2>5. k \in Token
    BY <1>t, <1>1, ClaimedType DEF TypeOK
  <2> QED BY <2>2, <2>3, <2>4, <2>5 DEF NextAttempt
\* A token somebody had is of an older attempt of such a row.
<1>5. ASSUME NEW v \in Owners, NEW k \in Tokens(v)
      PROVE  k \notin Claimed(S)
  <2>1. /\ k \in Token /\ frontier[k.task] \in Row
        /\ frontier[k.task].id = k.id => k.attempt <= frontier[k.task].attempt
    BY <1>t DEF LeaseInv, Fenced, Tokens, Token
  <2> QED BY <1>4, <2>1 DEF Token, Row
<1>6. SingleHolder'
  <2> SUFFICES ASSUME NEW u \in Owners, NEW v \in Owners, u # v
               PROVE  Tokens(u)' \cap Tokens(v)' = {}
    BY DEF SingleHolder
  <2>1. Tokens(u) \cap Tokens(v) = {}
    BY DEF LeaseInv, SingleHolder
  <2>2. CASE u # w /\ v # w
    BY <1>3, <2>1, <2>2
  <2>3. CASE u = w
    BY <1>3, <1>5, <2>1, <2>3
  <2>4. CASE v = w
    BY <1>3, <1>5, <2>1, <2>4
  <2> QED BY <2>2, <2>3, <2>4
<1>7. ASSUME NEW v \in Owners, NEW k \in Tokens(v)
      PROVE  /\ k.id \in 1..births'[k.task]
             /\ frontier'[k.task].id = k.id
                  => k.attempt <= frontier'[k.task].attempt
             /\ Current(k)' => frontier'[k.task].owner \in {v, NoOwner}
  <2>1. /\ k \in Token /\ k.task \in Tasks /\ frontier[k.task] \in Row
        /\ k.id \in 1..births[k.task]
        /\ frontier[k.task].id = k.id => k.attempt <= frontier[k.task].attempt
        /\ Current(k) => frontier[k.task].owner \in {v, NoOwner}
    BY <1>t DEF LeaseInv, Fenced, CurrentOwner, Tokens, Token
  <2>2. CASE k.task \notin S
    <3>1. frontier'[k.task] = frontier[k.task]
      BY <1>1, <2>1, <2>2 DEF Claim
    <3> QED BY <1>2, <2>1, <3>1 DEF Current
  <2>3. CASE k.task \in S
    <3>1. /\ frontier'[k.task].id = frontier[k.task].id
          /\ frontier'[k.task].attempt = frontier[k.task].attempt + 1
      BY <1>1, <2>1, <2>3 DEF Claim, NextAttempt, Row
    <3>2. frontier[k.task].attempt \in Nat /\ k.attempt \in Nat
      BY <2>1 DEF Row, Token
    <3>3. ~Current(k)'
      BY <2>1, <3>1, <3>2 DEF Current
    <3> QED BY <1>2, <2>1, <3>1, <3>2, <3>3
  <2> QED BY <2>2, <2>3
<1>8. ASSUME NEW k \in Claimed(S)
      PROVE  /\ k.id \in 1..births'[k.task]
             /\ frontier'[k.task].id = k.id
                  => k.attempt <= frontier'[k.task].attempt
             /\ Current(k)' => frontier'[k.task].owner \in {w, NoOwner}
  <2>1. k.attempt \in Nat
    BY <1>4 DEF Token
  <2> QED BY <1>2, <1>4, <2>1
<1>9. Fenced' /\ CurrentOwner'
  <2>1. ASSUME NEW v \in Owners, NEW k \in Tokens(v)'
        PROVE  k \in Tokens(v) \/ (v = w /\ k \in Claimed(S))
    BY <1>3
  <2> QED BY <1>7, <1>8, <2>1 DEF Fenced, CurrentOwner
<1>10. RowsCounted'
  BY AgeingKeepsCount
<1> QED BY <1>6, <1>9, <1>10 DEF LeaseInv

\* No loop has a token at first.
LEMMA InitLeaseInv == Init => LeaseInv
<1> SUFFICES ASSUME Init PROVE LeaseInv
  OBVIOUS
<1>1. \A w \in Owners : Tokens(w) = {}
  BY DEF Init, Tokens
<1>2. RowsCounted
  BY InitRowsCounted DEF Init
<1> QED BY <1>1, <1>2 DEF LeaseInv, Fenced, CurrentOwner, SingleHolder

\* Every step keeps the fencing.
LEMMA NextLeaseInv ==
  ASSUME TypeOK, TypeOK', LeaseInv, [Next]_vars
  PROVE  LeaseInv'
<1>1. RowsAge
  BY NextOperates, OperationAges DEF TypeOK, LeaseInv
<1>2. CASE \E w \in Owners : ClaimTasks(w)
  BY <1>1, <1>2, ClaimKeepsLeaseInv
<1>3. CASE \A w \in Owners : ~ClaimTasks(w)
  BY <1>1, <1>3, OnlyClaimGives, AgeingKeepsLeaseInv
<1> QED BY <1>2, <1>3

\* The fencing holds in every reachable state.
THEOREM LeaseInvariant == Spec => []LeaseInv
<1>1. LeaseInv /\ TypeOK /\ TypeOK' /\ [Next]_vars => LeaseInv'
  BY NextLeaseInv
<1> QED BY <1>1, InitLeaseInv, TypeCorrect, PTL DEF Spec

\* Two loops never hold the same attempt of the same row, however leases run
\* out, loops crash and rows are claimed again: the fence complete, fail, retry
\* and extend_lease rely on.
THEOREM AttemptHeldOnce == Spec => []SingleHolder
<1>1. LeaseInv => SingleHolder
  BY DEF LeaseInv
<1> QED BY <1>1, LeaseInvariant, PTL

-----------------------------------------------------------------------------
\* Live leases.

\* A loop that gives a row back goes on; so a row under a live lease changes
\* hands only by a step of its owner.
LEMMA LeaseSpared ==
  ASSUME TypeOK, LeaseInv, [Next]_vars, NEW t \in Tasks, NEW w \in Owners,
         frontier[t].owner = w, frontier[t].lease = "live",
         frontier'[t].id = frontier[t].id, frontier'[t].owner # w
  PROVE  pc'[w] # pc[w]
<1>t. /\ frontier \in [Tasks -> Row] /\ births \in [Tasks -> Nat]
      /\ frontier[t] \in Row /\ pc \in [Owners -> Labels]
  BY DEF TypeOK, FrontierType, Labels
<1>w. w # NoOwner
  BY FrontierAssumption
\* What an operation may not have been.
<1>1. ASSUME NEW S \in SUBSET Tasks, NEW urgent \in BOOLEAN,
             EnqueueAll(S, urgent)
      PROVE  FALSE
  <2>1. CASE t \in S /\ ~Queued(t)
    <3>1. frontier'[t].id = births[t] + 1 /\ frontier[t].id = 0
      BY <1>1, <1>t, <2>1 DEF EnqueueAll, Upserted, Queued, NoRow
    <3>2. births[t] + 1 # 0
      BY <1>t
    <3> QED BY <3>1, <3>2
  <2>2. CASE ~(t \in S /\ ~Queued(t))
    BY <1>1, <1>t, <2>2 DEF EnqueueAll, Upserted, Row
  <2> QED BY <2>1, <2>2
<1>2. ASSUME NEW v \in Owners, ClaimTasks(v)
      PROVE  FALSE
  <2>1. PICK S \in SUBSET Tasks :
          Claim(v, S) /\ \A u \in S : frontier[u].lease # "live"
    BY <1>2 DEF ClaimTasks, Picks, Claimable
  <2> QED BY <2>1 DEF Claim
<1>3. ASSUME NEW k \in Token, Extend(k)
      PROVE  FALSE
  <2>1. frontier'[t].owner = frontier[t].owner
    BY <1>3, <1>t DEF Extend, Row, Token
  <2> QED BY <2>1
<1>4. ASSUME NEW v \in Owners, NEW k \in cur[v], NEW outcome \in Outcomes,
             Remove(k, outcome)
      PROVE  FALSE
  <2>1. k \in Token /\ k.task \in Tasks /\ k.id \in 1..births[k.task]
    BY InHandType DEF LeaseInv, Fenced, Tokens
  <2>2. frontier'[t] = frontier[t] \/ (frontier[t].id = k.id /\ t = k.task
                                         /\ frontier'[t] = NoRow)
    BY <1>4, <1>t, <2>1 DEF Remove
  <2> QED BY <1>t, <2>1, <2>2 DEF NoRow
<1>5. ASSUME NEW u \in Tasks, LeaseRunsOut(u) \/ BecomeDue(u)
      PROVE  FALSE
  BY <1>5, <1>t DEF LeaseRunsOut, BecomeDue, Row
<1>6. ASSUME NEW S \in SUBSET Tasks, UnleaseAll(S)
      PROVE  t \in S
  BY <1>6, <1>t DEF UnleaseAll
\* Which leaves the steps that give rows back.
<1>7. ASSUME NEW v \in Owners, LoopStep(v)
      PROVE  pc'[w] # pc[w]
  <2>1. CASE ReleaseRest(v)
    <3>1. RowsOfOwner(v, held[v]) \in SUBSET Tasks /\ v = w
      BY <1>6, <2>1 DEF ReleaseRest, Release, RowsOfOwner, OwnedBy
    <3> QED BY <1>t, <2>1, <3>1 DEF ReleaseRest, Goto, At
  <2>2. CASE CloseLoop(v)
    <3>1. v = w
      BY <1>6, <2>2 DEF CloseLoop, ReleaseByOwner, OwnedBy
    <3> QED BY <1>t, <2>2, <3>1 DEF CloseLoop, Goto, At
  <2>3. CASE ReapOwner(v)
    <3>1. v = w
      BY <1>6, <2>3 DEF ReapOwner, ReleaseByOwner, OwnedBy, frontierVars
    <3> QED BY <1>t, <2>3, <3>1 DEF ReapOwner, Goto, At
  <2> QED
    BY <1>2, <1>7, <2>1, <2>2, <2>3
    DEF LoopStep, ClaimNothing, LeaveLoop, StartBatch, NextTask, LeaveBatch,
        EndBatch, ReadActivity, DrainBusy, DrainIdle, Cancel, frontierVars
<1>8. ASSUME NEW v \in Owners, TaskStep(v)
      PROVE  pc'[w] # pc[w]
  <2>1. CASE ScheduleRetry(v)
    <3>1. PICK k \in cur[v] : Retry(k)
      BY <2>1 DEF ScheduleRetry
    <3>2. k \in Token /\ k.task \in Tasks
      BY InHandType
    <3>3. k.task = t /\ Current(k)
      BY <1>t, <3>1, <3>2 DEF Retry
    <3>4. frontier[t].owner \in {v, NoOwner}
      BY <3>3 DEF LeaseInv, CurrentOwner, Tokens
    <3>5. v = w
      BY <1>w, <3>4
    <3> QED BY <1>t, <2>1, <3>5 DEF ScheduleRetry, FinishTask, Goto, At
  <2>2. CASE ExtendLease(v)
    BY <1>3, <2>2, InHandType DEF ExtendLease, frontierVars
  <2>3. CASE EnqueueFound(v)
    <3>1. PICK k \in cur[v] : EnqueueAll(Unsaved(Children[k.task]), TRUE)
      BY <2>3 DEF EnqueueFound
    <3>2. Unsaved(Children[k.task]) \in SUBSET Tasks
      BY InHandType, WorkersAssumption DEF Unsaved
    <3> QED BY <1>1, <3>1, <3>2
  <2>4. CASE CompleteWrite(v) \/ FailWrite(v)
    BY <1>4, <2>4 DEF CompleteWrite, FailWrite, Outcomes
  <2> QED
    BY <1>8, <2>1, <2>2, <2>3, <2>4
    DEF TaskStep, Extract, Persist, CompleteRead, FailRead, frontierVars
<1>9. ASSUME NEW v \in Owners, Heartbeat(v)
      PROVE  FALSE
  BY <1>3, <1>9, InHandType DEF Heartbeat
<1>10. ASSUME Environment
       PROVE  FALSE
  <2>1. ASSUME NEW u \in Tasks, NEW urgent \in BOOLEAN, Discover(u, urgent)
        PROVE  FALSE
    <3>1. EnqueueAll({u}, urgent) /\ {u} \in SUBSET Tasks
      BY <2>1 DEF Discover
    <3> QED BY <1>1, <3>1
  <2>2. ASSUME NEW S \in SUBSET Tasks, NEW urgent \in BOOLEAN,
               EnqueueRefresh(S, urgent)
        PROVE  FALSE
    BY <1>1, <2>2 DEF EnqueueRefresh
  <2>3. ASSUME NEW u \in Tasks, LeaseExpires(u) \/ DelayElapses(u)
        PROVE  FALSE
    BY <1>5, <2>3 DEF LeaseExpires, DelayElapses
  <2>4. ASSUME ReleaseStaleLeases
        PROVE  FALSE
    BY <1>6, <2>4 DEF ReleaseStaleLeases, ReleaseStale, StaleLeases
  <2> QED
    BY <1>10, <2>1, <2>2, <2>3, <2>4
    DEF Environment, RequestShutdown, Crash, GraceElapses, SourceChanges,
        frontierVars
<1> QED
  BY <1>7, <1>8, <1>9, <1>10 DEF Next, Fault, vars, frontierVars

\* A loop that works from an older claim cannot take a live lease from the loop
\* that holds it now.
THEOREM LiveLeaseExclusive == Spec => LiveLeaseIsExclusive
<1>1. TypeOK /\ LeaseInv /\ [Next]_vars =>
        \A t \in Tasks : \A w \in Owners :
          /\ frontier[t].owner = w
          /\ frontier[t].lease = "live"
          /\ frontier'[t].id = frontier[t].id
          /\ frontier'[t].owner # w
          => pc'[w] # pc[w]
  BY LeaseSpared
<1> QED
  BY <1>1, TypeCorrect, LeaseInvariant, PTL DEF Spec, LiveLeaseIsExclusive

-----------------------------------------------------------------------------
\* Successes are durable: what makes SuccessIsDurable inductive.

\* Positions that follow the choice of a task, its extraction, its persistence
\* and the enqueuing of what it discovered.
Started   == {"extract", "extend", "persist", "enqueue"}
Extracted == {"extend", "persist"}
Persisted == {"enqueue", "select", "delete"}
Enqueued  == {"select", "delete"}

\* What a task discovers has been queued once or persisted.
ChildrenKnown(t) == \A c \in Children[t] : births[c] > 0 \/ saved[c] > 0

SourcePublishes == \A t \in Tasks : source[t] > 0

\* A loop has one task in hand, has read something before it persists, has
\* persisted before it enqueues and has enqueued before it completes.
InOrder(w) ==
  /\ pc[w] \in Started => \A j, k \in cur[w] : j = k
  /\ pc[w] \in Extracted => seen[w] > 0
  /\ pc[w] \in Persisted => cur[w] \subseteq effects
  /\ pc[w] \in Enqueued => \A k \in cur[w] : ChildrenKnown(k.task)

DurableInv ==
  SourcePublishes /\ SuccessIsDurable /\ \A w \in Owners : InOrder(w)

\* What was persisted or queued once stays so.
Grows ==
  /\ effects \subseteq effects'
  /\ \A t \in Tasks :
       /\ births[t] <= births'[t]
       /\ saved[t] > 0 => saved'[t] > 0
       /\ source[t] <= source'[t]

\* A loop is where it was, with what it had, or has just chosen a task, or is
\* not on its way to a success.
Bystander(v) ==
  \/ pc'[v] = pc[v] /\ cur'[v] = cur[v] /\ seen'[v] = seen[v]
  \/ pc'[v] = "extract" /\ \E k : cur'[v] = {k}
  \/ pc'[v] \notin Started \cup Persisted

\* Growth keeps the discoveries of a task known.
LEMMA GrowthKeepsChildren ==
  ASSUME TypeOK, TypeOK', Grows, NEW t \in Tasks, ChildrenKnown(t)
  PROVE  ChildrenKnown(t)'
<1> SUFFICES ASSUME NEW c \in Children[t]
             PROVE  births'[c] > 0 \/ saved'[c] > 0
  BY DEF ChildrenKnown
<1>1. c \in Tasks
  BY WorkersAssumption
<1>2. births[c] \in Nat /\ births'[c] \in Nat
  BY <1>1 DEF TypeOK, FrontierType
<1> QED BY <1>1, <1>2 DEF Grows, ChildrenKnown

\* Growth keeps a loop in order that is none of the step's business.
LEMMA BystanderInOrder ==
  ASSUME TypeOK, TypeOK', Grows, NEW v \in Owners, InOrder(v), Bystander(v)
  PROVE  InOrder(v)'
<1>1. CASE pc'[v] \notin Started \cup Persisted
  BY <1>1 DEF InOrder, Started, Extracted, Enqueued, Persisted
<1>3. CASE pc'[v] = "extract" /\ \E k : cur'[v] = {k}
  BY <1>3 DEF InOrder, Started, Extracted, Enqueued, Persisted
<1>2. CASE pc'[v] = pc[v] /\ cur'[v] = cur[v] /\ seen'[v] = seen[v]
  <2>1. \A k \in cur[v] : ChildrenKnown(k.task) => ChildrenKnown(k.task)'
    BY InHandType, GrowthKeepsChildren
  <2> QED BY <1>2, <2>1 DEF InOrder, Grows
<1> QED BY <1>1, <1>2, <1>3 DEF Bystander

\* Growth keeps the successes durable, unless a success is added.
LEMMA GrowthKeepsDurable ==
  ASSUME TypeOK, TypeOK', Grows, SuccessIsDurable,
         \A h \in history' \ history : h.outcome # "success"
  PROVE  SuccessIsDurable'
<1> SUFFICES ASSUME NEW h \in history', h.outcome = "success"
             PROVE  /\ [task |-> h.task, id |-> h.id, attempt |-> h.attempt]
                         \in effects'
                    /\ ChildrenKnown(h.task)'
  BY DEF SuccessIsDurable, ChildrenKnown
<1>1. h \in history /\ h.task \in Tasks
  BY DEF TypeOK, FrontierType, Record
<1>2. ChildrenKnown(h.task)
  BY <1>1 DEF SuccessIsDurable, ChildrenKnown
<1> QED BY <1>1, <1>2, GrowthKeepsChildren DEF SuccessIsDurable, Grows

\* A step of bystanders keeps all of it.
LEMMA BystandersKeepDurableInv ==
  ASSUME TypeOK, TypeOK', DurableInv, Grows,
         \A h \in history' \ history : h.outcome # "success",
         \A v \in Owners : Bystander(v)
  PROVE  DurableInv'
<1>1. SourcePublishes'
  <2>1. \A t \in Tasks : source[t] \in Nat /\ source'[t] \in Nat
    BY DEF TypeOK
  <2> QED BY <2>1 DEF DurableInv, SourcePublishes, Grows
<1>2. \A v \in Owners : InOrder(v)'
  BY BystanderInOrder DEF DurableInv
<1>3. SuccessIsDurable'
  BY GrowthKeepsDurable DEF DurableInv
<1> QED BY <1>1, <1>2, <1>3 DEF DurableInv

\* The steps of _process_task that lead to a success.
Advance(w) ==
  \/ Extract(w) \/ ExtendLease(w) \/ Persist(w) \/ EnqueueFound(w)
  \/ CompleteRead(w) \/ CompleteWrite(w)

\* Only _process_task persists.
LEMMA PersistSaves ==
  ASSUME [Next]_vars
  PROVE  \/ UNCHANGED <<saved, effects>>
         \/ \E w \in Owners : Persist(w)
BY DEF Next, LoopStep, TaskStep, Environment, ClaimTasks, ClaimNothing,
       LeaveLoop, StartBatch, NextTask, LeaveBatch, EndBatch, ReadActivity,
       DrainBusy, DrainIdle, ReleaseRest, CloseLoop, ReapOwner, Cancel,
       Extract, ExtendLease, EnqueueFound, CompleteRead, CompleteWrite,
       ScheduleRetry, FailRead, FailWrite, Heartbeat, Fault,
       RequestShutdown, Crash, GraceElapses, Discover, SourceChanges,
       LeaseExpires, DelayElapses, EnqueueRefresh, ReleaseStaleLeases,
       dataVars, vars

\* Persistence and the queue only grow.
LEMMA NextGrows ==
  ASSUME TypeOK, TypeOK', LeaseInv, DurableInv, [Next]_vars
  PROVE  Grows
<1>1. \A t \in Tasks : births[t] <= births'[t]
  BY NextOperates, OperationAges DEF TypeOK, LeaseInv, RowsAge, RowAges
<1>2. \/ UNCHANGED <<saved, effects>>
      \/ \E w \in Owners : Persist(w)
  BY PersistSaves
<1>3. \/ UNCHANGED source
      \/ \E t \in Tasks : SourceChanges(t)
  BY DEF Next, LoopStep, TaskStep, Environment, ClaimTasks, ClaimNothing,
         LeaveLoop, StartBatch, NextTask, LeaveBatch, EndBatch, ReadActivity,
         DrainBusy, DrainIdle, ReleaseRest, CloseLoop, ReapOwner, Cancel,
         Extract, ExtendLease, Persist, EnqueueFound, CompleteRead,
         CompleteWrite, ScheduleRetry, FailRead, FailWrite, Heartbeat, Fault,
         RequestShutdown, Crash, GraceElapses, Discover, LeaseExpires,
         DelayElapses, EnqueueRefresh, ReleaseStaleLeases, dataVars, vars
<1>4. \A t \in Tasks : source[t] <= source'[t]
  <2>1. source \in [Tasks -> Nat]
    BY DEF TypeOK
  <2> QED BY <1>3, <2>1 DEF SourceChanges
<1>5. effects \subseteq effects' /\ \A t \in Tasks : saved[t] > 0 => saved'[t] > 0
  <2>1. CASE UNCHANGED <<saved, effects>>
    BY <2>1
  <2>2. ASSUME NEW w \in Owners, Persist(w)
        PROVE  /\ effects \subseteq effects'
               /\ \A t \in Tasks : saved[t] > 0 => saved'[t] > 0
    <3>1. seen[w] > 0
      BY <2>2 DEF DurableInv, InOrder, Extracted, Persist, At
    <3>2. PICK k \in cur[w] : /\ saved' = [saved EXCEPT ![k.task] = seen[w]]
                              /\ effects' = effects \cup {k}
      BY <2>2 DEF Persist
    <3>3. k.task \in Tasks /\ saved \in [Tasks -> Nat]
      BY InHandType DEF TypeOK
    <3> QED BY <3>1, <3>2, <3>3
  <2> QED BY <1>2, <2>1, <2>2
<1> QED BY <1>1, <1>4, <1>5 DEF Grows

\* The other steps of a loop outside _process_task lead away from a success.
LEMMA LoopStepStandsBy ==
  ASSUME TypeOK, NEW w \in Owners, LoopStep(w)
  PROVE  /\ history' = history
         /\ \A v \in Owners : Bystander(v)
<1>t. /\ pc \in [Owners -> Labels] /\ cur \in [Owners -> SUBSET Token]
      /\ seen \in [Owners -> Nat]
  BY DEF TypeOK, Labels
<1>1. ASSUME NEW label, Goto(w, label), label \notin Started \cup Persisted,
             \A v \in Owners \ {w} : cur'[v] = cur[v] /\ seen'[v] = seen[v]
      PROVE  \A v \in Owners : Bystander(v)
  BY <1>t, <1>1 DEF Goto, Bystander
<1>2. ASSUME UNCHANGED <<cur, seen>>
      PROVE  \A v \in Owners \ {w} : cur'[v] = cur[v] /\ seen'[v] = seen[v]
  BY <1>2
<1>3. CASE ClaimTasks(w)
  BY <1>1, <1>2, <1>3 DEF ClaimTasks, Claim, Started, Persisted
<1>4. CASE ClaimNothing(w)
  <2>1. AfterEmptyClaim(w) \notin Started \cup Persisted
    BY DEF AfterEmptyClaim, Started, Persisted
  <2> QED BY <1>1, <1>2, <1>4, <2>1 DEF ClaimNothing, frontierVars
<1>5. CASE LeaveLoop(w) \/ StartBatch(w) \/ LeaveBatch(w)
  BY <1>1, <1>2, <1>5
  DEF LeaveLoop, StartBatch, LeaveBatch, Started, Persisted, frontierVars
<1>6. CASE NextTask(w)
  <2>1. \A v \in Owners \ {w} : /\ pc'[v] = pc[v] /\ cur'[v] = cur[v]
                                /\ seen'[v] = seen[v]
    BY <1>t, <1>6 DEF NextTask, Goto
  <2>2. pc'[w] = "extract" /\ \E k : cur'[w] = {k}
    BY <1>t, <1>6 DEF NextTask, Goto
  <2> QED BY <1>6, <2>1, <2>2 DEF NextTask, frontierVars, Bystander
<1>7. CASE EndBatch(w) \/ ReadActivity(w)
  BY <1>1, <1>2, <1>7
  DEF EndBatch, ReadActivity, Started, Persisted, frontierVars
<1>8. CASE DrainBusy(w) \/ DrainIdle(w)
  BY <1>1, <1>2, <1>8
  DEF DrainBusy, DrainIdle, Started, Persisted, frontierVars
<1>9. CASE ReleaseRest(w) \/ CloseLoop(w) \/ ReapOwner(w)
  BY <1>1, <1>2, <1>9
  DEF ReleaseRest, Release, CloseLoop, ReapOwner, ReleaseByOwner, UnleaseAll,
      Started, Persisted, frontierVars
<1>10. CASE Cancel(w)
  <2>1. \A v \in Owners \ {w} : cur'[v] = cur[v] /\ seen'[v] = seen[v]
    BY <1>t, <1>10 DEF Cancel
  <2> QED BY <1>1, <1>10, <2>1 DEF Cancel, Started, Persisted, frontierVars
<1> QED
  BY <1>3, <1>4, <1>5, <1>6, <1>7, <1>8, <1>9, <1>10 DEF LoopStep

\* So do the steps of _process_task that are no advance, heartbeats, failed
\* calls and everything the environment does.
LEMMA OthersStandBy ==
  ASSUME TypeOK, [Next]_vars, \A w \in Owners : ~Advance(w)
  PROVE  /\ \A h \in history' \ history : h.outcome # "success"
         /\ \A v \in Owners : Bystander(v)
<1>t. /\ pc \in [Owners -> Labels] /\ cur \in [Owners -> SUBSET Token]
      /\ seen \in [Owners -> Nat]
  BY DEF TypeOK, Labels
<1>1. CASE UNCHANGED loopVars /\ history' = history
  BY <1>1 DEF loopVars, Bystander
<1>2. ASSUME NEW w \in Owners, FinishTask(w)
      PROVE  \A v \in Owners : Bystander(v)
  BY <1>t, <1>2 DEF FinishTask, Goto, Bystander, Started, Persisted
<1>3. ASSUME NEW w \in Owners, ScheduleRetry(w)
      PROVE  history' = history /\ \A v \in Owners : Bystander(v)
  BY <1>2, <1>3 DEF ScheduleRetry, Retry
<1>4. ASSUME NEW w \in Owners, FailRead(w)
      PROVE  history' = history /\ \A v \in Owners : Bystander(v)
  <2>1. CASE Goto(w, "faildelete") /\ UNCHANGED <<cur, seen>>
    BY <1>t, <1>4, <2>1
    DEF FailRead, Goto, Bystander, Started, Persisted, frontierVars
  <2>2. CASE FinishTask(w)
    BY <1>2, <1>4, <2>2 DEF FailRead, frontierVars
  <2> QED BY <1>4, <2>1, <2>2 DEF FailRead
<1>5. ASSUME NEW w \in Owners, FailWrite(w)
      PROVE  /\ \A h \in history' \ history : h.outcome # "success"
             /\ \A v \in Owners : Bystander(v)
  BY <1>2, <1>5 DEF FailWrite, Remove
<1>6. ASSUME NEW w \in Owners, Fault(w)
      PROVE  history' = history /\ \A v \in Owners : Bystander(v)
  <2>1. pc'[w] \notin Started \cup Persisted
    BY <1>t, <1>6 DEF Fault, Goto, Started, Persisted
  <2>2. \A v \in Owners \ {w} : /\ pc'[v] = pc[v] /\ cur'[v] = cur[v]
                                /\ seen'[v] = seen[v]
    BY <1>t, <1>6 DEF Fault, Goto
  <2> QED BY <1>6, <2>1, <2>2 DEF Fault, frontierVars, Bystander
<1>7. ASSUME NEW p \in Procs, Crash(p)
      PROVE  history' = history /\ \A v \in Owners : Bystander(v)
  <2>1. ASSUME NEW v \in Owners
        PROVE  Bystander(v)
    BY <1>t, <1>7 DEF Crash, Bystander, Started, Persisted
  <2> QED BY <1>7, <2>1 DEF Crash, frontierVars
<1>8. ASSUME NEW w \in Owners, LoopStep(w)
      PROVE  history' = history /\ \A v \in Owners : Bystander(v)
  BY <1>8, LoopStepStandsBy
<1>9. ASSUME NEW w \in Owners, Heartbeat(w)
      PROVE  UNCHANGED loopVars /\ history' = history
  BY <1>9 DEF Heartbeat, Extend
<1>10. ASSUME Environment, \A p \in Procs : ~Crash(p)
       PROVE  UNCHANGED loopVars /\ history' = history
  BY <1>10
  DEF Environment, RequestShutdown, GraceElapses, Discover, SourceChanges,
      LeaseExpires, DelayElapses, EnqueueRefresh, ReleaseStaleLeases,
      EnqueueAll, LeaseRunsOut, BecomeDue, ReleaseStale, UnleaseAll,
      frontierVars
<1> QED
  BY <1>1, <1>3, <1>4, <1>5, <1>6, <1>7, <1>8, <1>9, <1>10
  DEF Next, TaskStep, Advance, vars, frontierVars

\* A step towards a success keeps its loop in order, and a success it adds is
\* durable.
LEMMA AdvanceKeepsDurableInv ==
  ASSUME TypeOK, TypeOK', LeaseInv, DurableInv, Grows,
         NEW w \in Owners, Advance(w)
  PROVE  DurableInv'
<1>t. /\ pc \in [Owners -> Labels] /\ cur \in [Owners -> SUBSET Token]
      /\ seen \in [Owners -> Nat]
  BY DEF TypeOK, Labels
<1>o. InOrder(w)
  BY DEF DurableInv
<1>1. \A v \in Owners \ {w} : /\ pc'[v] = pc[v] /\ cur'[v] = cur[v]
                              /\ seen'[v] = seen[v]
  BY <1>t
  DEF Advance, Extract, ExtendLease, Persist, EnqueueFound, CompleteRead,
      CompleteWrite, FinishTask, Goto
<1>2. \A v \in Owners \ {w} : InOrder(v)'
  BY <1>1, BystanderInOrder DEF DurableInv, Bystander
<1>3. SourcePublishes'
  <2>1. \A t \in Tasks : source[t] \in Nat /\ source'[t] \in Nat
    BY DEF TypeOK
  <2> QED BY <2>1 DEF DurableInv, SourcePublishes, Grows
<1>4. ASSUME FinishTask(w)
      PROVE  InOrder(w)'
  BY <1>t, <1>4
  DEF FinishTask, Goto, InOrder, Started, Extracted, Persisted,
      Enqueued
<1>5. CASE Extract(w)
  <2>1. InOrder(w)'
    <3>1. CASE pc'[w] = "extend"
      <4>1. PICK k \in cur[w] : seen' = [seen EXCEPT ![w] = source[k.task]]
        BY <1>t, <1>5, <3>1 DEF Extract, Goto
      <4>2. seen'[w] > 0
        BY <1>t, <4>1, InHandType DEF DurableInv, SourcePublishes
      <4>3. \A j, k2 \in cur'[w] : j = k2
        BY <1>o, <1>5 DEF Extract, At, InOrder, Started
      <4> QED BY <3>1, <4>2, <4>3
          DEF InOrder, Started, Extracted, Persisted, Enqueued
    <3>2. CASE pc'[w] # "extend"
      <4>1. pc'[w] \in {"blocked", "missing", "error"}
        BY <1>t, <1>5, <3>2 DEF Extract, Goto
      <4> QED BY <4>1 DEF InOrder, Started, Extracted, Persisted,
      Enqueued
    <3> QED BY <3>1, <3>2
  <2>2. history' = history
    BY <1>5 DEF Extract, frontierVars
  <2> QED BY <1>2, <1>3, <2>1, <2>2, GrowthKeepsDurable DEF DurableInv
<1>6. CASE ExtendLease(w)
  <2>1. InOrder(w)'
    <3>1. CASE Goto(w, "persist") /\ UNCHANGED <<cur, seen>>
      BY <1>t, <1>o, <1>6, <3>1
      DEF ExtendLease, At, Goto, InOrder, Started, Extracted, Persisted,
      Enqueued
    <3> QED BY <1>4, <1>6, <3>1 DEF ExtendLease
  <2>2. history' = history
    BY <1>6 DEF ExtendLease, Extend, frontierVars
  <2> QED BY <1>2, <1>3, <2>1, <2>2, GrowthKeepsDurable DEF DurableInv
<1>7. CASE Persist(w)
  <2>1. cur[w] \subseteq effects'
    <3>1. PICK k \in cur[w] : effects' = effects \cup {k}
      BY <1>7 DEF Persist
    <3>2. \A j \in cur[w] : j = k
      BY <1>o, <1>7 DEF Persist, At, InOrder, Started
    <3> QED BY <3>1, <3>2
  <2>2. InOrder(w)'
    BY <1>t, <1>o, <1>7, <2>1
    DEF Persist, At, Goto, InOrder, Started, Extracted, Persisted, Enqueued
  <2>3. history' = history
    BY <1>7 DEF Persist, frontierVars
  <2> QED BY <1>2, <1>3, <2>2, <2>3, GrowthKeepsDurable DEF DurableInv
<1>8. CASE EnqueueFound(w)
  <2>1. PICK k \in cur[w] : EnqueueAll(Unsaved(Children[k.task]), TRUE)
    BY <1>8 DEF EnqueueFound
  <2>2. cur' = cur /\ seen' = seen /\ saved' = saved /\ effects' = effects
    BY <1>8 DEF EnqueueFound, dataVars
  <2>3. \A j \in cur[w] : j = k
    BY <1>o, <1>8 DEF EnqueueFound, At, InOrder, Started
  <2>4. ChildrenKnown(k.task)'
    <3> SUFFICES ASSUME NEW c \in Children[k.task], ~(saved'[c] > 0)
                 PROVE  births'[c] > 0
      BY DEF ChildrenKnown
    <3>1. c \in Tasks /\ saved[c] \in Nat /\ births[c] \in Nat
      BY InHandType, WorkersAssumption DEF TypeOK, FrontierType
    <3>2. c \in Unsaved(Children[k.task])
      BY <2>2, <3>1 DEF Unsaved
    <3>3. CASE ~Queued(c)
      BY <2>1, <3>1, <3>2, <3>3 DEF EnqueueAll
    <3>4. CASE Queued(c)
      <4>1. frontier[c].id \in 0..births[c] /\ frontier[c].id # 0
        BY <3>1, <3>4 DEF LeaseInv, RowsCounted, Queued
      <4>2. births'[c] = births[c]
        BY <2>1, <3>1, <3>4 DEF EnqueueAll
      <4> QED BY <3>1, <4>1, <4>2
    <3> QED BY <3>3, <3>4
  <2>5. InOrder(w)'
    BY <1>t, <1>o, <1>8, <2>2, <2>3, <2>4
    DEF EnqueueFound, At, Goto, InOrder, Started, Extracted, Persisted,
        Enqueued
  <2>6. history' = history
    BY <2>1 DEF EnqueueAll
  <2> QED BY <1>2, <1>3, <2>5, <2>6, GrowthKeepsDurable DEF DurableInv
<1>9. CASE CompleteRead(w)
  <2>1. InOrder(w)'
    <3>1. CASE Goto(w, "delete") /\ UNCHANGED <<cur, seen>>
      <4>1. \A k \in cur[w] : ChildrenKnown(k.task)'
        BY <1>o, <1>9, InHandType, GrowthKeepsChildren
        DEF CompleteRead, At, InOrder, Enqueued
      <4>2. cur[w] \subseteq effects'
        BY <1>o, <1>9 DEF CompleteRead, At, InOrder, Persisted, Grows
      <4> QED BY <1>t, <3>1, <4>1, <4>2
          DEF Goto, InOrder, Started, Extracted, Persisted, Enqueued
    <3> QED BY <1>4, <1>9, <3>1 DEF CompleteRead
  <2>2. history' = history
    BY <1>9 DEF CompleteRead, frontierVars
  <2> QED BY <1>2, <1>3, <2>1, <2>2, GrowthKeepsDurable DEF DurableInv
<1>10. CASE CompleteWrite(w)
  <2>1. PICK k \in cur[w] : Remove(k, "success")
    BY <1>10 DEF CompleteWrite
  <2>2. k \in Token /\ k \in effects' /\ ChildrenKnown(k.task)'
    BY <1>o, <1>10, InHandType, GrowthKeepsChildren
    DEF CompleteWrite, At, InOrder, Persisted, Enqueued, Grows
  <2>3. SuccessIsDurable'
    <3> SUFFICES ASSUME NEW h \in history', h.outcome = "success"
                 PROVE  /\ [task |-> h.task, id |-> h.id,
                            attempt |-> h.attempt] \in effects'
                        /\ ChildrenKnown(h.task)'
      BY DEF SuccessIsDurable, ChildrenKnown
    <3>1. CASE h \in history
      <4>1. /\ h.task \in Tasks /\ ChildrenKnown(h.task)
            /\ [task |-> h.task, id |-> h.id, attempt |-> h.attempt]
                 \in effects
        BY <3>1 DEF DurableInv, SuccessIsDurable, ChildrenKnown, TypeOK,
                    FrontierType, Record
      <4> QED BY <4>1, GrowthKeepsChildren DEF Grows
    <3>2. CASE h \notin history
      <4>1. h = [task |-> k.task, id |-> k.id, attempt |-> k.attempt,
                 outcome |-> "success"]
        BY <2>1, <3>2 DEF Remove
      <4>2. h.task = k.task /\ h.id = k.id /\ h.attempt = k.attempt
        BY <4>1
      <4>3. [task |-> h.task, id |-> h.id, attempt |-> h.attempt] = k
        BY <2>2, <4>2 DEF Token
      <4> QED BY <2>2, <4>2, <4>3
    <3> QED BY <3>1, <3>2
  <2>4. InOrder(w)'
    BY <1>4, <1>10 DEF CompleteWrite
  <2> QED BY <1>2, <1>3, <2>3, <2>4 DEF DurableInv
<1> QED BY <1>5, <1>6, <1>7, <1>8, <1>9, <1>10 DEF Advance

\* The loops keep to this order in every reachable state.
THEOREM DurableInvariant == Spec => []DurableInv
<1>1. Init => DurableInv
  <2> SUFFICES ASSUME Init PROVE DurableInv
    OBVIOUS
  <2>1. SourcePublishes
    BY DEF Init, SourcePublishes
  <2>2. SuccessIsDurable
    BY DEF Init, FrontierInit, SuccessIsDurable
  <2>3. \A w \in Owners : InOrder(w)
    BY DEF Init, InOrder, Started, Extracted, Persisted, Enqueued
  <2> QED BY <2>1, <2>2, <2>3 DEF DurableInv
<1>2. TypeOK /\ TypeOK' /\ LeaseInv /\ DurableInv /\ [Next]_vars => DurableInv'
  <2> SUFFICES ASSUME TypeOK, TypeOK', LeaseInv, DurableInv, [Next]_vars
               PROVE  DurableInv'
    OBVIOUS
  <2>1. Grows
    BY NextGrows
  <2>2. CASE \E w \in Owners : Advance(w)
    BY <2>1, <2>2, AdvanceKeepsDurableInv
  <2>3. CASE \A w \in Owners : ~Advance(w)
    BY <2>1, <2>3, OthersStandBy, BystandersKeepDurableInv
  <2> QED BY <2>2, <2>3
<1> QED BY <1>1, <1>2, TypeCorrect, LeaseInvariant, PTL DEF Spec

\* A success in the history is of an attempt whose content was committed, and
\* all it discovered has been queued or persisted, in every reachable state: a
\* crash between persist, enqueue and complete leaves nothing half done.
THEOREM SuccessesAreDurable == Spec => []SuccessIsDurable
<1>1. DurableInv => SuccessIsDurable
  BY DEF DurableInv
<1> QED BY <1>1, DurableInvariant, PTL

-----------------------------------------------------------------------------
\* Stopped loops.

\* A row is owned by whom it was owned by, or by nobody.
OwnersKept ==
  \A t \in Tasks : frontier'[t].owner # NoOwner =>
    /\ frontier'[t].owner = frontier[t].owner
    /\ frontier'[t].id = frontier[t].id

\* Touching a row gives it to nobody.
LEMMA TouchKeepsOwners ==
  ASSUME FrontierType, [Touch]_frontierVars
  PROVE  OwnersKept
<1> SUFFICES ASSUME NEW t \in Tasks, frontier'[t].owner # NoOwner
             PROVE  /\ frontier'[t].owner = frontier[t].owner
                    /\ frontier'[t].id = frontier[t].id
  BY DEF OwnersKept
<1>t. frontier \in [Tasks -> Row] /\ frontier[t] \in Row
  BY DEF FrontierType
<1>1. ASSUME NEW S \in SUBSET Tasks, UnleaseAll(S)
      PROVE  frontier'[t] = frontier[t]
  <2>1. frontier'[t] = IF t \in S THEN Unleased(t) ELSE frontier[t]
    BY <1>1 DEF UnleaseAll
  <2>2. Unleased(t).owner = NoOwner
    BY <1>t DEF Unleased, Row
  <2> QED BY <2>1, <2>2
<1>2. ASSUME NEW k \in Token, Extend(k)
      PROVE  /\ frontier'[t].owner = frontier[t].owner
             /\ frontier'[t].id = frontier[t].id
  BY <1>t, <1>2 DEF Extend, Row, Token
<1>3. ASSUME NEW k \in Token, Retry(k)
      PROVE  frontier'[t] = frontier[t]
  <2>1. k.task \in Tasks
    BY DEF Token
  <2>2. [Unleased(t) EXCEPT !.due = FALSE].owner = NoOwner
    BY <1>t DEF Unleased, Row
  <2> QED BY <1>t, <1>3, <2>1, <2>2 DEF Retry
<1>4. ASSUME NEW k \in Token, NEW outcome \in Outcomes, Remove(k, outcome)
      PROVE  frontier'[t] = frontier[t]
  <2>1. k.task \in Tasks /\ NoRow.owner = NoOwner
    BY DEF Token, NoRow
  <2> QED BY <1>t, <1>4, <2>1 DEF Remove
<1>5. ASSUME NEW u \in Tasks, LeaseRunsOut(u) \/ BecomeDue(u)
      PROVE  /\ frontier'[t].owner = frontier[t].owner
             /\ frontier'[t].id = frontier[t].id
  BY <1>t, <1>5 DEF LeaseRunsOut, BecomeDue, Row
<1> QED BY <1>1, <1>2, <1>3, <1>4, <1>5 DEF Touch, frontierVars

\* Nor does enqueuing.
LEMMA EnqueueKeepsOwners ==
  ASSUME FrontierType, NEW S \in SUBSET Tasks, NEW urgent \in BOOLEAN,
         EnqueueAll(S, urgent)
  PROVE  OwnersKept
<1> SUFFICES ASSUME NEW t \in Tasks, frontier'[t].owner # NoOwner
             PROVE  /\ frontier'[t].owner = frontier[t].owner
                    /\ frontier'[t].id = frontier[t].id
  BY DEF OwnersKept
<1>t. frontier[t] \in Row
  BY DEF FrontierType
<1>1. frontier'[t] = IF t \in S THEN Upserted(t, urgent) ELSE frontier[t]
  BY DEF EnqueueAll
<1>2. CASE t \notin S
  BY <1>1, <1>2
<1>3. CASE t \in S /\ Queued(t)
  BY <1>t, <1>1, <1>3 DEF Upserted, Row
<1>4. CASE t \in S /\ ~Queued(t)
  <2>1. Upserted(t, urgent).owner = NoOwner
    BY <1>4 DEF Upserted, NoRow
  <2> QED BY <1>1, <1>4, <2>1
<1> QED BY <1>2, <1>3, <1>4

\* So a loop that claims nothing owns no more rows than it did.
LEMMA OwnsNoMore ==
  ASSUME TypeOK, [Next]_vars, NEW w \in Owners, ~ClaimTasks(w)
  PROVE  OwnedBy(w)' \subseteq OwnedBy(w)
<1>w. w # NoOwner
  BY FrontierAssumption
<1>1. ASSUME OwnersKept
      PROVE  OwnedBy(w)' \subseteq OwnedBy(w)
  BY <1>w, <1>1 DEF OwnersKept, OwnedBy, Queued
<1>2. ASSUME NEW v \in Owners, ClaimTasks(v)
      PROVE  OwnedBy(w)' \subseteq OwnedBy(w)
  <2>1. PICK S \in SUBSET Tasks : Claim(v, S)
    BY <1>2 DEF ClaimTasks, Picks
  <2>2. ASSUME NEW t \in Tasks
        PROVE  frontier'[t] = frontier[t] \/ frontier'[t].owner = v
    <3>1. frontier[t] \in Row
      BY DEF TypeOK, FrontierType
    <3>2. CASE t \in S
      BY <2>1, <3>1, <3>2 DEF Claim, Row
    <3>3. CASE t \notin S
      BY <2>1, <3>3 DEF Claim
    <3> QED BY <3>2, <3>3
  <2>3. v # w
    BY <1>2
  <2> QED BY <2>2, <2>3 DEF OwnedBy, Queued
<1>3. ASSUME NEW v \in Owners, EnqueueFound(v)
      PROVE  OwnersKept
  <2>1. PICK k \in cur[v] : EnqueueAll(Unsaved(Children[k.task]), TRUE)
    BY <1>3 DEF EnqueueFound
  <2>2. Unsaved(Children[k.task]) \in SUBSET Tasks
    BY InHandType, WorkersAssumption DEF Unsaved
  <2> QED BY <2>1, <2>2, EnqueueKeepsOwners DEF TypeOK
<1>4. CASE Enqueues
  <2>1. PICK S \in SUBSET Tasks, urgent \in BOOLEAN : EnqueueAll(S, urgent)
    BY <1>4 DEF Enqueues, Discover, EnqueueRefresh
  <2> QED BY <1>1, <2>1, EnqueueKeepsOwners DEF TypeOK
<1>5. CASE [Touch]_frontierVars
  BY <1>1, <1>5, TouchKeepsOwners DEF TypeOK
<1> QED BY <1>1, <1>2, <1>3, <1>4, <1>5, NextTouches

\* A loop stops by giving its rows back.
LEMMA StopsByReleasing ==
  ASSUME TypeOK, [Next]_vars, NEW w \in Owners,
         pc[w] # "stopped", pc'[w] = "stopped"
  PROVE  ReleaseByOwner(w)
<1>t. pc \in [Owners -> Labels]
  BY DEF TypeOK, Labels
<1>1. ASSUME NEW v \in Owners, LoopStep(v)
      PROVE  ReleaseByOwner(w)
  <2>1. CASE CloseLoop(v)
    <3>1. v = w
      BY <1>t, <2>1 DEF CloseLoop, Goto
    <3> QED BY <2>1, <3>1 DEF CloseLoop
  <2>2. CASE ReapOwner(v)
    <3>1. v = w
      BY <1>t, <2>2 DEF ReapOwner, Goto
    <3>2. ~Goto(v, "abandoned")
      BY <1>t, <3>1 DEF Goto
    <3> QED BY <2>2, <3>1, <3>2 DEF ReapOwner
  <2>3. ASSUME NEW label, Goto(v, label), label # "stopped"
        PROVE  FALSE
    BY <1>t, <2>3 DEF Goto
  <2>4. AfterEmptyClaim(v) # "stopped"
    BY DEF AfterEmptyClaim
  <2> QED
    BY <1>1, <2>1, <2>2, <2>3, <2>4
    DEF LoopStep, ClaimTasks, ClaimNothing, LeaveLoop, StartBatch, NextTask,
        LeaveBatch, EndBatch, ReadActivity, DrainBusy, DrainIdle, ReleaseRest,
        Cancel
<1>2. ASSUME NEW v \in Owners, TaskStep(v) \/ Fault(v)
      PROVE  FALSE
  <2>1. ASSUME NEW label, Goto(v, label), label # "stopped"
        PROVE  FALSE
    BY <1>t, <2>1 DEF Goto
  <2> QED
    BY <1>2, <2>1
    DEF TaskStep, Extract, ExtendLease, Persist, EnqueueFound, CompleteRead,
        CompleteWrite, ScheduleRetry, FailRead, FailWrite, FinishTask, Fault
<1>3. ASSUME NEW p \in Procs, Crash(p)
      PROVE  FALSE
  BY <1>t, <1>3 DEF Crash
<1>4. CASE UNCHANGED pc
  BY <1>4
<1> QED
  BY <1>1, <1>2, <1>3, <1>4
  DEF Next, Environment, Heartbeat, RequestShutdown, GraceElapses, Discover,
      SourceChanges, LeaseExpires, DelayElapses, EnqueueRefresh,
      ReleaseStaleLeases, loopVars, vars

\* Every step leaves the stopped loops without a row.
LEMMA NextStopped ==
  ASSUME TypeOK, [Next]_vars, StoppedHoldsNoLease
  PROVE  StoppedHoldsNoLease'
<1> SUFFICES ASSUME NEW w \in Owners, pc'[w] = "stopped"
             PROVE  OwnedBy(w)' = {}
  BY DEF StoppedHoldsNoLease
<1>1. OwnedBy(w)' \subseteq OwnedBy(w)
  <2>1. pc \in [Owners -> Labels]
    BY DEF TypeOK, Labels
  <2>2. ~ClaimTasks(w)
    BY <2>1 DEF ClaimTasks, Goto
  <2> QED BY <2>2, OwnsNoMore
<1>2. CASE pc[w] = "stopped"
  BY <1>1, <1>2 DEF StoppedHoldsNoLease
<1>3. CASE pc[w] # "stopped"
  <2>1. ReleaseByOwner(w)
    BY <1>3, StopsByReleasing
  <2>2. ASSUME NEW t \in OwnedBy(w)
        PROVE  frontier'[t].owner = NoOwner
    <3>1. t \in Tasks /\ frontier[t] \in Row
      BY DEF OwnedBy, TypeOK, FrontierType
    <3>2. frontier'[t] = Unleased(t)
      BY <2>1, <2>2, <3>1 DEF ReleaseByOwner, UnleaseAll
    <3> QED BY <3>1, <3>2 DEF Unleased, Row
  <2> QED BY <1>1, <2>2, FrontierAssumption DEF OwnedBy
<1> QED BY <1>2, <1>3

\* However a loop ends, shutdown, cancellation, a failed statement, a second
\* attempt by the process: it holds no lease when it has stopped.
THEOREM StoppedReleased == Spec => []StoppedHoldsNoLease
<1>1. Init => StoppedHoldsNoLease
  BY DEF Init, StoppedHoldsNoLease
<1>2. TypeOK /\ StoppedHoldsNoLease /\ [Next]_vars => StoppedHoldsNoLease'
  BY NextStopped
<1> QED BY <1>1, <1>2, TypeCorrect, PTL DEF Spec

-----------------------------------------------------------------------------
\* Drains.

\* Nobody has enqueued, and no lease has run out under a live loop.
Calm ==
  /\ budget["expire"] = Budget["expire"]
  /\ budget["enqueue"] = Budget["enqueue"]

\* A loop has a task in hand only while it processes it, that is no longer part
\* of the batch, and a loop that has ended has none.
Placed(w) ==
  /\ pc[w] \notin Processing => cur[w] = {}
  /\ pc[w] \in Ended => held[w] = {}
  /\ held[w] \cap cur[w] = {}

\* What a loop has in its hands is its own, under a live lease.
Safe(w) ==
  \A k \in Tokens(w) : Holds(w, k) /\ frontier[k.task].lease = "live"

Empty == \A t \in Tasks : ~Queued(t)

\* A loop that saw the queue empty was right, and is.
Dry ==
  (\E w \in Owners : pc[w] = "idle") \/ (\E p \in Procs : drained[p]) => Empty

DrainInv ==
  /\ \A w \in Owners : Placed(w)
  /\ \A kind \in Kinds : budget[kind] <= Budget[kind]
  /\ Calm => Dry /\ \A w \in Owners : Safe(w)

\* A step of a loop is none of the others.
OthersAlone(w) ==
  \A v \in Owners \ {w} :
    pc'[v] = pc[v] /\ held'[v] = held[v] /\ cur'[v] = cur[v]

LEMMA StepIsLocal ==
  ASSUME TypeOK, NEW w \in Owners,
         LoopStep(w) \/ TaskStep(w) \/ Heartbeat(w) \/ Fault(w)
  PROVE  OthersAlone(w)
<1> SUFFICES ASSUME NEW v \in Owners, v # w
             PROVE  pc'[v] = pc[v] /\ held'[v] = held[v] /\ cur'[v] = cur[v]
  BY DEF OthersAlone
<1>t. /\ pc \in [Owners -> Labels] /\ held \in [Owners -> SUBSET Token]
      /\ cur \in [Owners -> SUBSET Token]
  BY DEF TypeOK, Labels
<1>1. ASSUME NEW label, Goto(w, label)
      PROVE  pc'[v] = pc[v]
  BY <1>t, <1>1 DEF Goto
<1>2. CASE LoopStep(w)
  <2>1. pc'[v] = pc[v]
    BY <1>1, <1>2
    DEF LoopStep, ClaimTasks, ClaimNothing, LeaveLoop, StartBatch, NextTask,
        LeaveBatch, EndBatch, ReadActivity, DrainBusy, DrainIdle, ReleaseRest,
        CloseLoop, ReapOwner, Cancel
  <2>2. held'[v] = held[v] /\ cur'[v] = cur[v]
    BY <1>t, <1>2
    DEF LoopStep, ClaimTasks, ClaimNothing, LeaveLoop, StartBatch, NextTask,
        LeaveBatch, EndBatch, ReadActivity, DrainBusy, DrainIdle, ReleaseRest,
        CloseLoop, ReapOwner, Cancel
  <2> QED BY <2>1, <2>2
<1>3. CASE TaskStep(w)
  <2>1. ASSUME FinishTask(w)
        PROVE  pc'[v] = pc[v] /\ cur'[v] = cur[v]
    BY <1>t, <1>1, <2>1 DEF FinishTask
  <2> QED
    BY <1>1, <1>3, <2>1
    DEF TaskStep, Extract, ExtendLease, Persist, EnqueueFound, CompleteRead,
        CompleteWrite, ScheduleRetry, FailRead, FailWrite
<1>4. CASE Heartbeat(w)
  BY <1>4 DEF Heartbeat, loopVars
<1>5. CASE Fault(w)
  BY <1>t, <1>1, <1>5 DEF Fault
<1> QED BY <1>2, <1>3, <1>4, <1>5

\* A loop that goes on to a label has in its hands what it may have there.
LEMMA LoopStepPlaced ==
  ASSUME TypeOK, NEW w \in Owners, Placed(w), LoopStep(w)
  PROVE  Placed(w)'
<1>t. /\ pc \in [Owners -> Labels] /\ held \in [Owners -> SUBSET Token]
      /\ cur \in [Owners -> SUBSET Token]
  BY DEF TypeOK, Labels
<1>1. ASSUME NEW label, Goto(w, label), UNCHANGED <<held, cur>>,
             pc[w] \notin Processing, label \notin Processing \cup Ended
      PROVE  Placed(w)'
  BY <1>t, <1>1 DEF Goto, Placed
<1>2. CASE ClaimTasks(w)
  <2>1. cur'[w] = {} /\ pc'[w] = "claimed"
    BY <1>t, <1>2
    DEF ClaimTasks, Placed, Goto, At, Processing, Working, Settling
  <2> QED BY <2>1 DEF Placed, Ended
<1>3. CASE ClaimNothing(w)
  <2>1. AfterEmptyClaim(w) \notin Processing \cup Ended
    BY DEF AfterEmptyClaim, Processing, Working, Settling, Ended
  <2>2. pc[w] \notin Processing
    BY <1>3 DEF ClaimNothing, At, Processing, Working, Settling
  <2> QED BY <1>1, <1>3, <2>1, <2>2 DEF ClaimNothing
<1>4. CASE LeaveLoop(w) \/ StartBatch(w) \/ LeaveBatch(w) \/ EndBatch(w)
             \/ ReadActivity(w) \/ DrainBusy(w) \/ DrainIdle(w)
  BY <1>1, <1>4
  DEF LeaveLoop, StartBatch, LeaveBatch, EndBatch, ReadActivity, DrainBusy,
      DrainIdle, At, Processing, Working, Settling, Ended
<1>5. CASE NextTask(w)
  <2>1. PICK k \in held[w] : /\ cur' = [cur EXCEPT ![w] = {k}]
                             /\ held' = [held EXCEPT ![w] = @ \ {k}]
    BY <1>5 DEF NextTask
  <2>2. cur'[w] = {k} /\ held'[w] = held[w] \ {k} /\ pc'[w] = "extract"
    BY <1>t, <1>5, <2>1 DEF NextTask, Goto
  <2> QED BY <2>2 DEF Placed, Processing, Working, Ended
<1>6. CASE ReleaseRest(w) \/ CloseLoop(w)
  <2>1. cur'[w] = {} /\ held'[w] = {}
    BY <1>t, <1>6
    DEF ReleaseRest, CloseLoop, Placed, At, Processing, Working, Settling
  <2> QED BY <2>1 DEF Placed
<1>7. CASE ReapOwner(w)
  <2>1. cur'[w] = {} /\ held'[w] = {}
    BY <1>t, <1>7
    DEF ReapOwner, Placed, At, Processing, Working, Settling, Ended
  <2> QED BY <2>1 DEF Placed
<1>8. CASE Cancel(w)
  <2>1. cur'[w] = {} /\ pc'[w] \in {"release", "closing"}
    BY <1>t, <1>8 DEF Cancel, Goto
  <2> QED BY <2>1 DEF Placed, Ended
<1> QED
  BY <1>2, <1>3, <1>4, <1>5, <1>6, <1>7, <1>8 DEF LoopStep

\* So do the steps of _process_task, and failed statements.
LEMMA TaskStepPlaced ==
  ASSUME TypeOK, NEW w \in Owners, Placed(w), TaskStep(w) \/ Fault(w)
  PROVE  Placed(w)'
<1>t. /\ pc \in [Owners -> Labels] /\ held \in [Owners -> SUBSET Token]
      /\ cur \in [Owners -> SUBSET Token]
  BY DEF TypeOK, Labels
<1>1. ASSUME NEW label, Goto(w, label), UNCHANGED <<held, cur>>,
             label \in Processing
      PROVE  Placed(w)'
  BY <1>t, <1>1 DEF Goto, Placed, Processing, Working, Settling, Ended
<1>2. ASSUME FinishTask(w), UNCHANGED held
      PROVE  Placed(w)'
  <2>1. cur'[w] = {} /\ pc'[w] = "next"
    BY <1>t, <1>2 DEF FinishTask, Goto
  <2> QED BY <2>1 DEF Placed, Ended
<1>3. CASE TaskStep(w)
  BY <1>1, <1>2, <1>3
  DEF TaskStep, Extract, ExtendLease, Persist, EnqueueFound, CompleteRead,
      CompleteWrite, ScheduleRetry, FailRead, FailWrite, Processing, Working,
      Settling
<1>4. CASE Fault(w)
  <2>1. CASE Goto(w, "error") /\ UNCHANGED <<cancelled, held, cur>>
    BY <1>1, <2>1 DEF Processing, Settling
  <2>2. CASE cur' = [cur EXCEPT ![w] = {}] /\ held' = [held EXCEPT ![w] = {}]
    BY <1>t, <2>2 DEF Placed
  <2> QED BY <1>4, <2>1, <2>2 DEF Fault
<1> QED BY <1>3, <1>4

LEMMA NextPlaced ==
  ASSUME TypeOK, [Next]_vars, \A w \in Owners : Placed(w)
  PROVE  \A w \in Owners : Placed(w)'
<1>1. ASSUME NEW w \in Owners,
             LoopStep(w) \/ TaskStep(w) \/ Heartbeat(w) \/ Fault(w)
      PROVE  \A v \in Owners : Placed(v)'
  <2>1. Placed(w)'
    <3>1. CASE Heartbeat(w)
      BY <3>1 DEF Heartbeat, loopVars, Placed
    <3> QED BY <1>1, <3>1, LoopStepPlaced, TaskStepPlaced
  <2> QED BY <1>1, <2>1, StepIsLocal DEF OthersAlone, Placed
<1>2. ASSUME NEW p \in Procs, Crash(p)
      PROVE  \A v \in Owners : Placed(v)'
  <2> SUFFICES ASSUME NEW v \in Owners PROVE Placed(v)'
    OBVIOUS
  <2>1. \/ pc'[v] = pc[v] /\ held'[v] = held[v] /\ cur'[v] = cur[v]
        \/ held'[v] = {} /\ cur'[v] = {}
    BY <1>2 DEF Crash
  <2> QED BY <2>1 DEF Placed
<1>3. CASE UNCHANGED loopVars
  BY <1>3 DEF loopVars, Placed
<1> QED
  BY <1>1, <1>2, <1>3
  DEF Next, Environment, RequestShutdown, GraceElapses, Discover,
      SourceChanges, LeaseExpires, DelayElapses, EnqueueRefresh,
      ReleaseStaleLeases, vars

\* What is spent of a budget does not come back.
LEMMA BudgetShrinks ==
  ASSUME TypeOK, [Next]_vars
  PROVE  \A kind \in Kinds : budget'[kind] <= budget[kind]
<1>t. budget \in [Kinds -> Nat]
  BY DEF TypeOK
<1>1. ASSUME NEW k \in Kinds, Spend(k)
      PROVE  \A kind \in Kinds : budget'[kind] <= budget[kind]
  BY <1>t, <1>1 DEF Spend
<1>2. CASE UNCHANGED budget
  BY <1>t, <1>2
<1>3. \/ UNCHANGED budget
      \/ Spend("expire") \/ Spend("fault") \/ Spend("block")
      \/ Spend("enqueue") \/ Spend("change") \/ Spend("signal")
      \/ Spend("kill")
  BY DEF Next, LoopStep, TaskStep, Environment, ClaimTasks, ClaimNothing,
         LeaveLoop, StartBatch, NextTask, LeaveBatch, EndBatch, ReadActivity,
         DrainBusy, DrainIdle, ReleaseRest, CloseLoop, ReapOwner, Cancel,
         Extract, ExtendLease, Persist, EnqueueFound, CompleteRead,
         CompleteWrite, ScheduleRetry, FailRead, FailWrite, Heartbeat, Fault,
         RequestShutdown, Crash, GraceElapses, Discover, SourceChanges,
         LeaseExpires, DelayElapses, EnqueueRefresh, ReleaseStaleLeases, vars
<1> QED BY <1>1, <1>2, <1>3 DEF Kinds

\* A token that is safe matches a row in the queue.
LEMMA SafeRow ==
  ASSUME TypeOK, LeaseInv, NEW v \in Owners, Safe(v), NEW k \in Tokens(v)
  PROVE  /\ k \in Token /\ k.task \in Tasks
         /\ frontier[k.task] \in Row /\ Queued(k.task)
         /\ frontier[k.task].id = k.id /\ frontier[k.task].attempt = k.attempt
         /\ frontier[k.task].owner = v /\ frontier[k.task].lease = "live"
<1>1. k \in Token
  BY DEF TypeOK, Tokens
<1>2. k.task \in Tasks /\ births[k.task] \in Nat /\ frontier[k.task] \in Row
  BY <1>1 DEF Token, TypeOK, FrontierType
<1>3. k.id \in 1..births[k.task]
  BY DEF LeaseInv, Fenced
<1>4. Holds(v, k) /\ frontier[k.task].lease = "live"
  BY DEF Safe
<1> QED BY <1>1, <1>2, <1>3, <1>4 DEF Holds, Current, Queued

\* Two safe tokens of a task are the same.
LEMMA OneSafeToken ==
  ASSUME TypeOK, LeaseInv, \A w \in Owners : Safe(w),
         NEW u \in Owners, NEW j \in Tokens(u),
         NEW v \in Owners, NEW k \in Tokens(v), j.task = k.task
  PROVE  j = k /\ u = v
<1>1. j \in Token /\ k \in Token /\ j.id = k.id /\ j.attempt = k.attempt
      /\ u = v
  BY SafeRow
<1> QED BY <1>1 DEF Token

\* While the queue is calm, the row of a token that a loop keeps stays its own.
KeepsRow(v, k) == Holds(v, k)' /\ frontier'[k.task].lease = "live"

LEMMA SameRowIsKept ==
  ASSUME TypeOK, LeaseInv, NEW v \in Owners, Safe(v), NEW k \in Tokens(v),
         frontier'[k.task].id = frontier[k.task].id,
         frontier'[k.task].attempt = frontier[k.task].attempt,
         frontier'[k.task].owner = frontier[k.task].owner,
         frontier'[k.task].lease \in {frontier[k.task].lease, "live"}
  PROVE  KeepsRow(v, k)
BY SafeRow DEF KeepsRow, Holds, Current

LEMMA EnqueueKeepsRow ==
  ASSUME TypeOK, LeaseInv, NEW v \in Owners, Safe(v), NEW k \in Tokens(v),
         NEW S \in SUBSET Tasks, NEW urgent \in BOOLEAN, EnqueueAll(S, urgent)
  PROVE  KeepsRow(v, k)
<1>1. k.task \in Tasks /\ frontier[k.task] \in Row /\ Queued(k.task)
  BY SafeRow
<1>2. \/ frontier'[k.task] = frontier[k.task]
      \/ frontier'[k.task] = [frontier[k.task] EXCEPT !.due = TRUE,
                                                      !.urgent = @ \/ urgent]
  BY <1>1 DEF EnqueueAll, Upserted
<1>3. /\ frontier'[k.task].id = frontier[k.task].id
      /\ frontier'[k.task].attempt = frontier[k.task].attempt
      /\ frontier'[k.task].owner = frontier[k.task].owner
      /\ frontier'[k.task].lease = frontier[k.task].lease
  BY <1>1, <1>2 DEF Row
<1> QED BY <1>3, SameRowIsKept

LEMMA ExtendKeepsRow ==
  ASSUME TypeOK, LeaseInv, NEW v \in Owners, Safe(v), NEW k \in Tokens(v),
         NEW j \in Token, Extend(j)
  PROVE  KeepsRow(v, k)
<1>1. k.task \in Tasks /\ frontier[k.task] \in Row /\ frontier \in [Tasks -> Row]
  BY SafeRow DEF TypeOK, FrontierType
<1>2. \/ frontier'[k.task] = frontier[k.task]
      \/ frontier'[k.task] = [frontier[k.task] EXCEPT !.lease = "live"]
  BY <1>1 DEF Extend, Token
<1>3. /\ frontier'[k.task].id = frontier[k.task].id
      /\ frontier'[k.task].attempt = frontier[k.task].attempt
      /\ frontier'[k.task].owner = frontier[k.task].owner
      /\ frontier'[k.task].lease \in {frontier[k.task].lease, "live"}
  BY <1>1, <1>2 DEF Row
<1> QED BY <1>3, SameRowIsKept

\* Rows are given back by their owners, who keep no token then, or expired.
LEMMA LoopStepKeepsRow ==
  ASSUME TypeOK, LeaseInv, \A w \in Owners : Placed(w) /\ Safe(w),
         NEW u \in Owners, LoopStep(u), ~ClaimTasks(u),
         NEW v \in Owners, NEW k \in Tokens(v), k \in Tokens(v)'
  PROVE  KeepsRow(v, k)
<1>t. /\ held \in [Owners -> SUBSET Token] /\ cur \in [Owners -> SUBSET Token]
      /\ frontier \in [Tasks -> Row] /\ k.task \in Tasks
      /\ frontier[k.task].owner = v
  BY SafeRow DEF TypeOK, FrontierType
<1>1. CASE frontier'[k.task] = frontier[k.task]
  BY <1>1, SameRowIsKept
<1>2. ASSUME NEW S \in SUBSET OwnedBy(u), UnleaseAll(S), u # v
      PROVE  frontier'[k.task] = frontier[k.task]
  BY <1>t, <1>2 DEF UnleaseAll, OwnedBy
<1>3. CASE ReleaseRest(u)
  <2>1. Tokens(u)' = {}
    BY <1>t, <1>3
    DEF ReleaseRest, Tokens, Placed, At, Processing, Working, Settling
  <2>2. UnleaseAll(RowsOfOwner(u, held[u]))
        /\ RowsOfOwner(u, held[u]) \in SUBSET OwnedBy(u)
    BY <1>3 DEF ReleaseRest, Release, RowsOfOwner
  <2> QED BY <1>1, <1>2, <2>1, <2>2
<1>4. CASE CloseLoop(u)
  <2>1. Tokens(u)' = {}
    BY <1>t, <1>4
    DEF CloseLoop, Tokens, Placed, At, Processing, Working, Settling
  <2>2. UnleaseAll(OwnedBy(u)) /\ OwnedBy(u) \in SUBSET OwnedBy(u)
    BY <1>4 DEF CloseLoop, ReleaseByOwner
  <2> QED BY <1>1, <1>2, <2>1, <2>2
<1>5. CASE ReapOwner(u)
  <2>1. Tokens(u) = {}
    BY <1>5 DEF ReapOwner, Tokens, Placed, At, Processing, Working, Settling,
                Ended
  <2>2. UnleaseAll(OwnedBy(u)) \/ UNCHANGED frontier
    BY <1>5 DEF ReapOwner, ReleaseByOwner, frontierVars
  <2>3. OwnedBy(u) \in SUBSET OwnedBy(u)
    OBVIOUS
  <2> QED BY <1>1, <1>2, <2>1, <2>2, <2>3
<1>6. CASE UNCHANGED frontier
  BY <1>1, <1>6
<1> QED
  BY <1>3, <1>4, <1>5, <1>6
  DEF LoopStep, ClaimNothing, LeaveLoop, StartBatch, NextTask, LeaveBatch,
      EndBatch, ReadActivity, DrainBusy, DrainIdle, Cancel, frontierVars

\* A task is settled by the loop that has it in hand and drops it.
LEMMA TaskStepKeepsRow ==
  ASSUME TypeOK, LeaseInv, \A w \in Owners : Placed(w) /\ Safe(w),
         NEW u \in Owners, TaskStep(u),
         NEW v \in Owners, NEW k \in Tokens(v), k \in Tokens(v)'
  PROVE  KeepsRow(v, k)
<1>t. /\ held \in [Owners -> SUBSET Token] /\ cur \in [Owners -> SUBSET Token]
      /\ frontier \in [Tasks -> Row] /\ k.task \in Tasks
  BY SafeRow DEF TypeOK, FrontierType
<1>1. CASE frontier'[k.task] = frontier[k.task]
  BY <1>1, SameRowIsKept
<1>2. ASSUME NEW j \in cur[u], FinishTask(u), UNCHANGED held
      PROVE  j.task \in Tasks /\ j.task # k.task
  <2>1. j \in Tokens(u) /\ j.task \in Tasks
    BY InHandType DEF Tokens
  <2>2. ASSUME j.task = k.task
        PROVE  FALSE
    <3>1. j = k /\ u = v
      BY <2>1, <2>2, OneSafeToken
    <3>2. cur'[u] = {} /\ held'[u] = held[u] /\ held[u] \cap cur[u] = {}
      BY <1>t, <1>2 DEF FinishTask, Placed
    <3> QED BY <3>1, <3>2 DEF Tokens
  <2> QED BY <2>1, <2>2
<1>3. CASE ScheduleRetry(u)
  <2>1. PICK j \in cur[u] : Retry(j)
    BY <1>3 DEF ScheduleRetry
  <2>2. j.task # k.task
    BY <1>2, <1>3 DEF ScheduleRetry
  <2> QED BY <1>t, <1>1, <2>1, <2>2 DEF Retry
<1>4. CASE CompleteWrite(u) \/ FailWrite(u)
  <2>1. PICK j \in cur[u], outcome \in Outcomes : Remove(j, outcome)
    BY <1>4 DEF CompleteWrite, FailWrite, Outcomes
  <2>2. j.task # k.task
    BY <1>2, <1>4 DEF CompleteWrite, FailWrite
  <2> QED BY <1>t, <1>1, <2>1, <2>2 DEF Remove
<1>5. CASE ExtendLease(u)
  BY <1>1, <1>5, InHandType, ExtendKeepsRow DEF ExtendLease, frontierVars
<1>6. CASE EnqueueFound(u)
  <2>1. PICK j \in cur[u] : EnqueueAll(Unsaved(Children[j.task]), TRUE)
    BY <1>6 DEF EnqueueFound
  <2>2. Unsaved(Children[j.task]) \in SUBSET Tasks
    BY InHandType, WorkersAssumption DEF Unsaved
  <2> QED BY <2>1, <2>2, EnqueueKeepsRow
<1>7. CASE UNCHANGED frontier
  BY <1>1, <1>7
<1> QED
  BY <1>3, <1>4, <1>5, <1>6, <1>7
  DEF TaskStep, Extract, Persist, CompleteRead, FailRead, frontierVars

\* A lease that runs out under a live loop is paid for.
LEMMA LeaseExpiryKeepsRow ==
  ASSUME TypeOK, LeaseInv, DrainInv, Calm, Calm',
         \A w \in Owners : Placed(w) /\ Safe(w),
         NEW t \in Tasks, LeaseExpires(t), NEW v \in Owners, NEW k \in Tokens(v)
  PROVE  KeepsRow(v, k)
<1>1. frontier[k.task].owner = v /\ k.task \in Tasks
  BY SafeRow
<1>2. ~Spend("expire")
  BY DEF Spend, Calm, TypeOK, Kinds
<1>3. PICK w \in Owners : frontier[t].owner = w /\ pc[w] \in Ended
  BY <1>2 DEF LeaseExpires, At
<1>4. Tokens(w) = {}
  BY <1>3 DEF Placed, Tokens, Processing, Working, Settling, Ended
<1>5. t # k.task
  BY <1>1, <1>3, <1>4
<1>6. frontier'[k.task] = frontier[k.task]
  BY <1>1, <1>5 DEF LeaseExpires, LeaseRunsOut, TypeOK, FrontierType
<1> QED BY <1>6, SameRowIsKept

\* So every step but a claim lets the loops keep what they hold.
LEMMA NextKeepsRows ==
  ASSUME TypeOK, LeaseInv, DrainInv, Calm, Calm', [Next]_vars,
         \A w \in Owners : ~ClaimTasks(w),
         NEW v \in Owners, NEW k \in Tokens(v), k \in Tokens(v)'
  PROVE  KeepsRow(v, k)
<1>s. \A w \in Owners : Placed(w) /\ Safe(w)
  BY DEF DrainInv
<1>1. CASE UNCHANGED frontier
  BY <1>s, <1>1, SameRowIsKept
<1>2. ASSUME NEW u \in Owners, LoopStep(u) \/ TaskStep(u)
      PROVE  KeepsRow(v, k)
  BY <1>s, <1>2, LoopStepKeepsRow, TaskStepKeepsRow
<1>3. ASSUME NEW u \in Owners, Heartbeat(u)
      PROVE  KeepsRow(v, k)
  BY <1>s, <1>3, InHandType, ExtendKeepsRow DEF Heartbeat
<1>4. ASSUME NEW t \in Tasks, LeaseExpires(t)
      PROVE  KeepsRow(v, k)
  BY <1>s, <1>4, LeaseExpiryKeepsRow
<1>5. ASSUME NEW t \in Tasks, DelayElapses(t)
      PROVE  KeepsRow(v, k)
  <2>1. k.task \in Tasks /\ frontier[k.task] \in Row
        /\ frontier \in [Tasks -> Row]
    BY <1>s, SafeRow DEF TypeOK, FrontierType
  <2>2. \/ frontier'[k.task] = frontier[k.task]
        \/ frontier'[k.task] = [frontier[k.task] EXCEPT !.due = TRUE]
    BY <1>5, <2>1 DEF DelayElapses, BecomeDue
  <2>3. /\ frontier'[k.task].id = frontier[k.task].id
        /\ frontier'[k.task].attempt = frontier[k.task].attempt
        /\ frontier'[k.task].owner = frontier[k.task].owner
        /\ frontier'[k.task].lease = frontier[k.task].lease
    BY <2>1, <2>2 DEF Row
  <2> QED BY <1>s, <2>3, SameRowIsKept
<1>6. CASE ReleaseStaleLeases
  <2>1. k.task \in Tasks /\ frontier[k.task].lease = "live"
    BY <1>s, SafeRow
  <2>2. frontier'[k.task] = frontier[k.task]
    BY <1>6, <2>1
    DEF ReleaseStaleLeases, ReleaseStale, UnleaseAll, StaleLeases
  <2> QED BY <1>s, <2>2, SameRowIsKept
<1>7. CASE Enqueues
  <2>1. PICK S \in SUBSET Tasks, urgent \in BOOLEAN : EnqueueAll(S, urgent)
    BY <1>7 DEF Enqueues, Discover, EnqueueRefresh
  <2> QED BY <1>s, <2>1, EnqueueKeepsRow
<1> QED
  BY <1>1, <1>2, <1>3, <1>4, <1>5, <1>6, <1>7
  DEF Next, Environment, Enqueues, Fault, RequestShutdown, Crash,
      GraceElapses, SourceChanges, vars, frontierVars

\* A claim takes no row under a live lease, and gives its own out under one.
LEMMA ClaimKeepsSafe ==
  ASSUME TypeOK, LeaseInv, \A w \in Owners : Placed(w) /\ Safe(w),
         NEW u \in Owners, ClaimTasks(u), NEW v \in Owners
  PROVE  Safe(v)'
<1> SUFFICES ASSUME NEW k \in Tokens(v)'
             PROVE  KeepsRow(v, k)
  BY DEF Safe, KeepsRow
<1>t. /\ held \in [Owners -> SUBSET Token] /\ cur \in [Owners -> SUBSET Token]
      /\ frontier \in [Tasks -> Row]
  BY DEF TypeOK, FrontierType
<1>1. PICK S \in SUBSET Tasks :
        /\ \A t \in S : frontier[t].lease # "live"
        /\ Claim(u, S)
        /\ held' = [held EXCEPT ![u] = Claimed(S)]
  BY DEF ClaimTasks, Picks, Claimable
<1>2. cur' = cur /\ cur[u] = {}
  BY DEF ClaimTasks, Placed, At, Processing, Working, Settling
<1>3. CASE k \in Tokens(v)
  <2>1. k.task \in Tasks /\ frontier[k.task].lease = "live"
    BY <1>3, SafeRow
  <2>2. frontier'[k.task] = frontier[k.task]
    BY <1>1, <2>1 DEF Claim
  <2> QED BY <1>3, <2>2, SameRowIsKept
<1>4. CASE k \notin Tokens(v)
  <2>1. v = u /\ k \in Claimed(S)
    BY <1>t, <1>1, <1>2, <1>4 DEF Tokens
  <2>2. PICK t \in S : k = [task |-> t, id |-> frontier[t].id,
                            attempt |-> NextAttempt(t)]
    BY <2>1 DEF Claimed
  <2>3. frontier[t] \in Row /\ k.task = t /\ k.id = frontier[t].id
        /\ k.attempt = NextAttempt(t)
    BY <1>t, <2>2
  <2>4. frontier'[t] = [frontier[t] EXCEPT !.owner = u, !.lease = "live",
                                           !.attempt = NextAttempt(t)]
    BY <1>1 DEF Claim
  <2>5. /\ frontier'[t].id = frontier[t].id
        /\ frontier'[t].attempt = NextAttempt(t)
        /\ frontier'[t].owner = u /\ frontier'[t].lease = "live"
    BY <2>3, <2>4 DEF Row
  <2> QED BY <2>1, <2>3, <2>5 DEF KeepsRow, Holds, Current
<1> QED BY <1>3, <1>4

\* A queue that is calm after a step was so before.
LEMMA CalmBefore ==
  ASSUME TypeOK, TypeOK', DrainInv, [Next]_vars, Calm'
  PROVE  Calm
<1>1. /\ budget \in [Kinds -> Nat] /\ budget' \in [Kinds -> Nat]
      /\ Budget \in [Kinds -> Nat]
  BY WorkersAssumption DEF TypeOK
<1>2. \A kind \in Kinds : budget'[kind] <= budget[kind]
                          /\ budget[kind] <= Budget[kind]
  BY BudgetShrinks DEF DrainInv
<1>3. "expire" \in Kinds /\ "enqueue" \in Kinds
  BY DEF Kinds
<1>4. Budget["expire"] = budget'["expire"] /\ Budget["enqueue"] = budget'["enqueue"]
  BY DEF Calm
<1> QED BY <1>1, <1>2, <1>3, <1>4 DEF Calm

\* While the queue is calm the loops stay safe.
LEMMA NextSafe ==
  ASSUME TypeOK, LeaseInv, DrainInv, Calm, Calm', [Next]_vars
  PROVE  \A v \in Owners : Safe(v)'
<1>1. \A w \in Owners : Placed(w) /\ Safe(w)
  BY DEF DrainInv
<1>2. CASE \E u \in Owners : ClaimTasks(u)
  BY <1>1, <1>2, ClaimKeepsSafe
<1>3. CASE \A u \in Owners : ~ClaimTasks(u)
  <2> SUFFICES ASSUME NEW v \in Owners, NEW k \in Tokens(v)'
               PROVE  KeepsRow(v, k)
    BY DEF Safe, KeepsRow
  <2>1. k \in Tokens(v)
    BY <1>3, OnlyClaimGives DEF NoNewToken
  <2> QED BY <1>3, <2>1, NextKeepsRows
<1> QED BY <1>2, <1>3

\* Touching rows adds none.
LEMMA TouchAddsNone ==
  ASSUME TypeOK, [Touch]_frontierVars, NEW t \in Tasks
  PROVE  frontier'[t].id \in {frontier[t].id, 0}
<1>1. frontier[t] \in Row /\ frontier \in [Tasks -> Row]
  BY DEF TypeOK, FrontierType
<1>2. CASE UNCHANGED frontierVars
  BY <1>2 DEF frontierVars
<1>3. ASSUME NEW S \in SUBSET Tasks, UnleaseAll(S)
      PROVE  frontier'[t].id = frontier[t].id
  BY <1>1, <1>3 DEF UnleaseAll, Unleased, Row
<1>4. ASSUME NEW k \in Token, Extend(k)
      PROVE  frontier'[t].id = frontier[t].id
  BY <1>1, <1>4 DEF Extend, Row, Token
<1>5. ASSUME NEW k \in Token, Retry(k)
      PROVE  frontier'[t].id = frontier[t].id
  BY <1>1, <1>5 DEF Retry, Unleased, Row, Token
<1>6. ASSUME NEW k \in Token, NEW outcome \in Outcomes, Remove(k, outcome)
      PROVE  frontier'[t].id \in {frontier[t].id, 0}
  BY <1>1, <1>6 DEF Remove, NoRow, Token
<1>7. ASSUME NEW u \in Tasks, LeaseRunsOut(u) \/ BecomeDue(u)
      PROVE  frontier'[t].id = frontier[t].id
  BY <1>1, <1>7 DEF LeaseRunsOut, BecomeDue, Row
<1> QED BY <1>2, <1>3, <1>4, <1>5, <1>6, <1>7 DEF Touch

\* A calm queue that is empty stays so: nobody has a task in hand that could
\* discover another one.
LEMMA EmptyStays ==
  ASSUME TypeOK, LeaseInv, DrainInv, Calm, Calm', Empty, [Next]_vars
  PROVE  Empty'
<1>1. ASSUME NEW w \in Owners
      PROVE  ~ClaimTasks(w) /\ ~EnqueueFound(w)
  <2>1. ~ClaimTasks(w)
    BY DEF ClaimTasks, Picks, Claimable, Empty
  <2>2. ASSUME EnqueueFound(w)
        PROVE  FALSE
    <3>1. PICK k \in cur[w] : TRUE
      BY <2>2 DEF EnqueueFound
    <3>2. k \in Tokens(w) /\ Safe(w)
      BY DEF Tokens, DrainInv
    <3> QED BY <3>2, SafeRow DEF Empty
  <2> QED BY <2>1, <2>2
<1>2. ~Enqueues
  <2>1. ~Spend("enqueue")
    BY DEF Spend, Calm, TypeOK, Kinds
  <2> QED BY <2>1 DEF Enqueues, Discover, EnqueueRefresh
<1>3. [Touch]_frontierVars
  BY <1>1, <1>2, NextTouches
<1> QED BY <1>3, TouchAddsNone DEF Empty, Queued

\* A loop finds the queue empty by counting its rows.
LEMMA IdleSawEmpty ==
  ASSUME TypeOK, NEW w \in Owners, pc'[w] = "idle", pc[w] # "idle", [Next]_vars
  PROVE  Empty
<1>t. pc \in [Owners -> Labels]
  BY DEF TypeOK, Labels
<1>1. ASSUME NEW v \in Owners,
             LoopStep(v) \/ TaskStep(v) \/ Heartbeat(v) \/ Fault(v)
      PROVE  v = w
  BY <1>1, StepIsLocal DEF OthersAlone
<1>2. ASSUME LoopStep(w)
      PROVE  ReadActivity(w)
  BY <1>t, <1>2
  DEF LoopStep, ClaimTasks, ClaimNothing, AfterEmptyClaim, LeaveLoop,
      StartBatch, NextTask, LeaveBatch, EndBatch, DrainBusy, DrainIdle,
      ReleaseRest, CloseLoop, ReapOwner, Cancel, Goto
<1>3. ~TaskStep(w) /\ ~Heartbeat(w) /\ ~Fault(w)
  BY <1>t
  DEF TaskStep, Extract, ExtendLease, Persist, EnqueueFound, CompleteRead,
      CompleteWrite, ScheduleRetry, FailRead, FailWrite, FinishTask, Heartbeat,
      Fault, Goto, loopVars
<1>4. ~Environment
  BY <1>t
  DEF Environment, RequestShutdown, Crash, GraceElapses, Discover,
      SourceChanges, LeaseExpires, DelayElapses, EnqueueRefresh,
      ReleaseStaleLeases, loopVars
<1>5. ReadActivity(w)
  BY <1>1, <1>2, <1>3, <1>4 DEF Next, vars, loopVars
<1>6. ~Depth
  BY <1>t, <1>5 DEF ReadActivity, Goto
<1> QED BY <1>6 DEF Depth, Empty

\* Only a loop that found the queue empty decides that the drain is complete.
LEMMA DrainedByIdle ==
  ASSUME TypeOK, NEW p \in Procs, drained'[p], ~drained[p], [Next]_vars
  PROVE  \E w \in Owners : pc[w] = "idle"
<1>1. CASE UNCHANGED drained
  BY <1>1
<1>2. CASE \E w \in Owners : DrainIdle(w)
  BY <1>2 DEF DrainIdle, At
<1> QED
  BY <1>1, <1>2
  DEF Next, LoopStep, TaskStep, Environment, ClaimTasks, ClaimNothing,
      LeaveLoop, StartBatch, NextTask, LeaveBatch, EndBatch, ReadActivity,
      DrainBusy, ReleaseRest, CloseLoop, ReapOwner, Cancel,
      Extract, ExtendLease, Persist, EnqueueFound, CompleteRead,
      CompleteWrite, ScheduleRetry, FailRead, FailWrite, Heartbeat, Fault,
      RequestShutdown, Crash, GraceElapses, Discover, SourceChanges,
      LeaseExpires, DelayElapses, EnqueueRefresh, ReleaseStaleLeases,
      procVars, vars

LEMMA NextDrain ==
  ASSUME TypeOK, TypeOK', LeaseInv, DrainInv, [Next]_vars
  PROVE  DrainInv'
<1>1. \A w \in Owners : Placed(w)'
  BY NextPlaced DEF DrainInv
<1>2. \A kind \in Kinds : budget'[kind] <= Budget[kind]
  <2>1. /\ budget \in [Kinds -> Nat] /\ budget' \in [Kinds -> Nat]
        /\ Budget \in [Kinds -> Nat]
    BY WorkersAssumption DEF TypeOK
  <2>2. \A kind \in Kinds : budget'[kind] <= budget[kind]
                            /\ budget[kind] <= Budget[kind]
    BY BudgetShrinks DEF DrainInv
  <2> QED BY <2>1, <2>2
<1>3. ASSUME Calm'
      PROVE  Dry' /\ \A w \in Owners : Safe(w)'
  <2>1. Calm
    BY <1>3, CalmBefore
  <2>2. \A w \in Owners : Safe(w)'
    BY <1>3, <2>1, NextSafe
  <2>3. ASSUME Empty
        PROVE  Empty'
    BY <1>3, <2>1, <2>3, EmptyStays
  <2>4. ASSUME NEW w \in Owners, pc'[w] = "idle"
        PROVE  Empty
    BY <2>1, <2>4, IdleSawEmpty DEF DrainInv, Dry
  <2>5. ASSUME NEW p \in Procs, drained'[p]
        PROVE  Empty
    BY <2>1, <2>5, DrainedByIdle DEF DrainInv, Dry
  <2> QED BY <2>2, <2>3, <2>4, <2>5 DEF Dry
<1> QED BY <1>1, <1>2, <1>3 DEF DrainInv

\* A drain that decided it was complete leaves an empty queue, if nobody else
\* enqueued and no lease ran out under a live loop: of the loops of all the
\* processes that share the queue, none still had a task in hand.
THEOREM DrainsExitEmpty == Spec => []DrainExitsEmpty
<1>1. Init => DrainInv
  <2> SUFFICES ASSUME Init PROVE DrainInv
    OBVIOUS
  <2>1. \A w \in Owners : Placed(w) /\ Safe(w)
    BY DEF Init, Placed, Safe, Tokens, Ended
  <2>2. Dry
    BY DEF Init, Dry
  <2>3. \A kind \in Kinds : budget[kind] <= Budget[kind]
    BY WorkersAssumption DEF Init
  <2> QED BY <2>1, <2>2, <2>3 DEF DrainInv
<1>2. TypeOK /\ TypeOK' /\ LeaseInv /\ DrainInv /\ [Next]_vars => DrainInv'
  BY NextDrain
<1>3. DrainInv => DrainExitsEmpty
  BY DEF DrainInv, Calm, Dry, Empty, DrainExitsEmpty
<1> QED BY <1>1, <1>2, <1>3, TypeCorrect, LeaseInvariant, PTL DEF Spec

-----------------------------------------------------------------------------
\* What is persisted.

\* Nobody has read, and nothing saved is, newer than what the source has
\* published.
NothingAhead ==
  /\ \A w \in Owners : pc[w] \in Extracted =>
       \A k \in cur[w] : seen[w] <= source[k.task]
  /\ \A t \in Tasks : saved[t] <= source[t]

\* A loop that holds the current attempt of its row has read it after whatever
\* was saved or is being saved by a loop that had the row before.
FreshHolder ==
  \A w \in Owners : \A k \in cur[w] : pc[w] \in Extracted /\ Current(k) =>
    /\ saved[k.task] <= seen[w]
    /\ \A v \in Owners \ {w} : \A j \in cur[v] :
         pc[v] = "persist" /\ j.task = k.task => seen[v] <= seen[w]

FreshInv == NothingAhead /\ FreshHolder

\* A loop that is about to persist has what it had.
Steady(v) ==
  pc'[v] \in Extracted =>
    pc'[v] = pc[v] /\ cur'[v] = cur[v] /\ seen'[v] = seen[v]

\* An attempt that is current was so when its holder got it.
LEMMA CurrentBefore ==
  ASSUME TypeOK, TypeOK', LeaseInv, [Next]_vars,
         NEW w \in Owners, NEW k \in cur[w], Current(k)'
  PROVE  Current(k)
<1>1. /\ k.task \in Tasks /\ k.id \in Nat /\ k.attempt \in Nat
      /\ frontier[k.task] \in Row /\ frontier'[k.task] \in Row
      /\ births[k.task] \in Nat
  BY InHandType DEF Token, TypeOK, FrontierType
<1>2. RowAges(k.task)
  BY <1>1, NextOperates, OperationAges DEF TypeOK, LeaseInv, RowsAge
<1>3. /\ k.id \in 1..births[k.task]
      /\ frontier[k.task].id = k.id => k.attempt <= frontier[k.task].attempt
  BY DEF LeaseInv, Fenced, Tokens
<1>4. frontier'[k.task].id = k.id /\ frontier'[k.task].attempt = k.attempt
  BY DEF Current
<1>5. /\ frontier[k.task].id = k.id
      /\ frontier[k.task].attempt <= k.attempt
  BY <1>2, <1>3, <1>4 DEF RowAges
<1>6. frontier[k.task].attempt \in Nat
  BY <1>1 DEF Row
<1> QED BY <1>1, <1>3, <1>5, <1>6 DEF Current

\* What follows a successful persistence: the loop had one task in hand.
LEMMA PersistEffect ==
  ASSUME TypeOK, DurableInv, NEW u \in Owners, Persist(u)
  PROVE  \E k \in cur[u] :
           /\ k.task \in Tasks /\ cur[u] = {k} /\ pc[u] = "persist"
           /\ saved' = [saved EXCEPT ![k.task] = seen[u]]
<1>1. PICK k \in cur[u] : saved' = [saved EXCEPT ![k.task] = seen[u]]
  BY DEF Persist
<1>2. pc[u] = "persist" /\ \A j \in cur[u] : j = k
  BY DEF Persist, At, DurableInv, InOrder, Started
<1> QED BY <1>1, <1>2, InHandType

\* While the loops are steady, only persistence could matter, and what it saves
\* the current holder has read since.
LEMMA SteadyKeepsFresh ==
  ASSUME TypeOK, TypeOK', LeaseInv, DurableInv, FreshInv, [Next]_vars,
         \A v \in Owners : Steady(v)
  PROVE  FreshInv'
<1>t. /\ saved \in [Tasks -> Nat] /\ source \in [Tasks -> Nat]
      /\ saved' \in [Tasks -> Nat] /\ source' \in [Tasks -> Nat]
      /\ seen \in [Owners -> Nat]
  BY DEF TypeOK
<1>g. \A t \in Tasks : source[t] <= source'[t]
  BY NextGrows DEF Grows
<1>1. ASSUME NEW t \in Tasks
      PROVE  \/ saved'[t] = saved[t]
             \/ \E u \in Owners : \E j \in cur[u] :
                  /\ j.task = t /\ cur[u] = {j} /\ pc[u] = "persist"
                  /\ saved'[t] = seen[u] /\ pc'[u] = "enqueue"
  <2>1. CASE UNCHANGED saved
    BY <2>1
  <2>2. ASSUME NEW u \in Owners, Persist(u)
        PROVE  \/ saved'[t] = saved[t]
               \/ \E j \in cur[u] :
                    /\ j.task = t /\ cur[u] = {j} /\ pc[u] = "persist"
                    /\ saved'[t] = seen[u] /\ pc'[u] = "enqueue"
    <3>1. PICK j \in cur[u] :
            /\ j.task \in Tasks /\ cur[u] = {j} /\ pc[u] = "persist"
            /\ saved' = [saved EXCEPT ![j.task] = seen[u]]
      BY <2>2, PersistEffect
    <3>2. pc'[u] = "enqueue"
      BY <2>2 DEF Persist, Goto, TypeOK
    <3> QED BY <1>t, <3>1, <3>2
  <2> QED BY <2>1, <2>2, PersistSaves
<1>2. \A t \in Tasks : saved'[t] <= source'[t]
  <2> SUFFICES ASSUME NEW t \in Tasks PROVE saved'[t] <= source'[t]
    OBVIOUS
  <2>1. saved'[t] <= source[t]
    BY <1>t, <1>1 DEF FreshInv, NothingAhead, Extracted
  <2> QED BY <1>t, <1>g, <2>1
<1>3. ASSUME NEW w \in Owners, pc'[w] \in Extracted, NEW k \in cur'[w]
      PROVE  seen'[w] <= source'[k.task]
  <2>1. /\ pc[w] \in Extracted /\ k \in cur[w] /\ seen'[w] = seen[w]
        /\ k.task \in Tasks
    BY <1>3, InHandType DEF Steady
  <2>2. seen[w] <= source[k.task]
    BY <2>1 DEF FreshInv, NothingAhead
  <2> QED BY <1>t, <1>g, <2>1, <2>2
<1>4. ASSUME NEW w \in Owners, pc'[w] \in Extracted, NEW k \in cur'[w],
             Current(k)'
      PROVE  /\ saved'[k.task] <= seen'[w]
             /\ \A v \in Owners \ {w} : \A j \in cur'[v] :
                  pc'[v] = "persist" /\ j.task = k.task
                    => seen'[v] <= seen'[w]
  <2>1. /\ pc'[w] = pc[w] /\ pc[w] \in Extracted /\ k \in cur[w]
        /\ seen'[w] = seen[w] /\ k.task \in Tasks
    BY <1>4, InHandType DEF Steady
  <2>2. Current(k)
    BY <1>4, <2>1, CurrentBefore
  <2>3. /\ saved[k.task] <= seen[w]
        /\ \A v \in Owners \ {w} : \A j \in cur[v] :
             pc[v] = "persist" /\ j.task = k.task => seen[v] <= seen[w]
    BY <2>1, <2>2 DEF FreshInv, FreshHolder
  <2>4. saved'[k.task] <= seen'[w]
    <3>1. CASE saved'[k.task] = saved[k.task]
      BY <2>1, <2>3, <3>1
    <3>2. ASSUME NEW u \in Owners, NEW j \in cur[u], j.task = k.task,
                 pc[u] = "persist", saved'[k.task] = seen[u],
                 pc'[u] = "enqueue"
          PROVE  saved'[k.task] <= seen'[w]
      <4>1. u # w
        BY <1>4, <3>2 DEF Extracted
      <4> QED BY <2>1, <2>3, <3>2, <4>1
    <3> QED BY <1>1, <2>1, <3>1, <3>2
  <2>5. ASSUME NEW v \in Owners \ {w}, NEW j \in cur'[v],
               pc'[v] = "persist", j.task = k.task
        PROVE  seen'[v] <= seen'[w]
    <3>1. pc[v] = "persist" /\ j \in cur[v] /\ seen'[v] = seen[v]
      BY <2>5 DEF Steady, Extracted
    <3> QED BY <2>1, <2>3, <2>5, <3>1
  <2> QED BY <2>4, <2>5
<1> QED BY <1>2, <1>3, <1>4 DEF FreshInv, NothingAhead, FreshHolder

\* What a loop reads is as new as anything read or saved before.
LEMMA ExtractKeepsFresh ==
  ASSUME TypeOK, TypeOK', LeaseInv, DurableInv, FreshInv,
         NEW w \in Owners, Extract(w)
  PROVE  FreshInv'
<1>t. /\ pc \in [Owners -> Labels] /\ cur \in [Owners -> SUBSET Token]
      /\ seen \in [Owners -> Nat]
      /\ saved \in [Tasks -> Nat] /\ source \in [Tasks -> Nat]
  BY DEF TypeOK, Labels
<1>1. /\ cur' = cur /\ saved' = saved /\ source' = source
      /\ frontier' = frontier
  BY DEF Extract, dataVars, frontierVars
<1>2. \A v \in Owners \ {w} : pc'[v] = pc[v] /\ seen'[v] = seen[v]
  BY <1>t DEF Extract, Goto
<1>3. ASSUME pc'[w] \in Extracted, NEW k \in cur[w]
      PROVE  seen'[w] = source[k.task] /\ pc'[w] = "extend"
  <2>1. pc'[w] = "extend"
    BY <1>t, <1>3 DEF Extract, Goto, Extracted
  <2>2. PICK j \in cur[w] : seen' = [seen EXCEPT ![w] = source[j.task]]
    BY <1>t, <2>1 DEF Extract, Goto
  <2>3. j = k
    BY DEF Extract, At, DurableInv, InOrder, Started
  <2> QED BY <1>t, <2>1, <2>2, <2>3
<1>4. NothingAhead'
  <2>1. \A t \in Tasks : saved'[t] <= source'[t]
    BY <1>1 DEF FreshInv, NothingAhead
  <2>2. ASSUME NEW v \in Owners, pc'[v] \in Extracted, NEW k \in cur'[v]
        PROVE  seen'[v] <= source'[k.task]
    <3>1. k \in cur[v] /\ k.task \in Tasks
      BY <1>1, <2>2, InHandType
    <3>2. CASE v = w
      BY <1>t, <1>1, <1>3, <2>2, <3>1, <3>2
    <3>3. CASE v # w
      BY <1>1, <1>2, <2>2, <3>1, <3>3 DEF FreshInv, NothingAhead
    <3> QED BY <3>2, <3>3
  <2> QED BY <2>1, <2>2 DEF NothingAhead
<1>5. ASSUME NEW v \in Owners, pc'[v] \in Extracted, NEW k \in cur[v],
             Current(k),
             NEW u \in Owners \ {v}, NEW j \in cur[u], pc'[u] = "persist",
             j.task = k.task
      PROVE  seen'[u] <= seen'[v]
  <2>1. u # w
    BY <1>3, <1>5 DEF Extracted
  <2>2. pc[u] = "persist" /\ seen'[u] = seen[u]
    BY <1>2, <1>5, <2>1
  <2>3. CASE v = w
    BY <1>3, <1>5, <2>2, <2>3 DEF FreshInv, NothingAhead, Extracted
  <2>4. CASE v # w
    BY <1>2, <1>5, <2>2, <2>4 DEF FreshInv, FreshHolder
  <2> QED BY <2>3, <2>4
<1>6. ASSUME NEW v \in Owners, pc'[v] \in Extracted, NEW k \in cur[v],
             Current(k)
      PROVE  saved[k.task] <= seen'[v]
  <2>1. k.task \in Tasks
    BY InHandType
  <2>2. CASE v = w
    BY <1>3, <1>6, <2>1, <2>2 DEF FreshInv, NothingAhead
  <2>3. CASE v # w
    BY <1>2, <1>6, <2>3 DEF FreshInv, FreshHolder
  <2> QED BY <2>2, <2>3
<1>7. FreshHolder'
  BY <1>1, <1>5, <1>6 DEF FreshHolder, Current
<1> QED BY <1>4, <1>7 DEF FreshInv

\* A loop may persist once it has extended the lease: nobody else has the
\* current attempt.
LEMMA FenceKeepsFresh ==
  ASSUME TypeOK, TypeOK', LeaseInv, DurableInv, FreshInv, [Next]_vars,
         NEW w \in Owners, ExtendLease(w)
  PROVE  FreshInv'
<1>t. /\ pc \in [Owners -> Labels] /\ cur \in [Owners -> SUBSET Token]
      /\ seen \in [Owners -> Nat]
  BY DEF TypeOK, Labels
<1>1. CASE FinishTask(w)
  <2>1. \A v \in Owners : Steady(v)
    BY <1>t, <1>1 DEF FinishTask, Goto, Steady, Extracted
  <2> QED BY <2>1, SteadyKeepsFresh
<1>2. ASSUME NEW i \in cur[w], Holds(w, i), Goto(w, "persist"),
             UNCHANGED <<cur, seen>>
      PROVE  FreshInv'
  <2>1. /\ pc[w] = "extend" /\ pc'[w] = "persist"
        /\ \A v \in Owners \ {w} : pc'[v] = pc[v]
        /\ saved' = saved /\ source' = source
        /\ \A k \in cur[w] : k = i
    BY <1>t, <1>2
    DEF ExtendLease, At, Goto, dataVars, DurableInv, InOrder, Started
  <2>2. \A v \in Owners : (pc'[v] \in Extracted) = (pc[v] \in Extracted)
    BY <2>1 DEF Extracted
  <2>3. NothingAhead'
    BY <1>2, <2>1, <2>2 DEF FreshInv, NothingAhead
  <2>4. ASSUME NEW v \in Owners, pc'[v] \in Extracted, NEW k \in cur[v],
               Current(k)'
        PROVE  /\ saved[k.task] <= seen[v]
               /\ \A u \in Owners \ {v} : \A j \in cur[u] :
                    pc'[u] = "persist" /\ j.task = k.task
                      => seen[u] <= seen[v]
    <3>1. Current(k)
      BY <2>4, CurrentBefore
    <3>2. /\ saved[k.task] <= seen[v]
          /\ \A u \in Owners \ {v} : \A j \in cur[u] :
               pc[u] = "persist" /\ j.task = k.task => seen[u] <= seen[v]
      BY <2>2, <2>4, <3>1 DEF FreshInv, FreshHolder
    <3>3. ASSUME NEW u \in Owners \ {v}, NEW j \in cur[u],
                 pc'[u] = "persist", j.task = k.task
          PROVE  seen[u] <= seen[v]
      <4>1. CASE u # w
        BY <2>1, <3>2, <3>3, <4>1
      <4>2. CASE u = w
        <5>1. j \in Token /\ k \in Token /\ Current(j)
          BY <1>2, <2>1, <3>3, <4>2, InHandType DEF Holds
        <5>2. j = k
          <6>1. j.id = k.id /\ j.attempt = k.attempt
            BY <3>1, <3>3, <5>1 DEF Current
          <6> QED BY <3>3, <5>1, <6>1 DEF Token
        <5>3. j \in Tokens(u) \cap Tokens(v)
          BY <3>3, <5>2 DEF Tokens
        <5> QED BY <5>3 DEF LeaseInv, SingleHolder
      <4> QED BY <4>1, <4>2
    <3> QED BY <3>2, <3>3
  <2>5. FreshHolder'
    BY <1>2, <2>1, <2>4 DEF FreshHolder
  <2> QED BY <2>3, <2>5 DEF FreshInv
<1> QED BY <1>1, <1>2 DEF ExtendLease

\* Every step keeps it.
LEMMA NextFresh ==
  ASSUME TypeOK, TypeOK', LeaseInv, DurableInv, FreshInv, [Next]_vars
  PROVE  FreshInv'
<1>t. pc \in [Owners -> Labels]
  BY DEF TypeOK, Labels
<1>1. CASE \E w \in Owners : Extract(w)
  BY <1>1, ExtractKeepsFresh
<1>2. CASE \E w \in Owners : ExtendLease(w)
  BY <1>2, FenceKeepsFresh
<1>3. ASSUME NEW w \in Owners,
             Persist(w) \/ EnqueueFound(w) \/ CompleteRead(w)
               \/ CompleteWrite(w)
      PROVE  \A v \in Owners : Steady(v)
  <2>1. pc'[w] \notin Extracted
    BY <1>t, <1>3 DEF Persist, EnqueueFound, CompleteRead, CompleteWrite,
                      FinishTask, Goto, Extracted
  <2>2. OthersAlone(w)
    BY <1>3, StepIsLocal DEF TaskStep
  <2>3. \A v \in Owners \ {w} : seen'[v] = seen[v]
    BY <1>3 DEF Persist, EnqueueFound, CompleteRead, CompleteWrite,
                FinishTask, TypeOK
  <2> QED BY <2>1, <2>2, <2>3 DEF OthersAlone, Steady
<1>4. ASSUME \A w \in Owners : ~Advance(w)
      PROVE  \A v \in Owners : Steady(v)
  BY <1>4, OthersStandBy DEF Bystander, Steady, Extracted, Started
<1>5. CASE \A v \in Owners : Steady(v)
  BY <1>5, SteadyKeepsFresh
<1> QED BY <1>1, <1>2, <1>3, <1>4, <1>5 DEF Advance

\* Of the loops that have had a row, the one that still holds its current
\* attempt never overwrites newer content with older content, whatever is
\* published, expires or is claimed again between its extraction and its write.
THEOREM HolderNeverRegresses == Spec => CurrentHolderNeverRegresses
<1>1. Init => FreshInv
  <2> SUFFICES ASSUME Init PROVE FreshInv
    OBVIOUS
  <2>1. NothingAhead
    BY DEF Init, NothingAhead
  <2>2. FreshHolder
    BY DEF Init, FreshHolder
  <2> QED BY <2>1, <2>2 DEF FreshInv
<1>2. TypeOK /\ TypeOK' /\ LeaseInv /\ DurableInv /\ FreshInv /\ [Next]_vars
        => FreshInv'
  BY NextFresh
<1>3. TypeOK /\ TypeOK' /\ DurableInv /\ FreshInv /\ [Next]_vars =>
        [\A w \in Owners : \A k \in cur[w] :
           /\ pc[w] = "persist" /\ pc'[w] = "enqueue"
           /\ Current(k)
           => saved'[k.task] >= saved[k.task]]_vars
  <2> SUFFICES ASSUME TypeOK, TypeOK', DurableInv, FreshInv, [Next]_vars,
                      NEW w \in Owners, NEW k \in cur[w],
                      pc[w] = "persist", pc'[w] = "enqueue", Current(k)
               PROVE  saved'[k.task] >= saved[k.task]
    OBVIOUS
  <2>t. saved \in [Tasks -> Nat] /\ k.task \in Tasks /\ seen \in [Owners -> Nat]
    BY InHandType DEF TypeOK
  <2>1. CASE UNCHANGED saved
    BY <2>t, <2>1
  <2>2. ASSUME NEW u \in Owners, Persist(u)
        PROVE  saved'[k.task] >= saved[k.task]
    <3>1. u = w
      BY <2>2, StepIsLocal DEF OthersAlone, TaskStep
    <3>2. PICK j \in cur[u] : /\ cur[u] = {j}
                              /\ saved' = [saved EXCEPT ![j.task] = seen[u]]
      BY <2>2, PersistEffect
    <3>3. saved'[k.task] = seen[w]
      BY <2>t, <3>1, <3>2
    <3>4. saved[k.task] <= seen[w]
      BY DEF FreshInv, FreshHolder, Extracted
    <3> QED BY <2>t, <3>3, <3>4
  <2> QED BY <2>1, <2>2, PersistSaves
<1> QED
  BY <1>1, <1>2, <1>3, TypeCorrect, LeaseInvariant, DurableInvariant, PTL
  DEF Spec, CurrentHolderNeverRegresses

=============================================================================
