--------------------------- MODULE FrontierProofs ---------------------------
(***************************************************************************)
(* What the operations of the Frontier preserve, for any tasks, owners and *)
(* batch limit: their types, and three facts about every row and every     *)
(* token a loop may hold, on which the theorems about the workers rest.    *)
(***************************************************************************)
EXTENDS Frontier, TLAPS

\* The row UpsertReplacing and NoRow are built from is a row.
LEMMA NoRowType == NoRow \in Row
BY FrontierAssumption DEF NoRow, Row, LeaseStates

\* What an upsert leaves behind is a row.
LEMMA UpsertedType ==
  ASSUME FrontierType, NEW t \in Tasks, NEW urgent \in BOOLEAN
  PROVE  Upserted(t, urgent) \in Row
<1>1. frontier[t] \in Row /\ births[t] + 1 \in Nat
  BY DEF FrontierType
<1>2. ASSUME NEW r \in Row, NEW u \in BOOLEAN
      PROVE  [r EXCEPT !.due = TRUE, !.urgent = u] \in Row
  BY DEF Row
<1>3. ASSUME NEW r \in Row, NEW i \in Nat, NEW u \in BOOLEAN
      PROVE  [r EXCEPT !.id = i, !.due = TRUE, !.urgent = u] \in Row
  BY DEF Row
<1>4. CASE Queued(t)
  <2> DEFINE u == frontier[t].urgent \/ urgent
  <2>1. u \in BOOLEAN
    OBVIOUS
  <2>2. Upserted(t, urgent) = [frontier[t] EXCEPT !.due = TRUE, !.urgent = u]
    BY <1>4 DEF Upserted
  <2> QED BY <1>1, <1>2, <2>1, <2>2
<1>5. CASE ~Queued(t)
  BY <1>1, <1>3, <1>5, NoRowType DEF Upserted
<1> QED BY <1>4, <1>5

\* enqueue and enqueue_refresh keep the tables well-typed.
LEMMA EnqueueAllType ==
  ASSUME FrontierType, NEW S \in SUBSET Tasks, NEW urgent \in BOOLEAN,
         EnqueueAll(S, urgent)
  PROVE  FrontierType'
<1>1. \A t \in Tasks : Upserted(t, urgent) \in Row
  BY UpsertedType
<1> QED BY <1>1 DEF FrontierType, EnqueueAll

\* claim does.
LEMMA ClaimType ==
  ASSUME FrontierType, NEW w \in Owners, NEW S \in SUBSET Tasks, Claim(w, S)
  PROVE  FrontierType'
<1>1. ASSUME NEW t \in Tasks
      PROVE  [frontier[t] EXCEPT !.owner = w, !.lease = "live",
                                 !.attempt = NextAttempt(t)] \in Row
  <2>1. frontier[t] \in Row
    BY DEF FrontierType
  <2>2. NextAttempt(t) \in Nat
    BY <2>1 DEF NextAttempt, Row
  <2> QED BY <2>1, <2>2 DEF Row, LeaseStates
<1> QED BY <1>1 DEF FrontierType, Claim

\* So does the claim's answer: what it returns are tokens.
LEMMA ClaimedType ==
  ASSUME FrontierType, NEW S \in SUBSET Tasks
  PROVE  Claimed(S) \in SUBSET Token
BY DEF FrontierType, Claimed, NextAttempt, Row, Token

\* release, release_by_owner and release_stale_leases do.
LEMMA UnleaseAllType ==
  ASSUME FrontierType, NEW S \in SUBSET Tasks, UnleaseAll(S)
  PROVE  FrontierType'
BY FrontierAssumption
DEF FrontierType, UnleaseAll, Unleased, Row, LeaseStates

\* extend_lease does.
LEMMA ExtendType ==
  ASSUME FrontierType, NEW k \in Token, Extend(k)
  PROVE  FrontierType'
BY DEF FrontierType, Extend, Row, Token, LeaseStates

\* retry does.
LEMMA RetryType ==
  ASSUME FrontierType, NEW k \in Token, Retry(k)
  PROVE  FrontierType'
<1>1. k.task \in Tasks /\ frontier[k.task] \in Row
  BY DEF FrontierType, Token
<1>2. [Unleased(k.task) EXCEPT !.due = FALSE] \in Row
  BY <1>1, FrontierAssumption DEF Unleased, Row, LeaseStates
<1> QED BY <1>1, <1>2 DEF FrontierType, Retry

\* complete and fail do, with the row they insert into the history.
LEMMA RemoveType ==
  ASSUME FrontierType, NEW k \in Token, NEW outcome \in Outcomes,
         Remove(k, outcome)
  PROVE  FrontierType'
BY NoRowType DEF FrontierType, Remove, Record, Token

\* The passing of time does.
LEMMA TimeType ==
  ASSUME FrontierType, NEW t \in Tasks, LeaseRunsOut(t) \/ BecomeDue(t)
  PROVE  FrontierType'
<1>1. frontier[t] \in Row
  BY DEF FrontierType
<1>2. /\ [frontier[t] EXCEPT !.lease = "expired"] \in Row
      /\ [frontier[t] EXCEPT !.due = TRUE] \in Row
  BY <1>1 DEF Row, LeaseStates
<1> QED BY <1>1, <1>2 DEF FrontierType, LeaseRunsOut, BecomeDue

-----------------------------------------------------------------------------
\* What every operation does to the rows and promises to the tokens.

\* A row's id is 0 or one of the numbers its task has used.
RowsCounted == \A t \in Tasks : frontier[t].id \in 0..births[t]

\* A step never brings a row back: a row of an old number was there before, its
\* attempt has not decreased, and its owner is new only at a new attempt.
RowAges(t) ==
  /\ births'[t] \in Nat /\ births[t] <= births'[t]
  /\ frontier'[t].id \in 0..births'[t]
  /\ frontier'[t].id \in 1..births[t] =>
       /\ frontier'[t].id = frontier[t].id
       /\ frontier[t].attempt <= frontier'[t].attempt
       /\ frontier'[t].attempt = frontier[t].attempt
            => frontier'[t].owner \in {frontier[t].owner, NoOwner}

RowsAge == \A t \in Tasks : RowAges(t)

\* Nothing happens to the tables.
LEMMA SameFrontierAges ==
  ASSUME FrontierType, RowsCounted, UNCHANGED frontierVars
  PROVE  RowsAge
BY DEF FrontierType, RowsCounted, RowsAge, RowAges, frontierVars, Row

\* enqueue and enqueue_refresh.
LEMMA EnqueueAllAges ==
  ASSUME FrontierType, RowsCounted, NEW S \in SUBSET Tasks,
         NEW urgent \in BOOLEAN, EnqueueAll(S, urgent)
  PROVE  RowsAge
<1> SUFFICES ASSUME NEW t \in Tasks PROVE RowAges(t)
  BY DEF RowsAge
<1>1. /\ frontier[t] \in Row /\ births[t] \in Nat
      /\ frontier[t].id \in 0..births[t]
  BY DEF FrontierType, RowsCounted
<1>2. CASE t \notin S
  BY <1>1, <1>2 DEF EnqueueAll, RowAges, Row
<1>3. CASE t \in S /\ Queued(t)
  <2>1. /\ frontier'[t].id = frontier[t].id
        /\ frontier'[t].attempt = frontier[t].attempt
        /\ frontier'[t].owner = frontier[t].owner
    BY <1>1, <1>3 DEF EnqueueAll, Upserted, Row
  <2> QED BY <1>1, <1>3, <2>1 DEF EnqueueAll, RowAges, Row
<1>4. CASE t \in S /\ ~Queued(t)
  <2>1. frontier'[t].id = births[t] + 1 /\ births'[t] = births[t] + 1
    BY <1>1, <1>4 DEF EnqueueAll, Upserted, NoRow
  <2> QED BY <1>1, <2>1 DEF RowAges
<1> QED BY <1>2, <1>3, <1>4

\* claim.
LEMMA ClaimAges ==
  ASSUME FrontierType, RowsCounted, NEW w \in Owners, NEW S \in SUBSET Tasks,
         Claim(w, S)
  PROVE  RowsAge
<1> SUFFICES ASSUME NEW t \in Tasks PROVE RowAges(t)
  BY DEF RowsAge
<1>1. /\ frontier[t] \in Row /\ births[t] \in Nat
      /\ frontier[t].id \in 0..births[t]
  BY DEF FrontierType, RowsCounted
<1>2. /\ frontier'[t].id = frontier[t].id
      /\ \/ frontier'[t] = frontier[t]
         \/ frontier'[t].attempt = frontier[t].attempt + 1
  BY <1>1 DEF Claim, NextAttempt, Row
<1>3. births'[t] = births[t] /\ frontier[t].attempt \in Nat
  BY <1>1 DEF Claim, Row
<1>4. CASE frontier'[t] = frontier[t]
  BY <1>1, <1>3, <1>4 DEF RowAges
<1>5. CASE frontier'[t].attempt = frontier[t].attempt + 1
  BY <1>1, <1>2, <1>3, <1>5 DEF RowAges
<1> QED BY <1>2, <1>4, <1>5

\* release, release_by_owner and release_stale_leases.
LEMMA UnleaseAllAges ==
  ASSUME FrontierType, RowsCounted, NEW S \in SUBSET Tasks, UnleaseAll(S)
  PROVE  RowsAge
<1> SUFFICES ASSUME NEW t \in Tasks PROVE RowAges(t)
  BY DEF RowsAge
<1>1. /\ frontier[t] \in Row /\ births[t] \in Nat
      /\ frontier[t].id \in 0..births[t]
  BY DEF FrontierType, RowsCounted
<1>2. /\ frontier'[t].id = frontier[t].id
      /\ frontier'[t].attempt = frontier[t].attempt
      /\ frontier'[t].owner \in {frontier[t].owner, NoOwner}
  BY <1>1 DEF UnleaseAll, Unleased, Row
<1> QED BY <1>1, <1>2 DEF UnleaseAll, RowAges, Row

\* extend_lease.
LEMMA ExtendAges ==
  ASSUME FrontierType, RowsCounted, NEW k \in Token, Extend(k)
  PROVE  RowsAge
<1> SUFFICES ASSUME NEW t \in Tasks PROVE RowAges(t)
  BY DEF RowsAge
<1>1. /\ frontier[t] \in Row /\ births[t] \in Nat
      /\ frontier[t].id \in 0..births[t]
  BY DEF FrontierType, RowsCounted
<1>2. /\ frontier'[t].id = frontier[t].id
      /\ frontier'[t].attempt = frontier[t].attempt
      /\ frontier'[t].owner = frontier[t].owner
  BY <1>1 DEF Extend, FrontierType, Row, Token
<1> QED BY <1>1, <1>2 DEF Extend, RowAges, Row

\* retry.
LEMMA RetryAges ==
  ASSUME FrontierType, RowsCounted, NEW k \in Token, Retry(k)
  PROVE  RowsAge
<1> SUFFICES ASSUME NEW t \in Tasks PROVE RowAges(t)
  BY DEF RowsAge
<1>1. /\ frontier[t] \in Row /\ births[t] \in Nat
      /\ frontier[t].id \in 0..births[t]
  BY DEF FrontierType, RowsCounted
<1>2. /\ frontier'[t].id = frontier[t].id
      /\ frontier'[t].attempt = frontier[t].attempt
      /\ frontier'[t].owner \in {frontier[t].owner, NoOwner}
  BY <1>1 DEF Retry, Unleased, FrontierType, Row, Token
<1> QED BY <1>1, <1>2 DEF Retry, RowAges, Row

\* complete and fail.
LEMMA RemoveAges ==
  ASSUME FrontierType, RowsCounted, NEW k \in Token, NEW outcome \in Outcomes,
         Remove(k, outcome)
  PROVE  RowsAge
<1> SUFFICES ASSUME NEW t \in Tasks PROVE RowAges(t)
  BY DEF RowsAge
<1>1. /\ frontier[t] \in Row /\ births[t] \in Nat
      /\ frontier[t].id \in 0..births[t]
  BY DEF FrontierType, RowsCounted
<1>2. frontier'[t] = frontier[t] \/ frontier'[t] = NoRow
  BY <1>1 DEF Remove, FrontierType, Token
<1> QED BY <1>1, <1>2 DEF Remove, RowAges, Row, NoRow

\* The passing of time.
LEMMA TimeAges ==
  ASSUME FrontierType, RowsCounted, NEW u \in Tasks,
         LeaseRunsOut(u) \/ BecomeDue(u)
  PROVE  RowsAge
<1> SUFFICES ASSUME NEW t \in Tasks PROVE RowAges(t)
  BY DEF RowsAge
<1>1. /\ frontier[t] \in Row /\ births[t] \in Nat
      /\ frontier[t].id \in 0..births[t]
  BY DEF FrontierType, RowsCounted
<1>2. /\ frontier'[t].id = frontier[t].id
      /\ frontier'[t].attempt = frontier[t].attempt
      /\ frontier'[t].owner = frontier[t].owner
  BY <1>1 DEF LeaseRunsOut, BecomeDue, FrontierType, Row
<1> QED BY <1>1, <1>2 DEF LeaseRunsOut, BecomeDue, RowAges, Row

-----------------------------------------------------------------------------
\* The queue by itself.

\* The seeded queue is well-typed.
LEMMA InitFrontierType == FrontierInit => FrontierType
<1> SUFFICES ASSUME FrontierInit PROVE FrontierType
  OBVIOUS
<1>1. PICK S \in SUBSET Tasks, U \in SUBSET Tasks :
        /\ births = [t \in Tasks |-> IF t \in S THEN 1 ELSE 0]
        /\ frontier = [t \in Tasks |->
                         IF t \in S
                         THEN [NoRow EXCEPT !.id = 1, !.due = TRUE,
                                            !.urgent = (t \in U)]
                         ELSE NoRow]
  BY DEF FrontierInit
<1>2. ASSUME NEW u \in BOOLEAN
      PROVE  [NoRow EXCEPT !.id = 1, !.due = TRUE, !.urgent = u] \in Row
  BY NoRowType DEF Row
<1>3. \A t \in Tasks : (t \in U) \in BOOLEAN
  OBVIOUS
<1>4. frontier \in [Tasks -> Row]
  BY <1>1, <1>2, <1>3, NoRowType
<1>5. births \in [Tasks -> Nat]
  BY <1>1
<1> QED BY <1>4, <1>5 DEF FrontierType, FrontierInit

\* Its rows are the first of their tasks.
LEMMA InitRowsCounted == FrontierInit => RowsCounted
<1> SUFFICES ASSUME FrontierInit PROVE RowsCounted
  OBVIOUS
<1>1. PICK S \in SUBSET Tasks, U \in SUBSET Tasks :
        /\ births = [t \in Tasks |-> IF t \in S THEN 1 ELSE 0]
        /\ frontier = [t \in Tasks |->
                         IF t \in S
                         THEN [NoRow EXCEPT !.id = 1, !.due = TRUE,
                                            !.urgent = (t \in U)]
                         ELSE NoRow]
  BY DEF FrontierInit
<1>2. ASSUME NEW u
      PROVE  [NoRow EXCEPT !.id = 1, !.due = TRUE, !.urgent = u].id = 1
  BY DEF NoRow
<1>3. ASSUME NEW t \in Tasks
      PROVE  frontier[t].id \in 0..births[t]
  <2>1. CASE t \in S
    <3>1. frontier[t] = [NoRow EXCEPT !.id = 1, !.due = TRUE,
                                      !.urgent = (t \in U)]
      BY <1>1, <2>1
    <3>2. frontier[t].id = 1 /\ births[t] = 1
      BY <1>1, <1>2, <2>1, <3>1
    <3> QED BY <3>2
  <2>2. CASE t \notin S
    <3>1. frontier[t] = NoRow /\ births[t] = 0
      BY <1>1, <2>2
    <3> QED BY <3>1 DEF NoRow
  <2> QED BY <2>1, <2>2
<1> QED BY <1>3 DEF RowsCounted

\* Every operation, and doing nothing, keeps the types.
LEMMA OperationType ==
  ASSUME FrontierType, [Operation]_frontierVars
  PROVE  FrontierType'
<1>1. CASE UNCHANGED frontierVars
  BY <1>1 DEF FrontierType, frontierVars
<1>2. CASE Operation
  BY <1>2, EnqueueAllType, ClaimType, UnleaseAllType, ExtendType, RetryType,
     RemoveType, TimeType
  DEF Operation
<1> QED BY <1>1, <1>2

\* Every operation lets the rows age.
LEMMA OperationAges ==
  ASSUME FrontierType, RowsCounted, [Operation]_frontierVars
  PROVE  RowsAge
<1>1. CASE UNCHANGED frontierVars
  BY <1>1, SameFrontierAges
<1>2. CASE Operation
  BY <1>2, EnqueueAllAges, ClaimAges, UnleaseAllAges, ExtendAges, RetryAges,
     RemoveAges, TimeAges
  DEF Operation
<1> QED BY <1>1, <1>2

\* Rows that age are counted.
LEMMA AgeingKeepsCount ==
  ASSUME RowsAge
  PROVE  RowsCounted'
BY DEF RowsAge, RowAges, RowsCounted

\* enqueue and enqueue_refresh lose no task: they add rows, of new numbers.
LEMMA EnqueueAllLosesNothing ==
  ASSUME FrontierType, NoTaskLost, NEW S \in SUBSET Tasks,
         NEW urgent \in BOOLEAN, EnqueueAll(S, urgent)
  PROVE  NoTaskLost'
<1> SUFFICES ASSUME NEW t \in Tasks, NEW i \in 1..births'[t]
             PROVE  \/ frontier'[t].id = i
                    \/ \E h \in history' : h.task = t /\ h.id = i
  BY DEF NoTaskLost
<1>1. frontier[t] \in Row /\ births[t] \in Nat /\ history' = history
  BY DEF FrontierType, EnqueueAll
<1>2. CASE t \in S /\ ~Queued(t)
  <2>1. births'[t] = births[t] + 1 /\ frontier'[t].id = births[t] + 1
    BY <1>1, <1>2 DEF EnqueueAll, Upserted, NoRow
  <2>2. CASE i = births[t] + 1
    BY <2>1, <2>2
  <2>3. CASE i # births[t] + 1
    <3>1. i \in 1..births[t] /\ frontier[t].id # i
      BY <1>1, <1>2, <2>1, <2>3 DEF Queued
    <3> QED BY <1>1, <3>1 DEF NoTaskLost
  <2> QED BY <2>2, <2>3
<1>3. CASE ~(t \in S /\ ~Queued(t))
  <2>1. births'[t] = births[t] /\ frontier'[t].id = frontier[t].id
    BY <1>1, <1>3 DEF EnqueueAll, Upserted, Row
  <2> QED BY <1>1, <2>1 DEF NoTaskLost
<1> QED BY <1>2, <1>3

\* complete and fail lose none: the row they delete is in the history.
LEMMA RemoveLosesNothing ==
  ASSUME FrontierType, NoTaskLost, NEW k \in Token, NEW outcome \in Outcomes,
         Remove(k, outcome)
  PROVE  NoTaskLost'
<1> DEFINE record == [task |-> k.task, id |-> k.id, attempt |-> k.attempt,
                      outcome |-> outcome]
<1> SUFFICES ASSUME NEW t \in Tasks, NEW i \in 1..births'[t]
             PROVE  \/ frontier'[t].id = i
                    \/ \E h \in history' : h.task = t /\ h.id = i
  BY DEF NoTaskLost
<1>1. k.task \in Tasks /\ frontier \in [Tasks -> Row]
  BY DEF Token, FrontierType
<1>2. births'[t] = births[t] /\ history' = history \cup {record}
  BY DEF Remove
<1>3. CASE t = k.task /\ i = k.id
  <2>1. record.task = t /\ record.id = i
    BY <1>3
  <2> QED BY <1>2, <2>1
<1>4. CASE ~(t = k.task /\ i = k.id)
  <2>1. frontier[t].id = i => frontier'[t].id = i
    BY <1>1, <1>4 DEF Remove
  <2> QED BY <1>2, <2>1 DEF NoTaskLost
<1> QED BY <1>3, <1>4

\* The other operations keep every row's number.
LEMMA OthersLoseNothing ==
  ASSUME FrontierType, NoTaskLost,
         \/ \E w \in Owners, S \in SUBSET Tasks : Claim(w, S)
         \/ \E S \in SUBSET Tasks : UnleaseAll(S)
         \/ \E k \in Token : Extend(k) \/ Retry(k)
         \/ \E t \in Tasks : LeaseRunsOut(t) \/ BecomeDue(t)
         \/ UNCHANGED frontierVars
  PROVE  NoTaskLost'
<1> SUFFICES /\ UNCHANGED <<births, history>>
             /\ \A t \in Tasks : frontier'[t].id = frontier[t].id
  BY DEF NoTaskLost
<1>1. ASSUME NEW w \in Owners, NEW S \in SUBSET Tasks, Claim(w, S)
      PROVE  /\ UNCHANGED <<births, history>>
             /\ \A t \in Tasks : frontier'[t].id = frontier[t].id
  BY <1>1 DEF Claim, FrontierType, Row
<1>2. ASSUME NEW S \in SUBSET Tasks, UnleaseAll(S)
      PROVE  /\ UNCHANGED <<births, history>>
             /\ \A t \in Tasks : frontier'[t].id = frontier[t].id
  BY <1>2 DEF UnleaseAll, Unleased, FrontierType, Row
<1>3. ASSUME NEW k \in Token, Extend(k) \/ Retry(k)
      PROVE  /\ UNCHANGED <<births, history>>
             /\ \A t \in Tasks : frontier'[t].id = frontier[t].id
  <2> SUFFICES ASSUME NEW t \in Tasks
               PROVE  frontier'[t].id = frontier[t].id
    BY <1>3 DEF Extend, Retry
  <2>1. /\ k.task \in Tasks /\ frontier[k.task] \in Row
        /\ frontier \in [Tasks -> Row]
    BY DEF FrontierType, Token
  <2>2. CASE Extend(k)
    BY <2>1, <2>2 DEF Extend, Row
  <2>3. CASE Retry(k)
    <3>1. [Unleased(k.task) EXCEPT !.due = FALSE].id = frontier[k.task].id
      BY <2>1 DEF Unleased, Row
    <3> QED BY <2>1, <2>3, <3>1 DEF Retry
  <2> QED BY <1>3, <2>2, <2>3
<1>4. ASSUME NEW u \in Tasks, LeaseRunsOut(u) \/ BecomeDue(u)
      PROVE  /\ UNCHANGED <<births, history>>
             /\ \A t \in Tasks : frontier'[t].id = frontier[t].id
  BY <1>4 DEF LeaseRunsOut, BecomeDue, FrontierType, Row
<1> QED BY <1>1, <1>2, <1>3, <1>4 DEF frontierVars

\* The queue, whoever uses it and however, loses no task: a row leaves it only
\* with a row of the history that names it.
THEOREM QueueLosesNothing == FrontierSpec => []NoTaskLost
<1> DEFINE Inv == FrontierType /\ NoTaskLost
<1>1. FrontierInit => Inv
  <2> SUFFICES ASSUME FrontierInit PROVE NoTaskLost
    BY InitFrontierType
  <2>1. PICK S \in SUBSET Tasks, U \in SUBSET Tasks :
          /\ births = [t \in Tasks |-> IF t \in S THEN 1 ELSE 0]
          /\ frontier = [t \in Tasks |->
                           IF t \in S
                           THEN [NoRow EXCEPT !.id = 1, !.due = TRUE,
                                              !.urgent = (t \in U)]
                           ELSE NoRow]
    BY DEF FrontierInit
  <2>2. ASSUME NEW u
        PROVE  [NoRow EXCEPT !.id = 1, !.due = TRUE, !.urgent = u].id = 1
    BY DEF NoRow
  <2>3. ASSUME NEW t \in Tasks, NEW i \in 1..births[t]
        PROVE  frontier[t].id = i
    <3>1. t \in S /\ i = 1
      <4>1. births[t] = IF t \in S THEN 1 ELSE 0
        BY <2>1
      <4>2. CASE t \in S
        BY <4>1, <4>2
      <4>3. CASE t \notin S
        BY <4>1, <4>3
      <4> QED BY <4>2, <4>3
    <3>2. frontier[t] = [NoRow EXCEPT !.id = 1, !.due = TRUE,
                                      !.urgent = (t \in U)]
      BY <2>1, <3>1
    <3> QED BY <2>2, <3>1, <3>2
  <2> QED BY <2>3 DEF NoTaskLost
<1>2. Inv /\ [Operation]_frontierVars => Inv'
  <2> SUFFICES ASSUME Inv, [Operation]_frontierVars PROVE NoTaskLost'
    BY OperationType
  <2> QED BY EnqueueAllLosesNothing, RemoveLosesNothing, OthersLoseNothing
      DEF Operation
<1>3. Inv => NoTaskLost
  OBVIOUS
<1> QED BY <1>1, <1>2, <1>3, PTL DEF FrontierSpec

=============================================================================
