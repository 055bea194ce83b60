----------------------------- MODULE StackProofs -----------------------------
(***************************************************************************)
(* Proofs about StrategyStack: its states are well typed, and with any     *)
(* endpoints, thresholds and budgets it implements StackRequest.           *)
(***************************************************************************)
EXTENDS StrategyStack, TLAPS

\* The methods of a breaker leave a breaker behind.
LEMMA BreakerTypes ==
  ASSUME NEW b \in Breaker, NEW n \in Nat
  PROVE  /\ Fresh \in Breaker /\ Allowed(b) \in Breaker
         /\ Succeeded(b) \in Breaker /\ Failed(b, n) \in Breaker
         /\ Cooled(b) \in Breaker
<1>1. Fresh \in Breaker /\ Succeeded(b) \in Breaker
  BY DEF Breaker, BreakerStates, Fresh, Succeeded
<1>2. Allowed(b) \in Breaker
  BY DEF Breaker, BreakerStates, Allowed
<1>3. Failed(b, n) \in Breaker
  <2>1. b.blocks + 1 \in Nat BY DEF Breaker
  <2>2. CASE Opens(b, n) BY <2>1, <2>2 DEF Breaker, BreakerStates, Failed
  <2>3. CASE ~Opens(b, n) BY <2>1, <2>3 DEF Breaker, BreakerStates, Failed
  <2> QED BY <2>2, <2>3
<1>4. Cooled(b) \in Breaker
  BY DEF Breaker, BreakerStates, Cooled
<1> QED BY <1>1, <1>2, <1>3, <1>4

\* What the answers, profiles and budgets of a step leave behind.
LEMMA SpendType ==
  ASSUME stackBudget \in [StackEvents -> Nat], NEW kind \in StackEvents,
         StackSpend(kind)
  PROVE  stackBudget' \in [StackEvents -> Nat]
BY SMT DEF StackSpend

LEMMA PortalType ==
  ASSUME stackBudget \in [StackEvents -> Nat], NEW a \in Answers, Portal(a)
  PROVE  stackBudget' \in [StackEvents -> Nat]
BY SpendType DEF Portal, StackEvents

LEMMA ObservesType ==
  ASSUME StackTypeOK, NEW e \in Endpoints, NEW a \in Answers, Observes(e, a)
  PROVE  /\ captured' \in [Endpoints -> Profile]
         /\ cache' \in [Endpoints -> Answers \cup {"none"}]
BY SMT DEF StackTypeOK, Observes, Profile

LEMMA InterceptsType ==
  ASSUME StackTypeOK, NEW a \in Answers, Intercepts(a)
  PROVE  /\ captured' \in [Endpoints -> Profile]
         /\ cache' \in [Endpoints -> Answers \cup {"none"}]
         /\ stackBudget' \in [StackEvents -> Nat]
<1>1. endpoint \in Endpoints BY DEF StackTypeOK
<1>2. CASE UNCHANGED <<captured, cache, stackBudget>>
  BY <1>2 DEF StackTypeOK
<1>3. CASE Portal(a) /\ Observes(endpoint, a)
  BY <1>1, <1>3, PortalType, ObservesType DEF StackTypeOK
<1> QED BY <1>2, <1>3 DEF Intercepts

LEMMA RecordsType ==
  ASSUME StackTypeOK, NEW a \in Answers, Records(a)
  PROVE  /\ laneBreaker' \in Breaker /\ sourceBreaker' \in Breaker
         /\ strategy' = "idle"
<1>1. LaneLimit \in Nat /\ SourceLimit \in Nat BY StackAssumption
<1>2. laneBreaker \in Breaker /\ sourceBreaker \in Breaker BY DEF StackTypeOK
<1> QED BY <1>1, <1>2, BreakerTypes DEF Records

Strategies == {"idle", "direct", "start", "navigate", "refreshed", "capture",
               "intercept", "fetch", "again", "dom"}

LEMMA OrElseType ==
  ASSUME StackTypeOK, NEW a \in Answers, NEW next \in Strategies,
         OrElse(a, next)
  PROVE  /\ laneBreaker' \in Breaker /\ sourceBreaker' \in Breaker
         /\ strategy' \in Strategies
<1>1. CASE Records(a) BY <1>1, RecordsType DEF Strategies
<1>2. CASE Continues(next) BY <1>2 DEF Continues, StackTypeOK
<1> QED BY <1>1, <1>2 DEF OrElse

-----------------------------------------------------------------------------

\* Every state of a stack is well typed: the strategies follow each other as
\* _request_locked lists them, none is made up by a profile or an answer.
THEOREM TypeCorrect == StackSpec => []StackTypeOK
<1>1. StackInit(StackBudget) => StackTypeOK
  <2>1. Fresh \in Breaker BY DEF Fresh, Breaker, BreakerStates
  <2>2. [e \in Endpoints |-> "none"] \in [Endpoints -> Profile]
    BY DEF Profile
  <2> QED BY <2>1, <2>2, StackAssumption DEF StackInit, StackTypeOK
<1>2. StackTypeOK /\ [StackNext]_stackVars => StackTypeOK'
  <2> SUFFICES ASSUME StackTypeOK, [StackNext]_stackVars
               PROVE  StackTypeOK'
    OBVIOUS
  <2> USE DEF browserVars
  <2>0. /\ laneBreaker \in Breaker /\ sourceBreaker \in Breaker
        /\ strategy \in Strategies
        /\ endpoint \in Endpoints /\ launched \in BOOLEAN
        /\ captured \in [Endpoints -> Profile]
        /\ profiles \in [Endpoints -> Profile]
        /\ cache \in [Endpoints -> Answers \cup {"none"}]
        /\ stackBudget \in [StackEvents -> Nat]
    BY DEF StackTypeOK, Strategies
  <2>a. ASSUME laneBreaker' \in Breaker, sourceBreaker' \in Breaker,
               strategy' \in Strategies,
               endpoint' \in Endpoints, launched' \in BOOLEAN,
               captured' \in [Endpoints -> Profile],
               profiles' \in [Endpoints -> Profile],
               cache' \in [Endpoints -> Answers \cup {"none"}],
               stackBudget' \in [StackEvents -> Nat]
        PROVE  StackTypeOK'
    BY <2>a DEF StackTypeOK, Strategies
  <2>1. ASSUME NEW e \in Endpoints, Ask(e)
        PROVE  StackTypeOK'
    <3>1. stackBudget' \in [StackEvents -> Nat] BY <2>0, <2>1, SpendType DEF Ask, StackEvents
    <3>2. laneBreaker' \in Breaker /\ sourceBreaker' \in Breaker
      BY <2>0, <2>1, BreakerTypes DEF Ask
    <3>3. Known(e) \in Profile BY <2>0 DEF Known
    <3>4. profiles' \in [Endpoints -> Profile] BY <2>0, <2>1, <3>3 DEF Ask
    <3>5. strategy' \in Strategies BY <2>0, <2>1 DEF Ask, Strategies
    <3> QED BY <2>0, <2>a, <2>1, <3>1, <3>2, <3>4, <3>5 DEF Ask
  <2>2. ASSUME NEW e \in Endpoints, PageLoads(e)
        PROVE  StackTypeOK'
    <3>1. stackBudget' \in [StackEvents -> Nat]
      BY <2>0, <2>2, SpendType DEF PageLoads, StackEvents
    <3>2. /\ captured' \in [Endpoints -> Profile]
          /\ cache' \in [Endpoints -> Answers \cup {"none"}]
      BY <2>2, ObservesType DEF PageLoads
    <3> QED BY <2>0, <2>a, <2>2, <3>1, <3>2 DEF PageLoads
  <2>3. CASE Direct
    BY <2>0, <2>a, <2>3, PortalType, OrElseType DEF Direct, Strategies
  <2>4. CASE Launch
    BY <2>0, <2>a, <2>4 DEF Launch, Continues, Strategies
  <2>5. CASE Started
    <3>1. captured[endpoint] \in Profile BY <2>0
    <3>2. profiles' \in [Endpoints -> Profile]
      BY <2>0, <2>5, <3>1 DEF Started
    <3>3. strategy' \in Strategies
      BY <2>5, <3>1 DEF Started, Continues, Strategies, Profile
    <3> QED BY <2>0, <2>a, <2>5, <3>2, <3>3 DEF Started, Continues
  <2>6. CASE Refreshed
    BY <2>0, <2>a, <2>6, PortalType, OrElseType DEF Refreshed, Strategies
  <2>7. CASE Capture
    <3>1. PICK a \in Answers : Intercepts(a) /\ OrElse(a, "fetch")
      BY <2>7 DEF Capture
    <3>2. /\ captured' \in [Endpoints -> Profile]
          /\ cache' \in [Endpoints -> Answers \cup {"none"}]
          /\ stackBudget' \in [StackEvents -> Nat]
      BY <3>1, InterceptsType
    <3>3. /\ laneBreaker' \in Breaker /\ sourceBreaker' \in Breaker
          /\ strategy' \in Strategies
      BY <3>1, OrElseType DEF Strategies
    <3>4. profiles' \in [Endpoints -> Profile]
      <4>1. captured'[endpoint] \in Profile BY <2>0, <3>2
      <4> QED BY <2>0, <2>7, <4>1 DEF Capture
    <3> QED BY <2>0, <2>a, <2>7, <3>2, <3>3, <3>4 DEF Capture
  <2>8. CASE Intercept
    BY <2>0, <2>a, <2>8, InterceptsType, RecordsType DEF Intercept, Strategies
  <2>9. CASE Fetch
    <3>1. PICK a \in Answers :
            Portal(a) /\ Observes(endpoint, a) /\ OrElse(a, "again")
      BY <2>9 DEF Fetch
    <3>2. stackBudget' \in [StackEvents -> Nat] BY <2>0, <3>1, PortalType
    <3>3. /\ captured' \in [Endpoints -> Profile]
          /\ cache' \in [Endpoints -> Answers \cup {"none"}]
      BY <2>0, <3>1, ObservesType
    <3>4. /\ laneBreaker' \in Breaker /\ sourceBreaker' \in Breaker
          /\ strategy' \in Strategies
      BY <3>1, OrElseType DEF Strategies
    <3> QED BY <2>0, <2>a, <2>9, <3>2, <3>3, <3>4 DEF Fetch
  <2>10. CASE Again
    <3>1. PICK a \in Answers :
            /\ Intercepts(a)
            /\ IF a = "ok" \/ endpoint \notin Lists THEN Records(a)
               ELSE Continues("dom")
      BY <2>10 DEF Again
    <3>2. /\ captured' \in [Endpoints -> Profile]
          /\ cache' \in [Endpoints -> Answers \cup {"none"}]
          /\ stackBudget' \in [StackEvents -> Nat]
      BY <3>1, InterceptsType
    <3>3. /\ laneBreaker' \in Breaker /\ sourceBreaker' \in Breaker
          /\ strategy' \in Strategies
      BY <2>0, <3>1, RecordsType DEF Continues, Strategies
    <3> QED BY <2>0, <2>a, <2>10, <3>2, <3>3 DEF Again
  <2>11. CASE Dom
    BY <2>0, <2>a, <2>11, RecordsType DEF Dom, Strategies, Answers
  <2>12. CASE StrategyRaises
    BY <2>0, <2>a, <2>12, SpendType
    DEF StrategyRaises, Continues, Strategies, StackEvents
  <2>13. CASE BreakerCools
    BY <2>0, <2>a, <2>13, BreakerTypes DEF BreakerCools
  <2>14. CASE UNCHANGED stackVars
    BY <2>14 DEF stackVars, StackTypeOK
  <2> QED
    BY <2>1, <2>2, <2>3, <2>4, <2>5, <2>6, <2>7, <2>8, <2>9, <2>10, <2>11,
       <2>12, <2>13, <2>14
    DEF StackNext
<1> QED BY <1>1, <1>2, PTL DEF StackSpec

-----------------------------------------------------------------------------

\* Each strategy either ends the request in both breakers or leaves both alone.
LEMMA RecordsIsAnswer ==
  ASSUME strategy # "idle", NEW a \in Answers, Records(a)
  PROVE  Promise!Succeeds \/ Promise!IsBlocked
BY DEF Records, Answers, Promise!Succeeds, Promise!IsBlocked,
       Succeeded, Failed, Opens, Fresh,
       Promise!Succeeded, Promise!Failed, Promise!Opens, Promise!Fresh

LEMMA OrElseIsAnswer ==
  ASSUME strategy # "idle", NEW a \in Answers, NEW next, next # "idle",
         OrElse(a, next)
  PROVE  \/ Promise!Succeeds \/ Promise!IsBlocked
         \/ UNCHANGED <<strategy # "idle", laneBreaker, sourceBreaker>>
<1>1. CASE Records(a) BY <1>1, RecordsIsAnswer
<1>2. CASE Continues(next) BY <1>2 DEF Continues
<1> QED BY <1>1, <1>2 DEF OrElse

\* A stack tries up to four strategies, with awaits between them, and its
\* callers see one: the two breakers change once, with the answer that is
\* returned.
THEOREM OneAwait == StackSpec => StackIsOneAwait
<1>1. StackInit(StackBudget) => Promise!RequestInit
  BY DEF StackInit, Promise!RequestInit, Fresh, Promise!Fresh
<1>2. StackTypeOK /\ [StackNext]_stackVars
        => [Promise!RequestNext]_(Promise!requestVars)
  <2> SUFFICES ASSUME StackTypeOK, [StackNext]_stackVars
               PROVE  [Promise!RequestNext]_(Promise!requestVars)
    OBVIOUS
  <2> USE DEF Promise!RequestNext, Promise!requestVars
  <2>1. ASSUME NEW e \in Endpoints, Ask(e)
        PROVE  Promise!Refuse \/ Promise!Send
    BY <2>1
    DEF Ask, Promise!Refuse, Promise!Send, Refuses, Allowed, Promise!Refuses,
        Promise!Allowed
  <2>2. ASSUME NEW e \in Endpoints, PageLoads(e)
        PROVE  UNCHANGED Promise!requestVars
    BY <2>2 DEF PageLoads
  <2>3. CASE Direct
    BY <2>3, OrElseIsAnswer DEF Direct
  <2>4. CASE Launch
    BY <2>4 DEF Launch, Continues
  <2>5. CASE Started
    <3>1. captured[endpoint] \in Profile BY DEF StackTypeOK
    <3> QED BY <2>5, <3>1 DEF Started, Continues, Profile
  <2>6. CASE Refreshed
    BY <2>6, OrElseIsAnswer DEF Refreshed
  <2>7. CASE Capture
    BY <2>7, OrElseIsAnswer DEF Capture
  <2>8. CASE Intercept
    BY <2>8, RecordsIsAnswer DEF Intercept
  <2>9. CASE Fetch
    BY <2>9, OrElseIsAnswer DEF Fetch
  <2>10. CASE Again
    <3>1. PICK a \in Answers :
            IF a = "ok" \/ endpoint \notin Lists THEN Records(a)
            ELSE Continues("dom")
      BY <2>10 DEF Again
    <3> QED BY <2>10, <3>1, RecordsIsAnswer DEF Again, Continues
  <2>11. CASE Dom
    BY <2>11, RecordsIsAnswer DEF Dom, Answers
  <2>12. CASE StrategyRaises
    BY <2>12 DEF StrategyRaises, Continues, Promise!Raises
  <2>13. CASE BreakerCools
    BY <2>13 DEF BreakerCools, Promise!Cools, Cooled, Promise!Cooled
  <2>14. CASE UNCHANGED stackVars
    BY <2>14 DEF stackVars
  <2> QED
    BY <2>1, <2>2, <2>3, <2>4, <2>5, <2>6, <2>7, <2>8, <2>9, <2>10, <2>11,
       <2>12, <2>13, <2>14
    DEF StackNext
<1> QED
  BY <1>1, <1>2, TypeCorrect, PTL
  DEF StackSpec, StackIsOneAwait, Promise!RequestSpec

=============================================================================
