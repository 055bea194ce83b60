----------------------------- MODULE ZakupLanes -----------------------------
(***************************************************************************)
(* ZakupSkAdapter._request: concurrent requests share a few session lanes, *)
(* each with its own circuit breaker and, in pool mode, its own proxy, and *)
(* one breaker for the whole source.  The strategies tried in turn inside  *)
(* one stack request (direct, refreshed direct, interception, in-page      *)
(* fetch, DOM) change the breakers only with their final result and are    *)
(* one await here: StrategyStack shows why.  This is the adapter without   *)
(* runtime_state.                                                          *)
(***************************************************************************)
EXTENDS Integers, Sequences, CircuitBreaker, ProxyPool

CONSTANTS
  Requests,        \* the coroutines that may call _request
  LaneCount,       \* len(stacks)
  PoolUrls,        \* proxy_pool.urls; without a pool its first is proxy_url
  LaneThreshold,   \* block_threshold
  SourceThreshold, \* max(2 * block_threshold, 5)
  MaxAttempts,     \* settings.max_attempts
  Budgets          \* bounds to choose from, for each configuration

\* What the environment does: calls of _request, blocked answers, gateway
\* answers (407, 502, 503, 504), exceptions, a lane passing its sticky TTL.
Kinds == {"request", "block", "gateway", "raise", "age"}

ASSUME LanesAssumption ==
  /\ LaneCount \in Nat \ {0}
  /\ Len(PoolUrls) \in Nat /\ DOMAIN PoolUrls = 1..Len(PoolUrls)
  /\ LaneCount <= Len(PoolUrls)
  /\ \A i, j \in DOMAIN PoolUrls : PoolUrls[i] = PoolUrls[j] => i = j
  /\ LaneThreshold \in Nat \ {0} /\ SourceThreshold \in Nat \ {0}
  /\ MaxAttempts \in Nat \ {0}
  /\ DOMAIN Budgets \subseteq {"direct", "provider", "pool"}
  /\ \A n \in DOMAIN Budgets : Budgets[n] \subseteq [Kinds -> Nat]

Lanes == 1..LaneCount
Proxies == {PoolUrls[i] : i \in DOMAIN PoolUrls} \cup {"direct"}

VARIABLES
  network,   \* no rotation, one proxy with rotate_url, or a proxy pool
  breaker,   \* lane_breaker of each lane's stack
  source,    \* source_breaker
  gen,       \* _lane_generations: <<lane, gen>> is the identity of a stack
  proxy,     \* the proxy of each lane's stack
  inUse,     \* _lane_in_use
  aged,      \* the lane is older than sticky_ttl_seconds
  nextLane,  \* _next_lane
  cursor,    \* proxy_pool.cursor
  bad,       \* proxies in cooldown_until
  pc, at,    \* where each request is and the stack it uses
  tried,     \* attempted
  attempts,
  budget

laneVars == <<network, breaker, source, gen, proxy, inUse, aged, nextLane,
              cursor, bad>>
requestVars == <<pc, at, tried, attempts>>
vars == <<laneVars, requestVars, budget>>

Pooled == network = "pool"
Rotates == network \in {"provider", "pool"}

\* Where a request may be: "replace" and "renew" wait for the provider, behind
\* a failure and behind the TTL.
Labels == {"idle", "acquire", "wait", "sent", "replace", "renew"}
Rotating == {"replace", "renew"}

Stacks == Lanes \X Nat
NoStack == <<0, 0>>

TypeOK ==
  /\ network \in DOMAIN Budgets
  /\ breaker \in [Lanes -> Breaker] /\ source \in Breaker
  /\ gen \in [Lanes -> Nat] /\ proxy \in [Lanes -> Proxies]
  /\ inUse \in [Lanes -> BOOLEAN] /\ aged \in [Lanes -> BOOLEAN]
  /\ nextLane \in Lanes
  /\ cursor \in DOMAIN PoolUrls
  /\ bad \subseteq Proxies
  /\ pc \in [Requests -> Labels]
  /\ at \in [Requests -> Stacks \cup {NoStack}]
  /\ tried \in [Requests -> SUBSET Stacks]
  /\ attempts \in [Requests -> Nat]
  /\ budget \in [Kinds -> Nat]

\* The lanes take the first proxies of the pool, the cursor stands behind them.
InitWith(config, events) ==
  /\ network = config
  /\ breaker = [l \in Lanes |-> Fresh] /\ source = Fresh
  /\ gen = [l \in Lanes |-> 0]
  /\ proxy = [l \in Lanes |-> CASE network = "direct" -> "direct"
                                [] network = "provider" -> PoolUrls[1]
                                [] network = "pool" -> PoolUrls[l]]
  /\ inUse = [l \in Lanes |-> FALSE] /\ aged = [l \in Lanes |-> FALSE]
  /\ nextLane = 1
  /\ cursor = (LaneCount % Len(PoolUrls)) + 1
  /\ bad = {}
  /\ pc = [r \in Requests |-> "idle"]
  /\ at = [r \in Requests |-> NoStack]
  /\ tried = [r \in Requests |-> {}]
  /\ attempts = [r \in Requests |-> 0]
  /\ budget = events

Init == \E n \in DOMAIN Budgets : \E events \in Budgets[n] : InitWith(n, events)

Spend(kind) ==
  /\ budget[kind] > 0
  /\ budget' = [budget EXCEPT ![kind] = @ - 1]

Stack(l) == <<l, gen[l]>>

\* max_attempts of _request.
AttemptLimit ==
  IF Rotates /\ MaxAttempts > LaneCount THEN MaxAttempts ELSE LaneCount

-----------------------------------------------------------------------------
\* _release_stack and _replacement_stack.

\* active | {current_proxy}.  (Broken: the other lanes' proxies may be chosen.)
CurrentOnly(l) == {proxy[l]}
ActiveProxies(l) == {proxy[m] : m \in Lanes}

\* The lane is free again, b its breaker so far; an exhausted lane of a pool
\* gets a new stack on the next proxy when there is one.
FreeLane(l, b, exhausted, failed) ==
  LET rotate   == exhausted /\ Pooled
      cooling  == IF rotate /\ failed THEN bad \cup {proxy[l]} ELSE bad
      excluded == ActiveProxies(l) \cup cooling
      swap     == rotate /\ Found(PoolUrls, cursor, excluded) # {}
  IN  /\ breaker' = [breaker EXCEPT ![l] = IF swap THEN Fresh ELSE b]
      /\ gen' = [gen EXCEPT ![l] = IF swap THEN @ + 1 ELSE @]
      /\ proxy' = [proxy EXCEPT ![l] =
                     IF swap THEN NextUrl(PoolUrls, cursor, excluded) ELSE @]
      /\ cursor' = IF swap THEN NextCursor(PoolUrls, cursor, excluded)
                   ELSE cursor
      /\ aged' = [aged EXCEPT ![l] = @ /\ ~swap /\ ~(rotate /\ ~failed)]
      /\ bad' = cooling
      /\ inUse' = [inUse EXCEPT ![l] = FALSE]

\* notify_all: r goes to label, the waiting requests look again.  (Broken: they
\* are not woken.)
ContinueSilently(r, label) == pc' = [pc EXCEPT ![r] = label]
Continue(r, label) ==
  pc' = [q \in Requests |-> CASE q = r -> label
                              [] q # r /\ pc[q] = "wait" -> "acquire"
                              [] OTHER -> pc[q]]

NoLonger(r) == at' = [at EXCEPT ![r] = NoStack]

\* A provider is asked for another address while the lane stays in use.
KeepLane(r, l, b, failed) ==
  /\ breaker' = [breaker EXCEPT ![l] = b]
  /\ inUse' = [inUse EXCEPT ![l] = TRUE]
  /\ at' = [at EXCEPT ![r] = Stack(l)]
  /\ pc' = [pc EXCEPT ![r] = IF failed THEN "replace" ELSE "renew"]
  /\ UNCHANGED <<gen, proxy, cursor, aged, bad>>

\* r leaves lane l with breaker b.
Leaves(r, l, b, exhausted, failed, label) ==
  /\ IF exhausted /\ network = "provider"
     THEN KeepLane(r, l, b, failed)
     ELSE /\ FreeLane(l, b, exhausted, failed)
          /\ Continue(r, label) /\ NoLonger(r)
  /\ UNCHANGED network

\* The wait for _rotation_lock and for the provider is over, with a new stack on
\* the same proxy (that it closes the old one first only delays r) ...
ProviderRotates(r) ==
  /\ pc[r] \in Rotating
  /\ LET l == at[r][1]
     IN  /\ breaker' = [breaker EXCEPT ![l] = Fresh]
         /\ gen' = [gen EXCEPT ![l] = @ + 1]
         /\ aged' = [aged EXCEPT ![l] = FALSE]
         /\ inUse' = [inUse EXCEPT ![l] = FALSE]
  /\ Continue(r, "acquire") /\ NoLonger(r)
  /\ UNCHANGED <<network, source, proxy, nextLane, cursor, bad, tried, attempts,
                 budget>>

\* ... or with the old one, whose TTL starts again when it was the reason.  A
\* provider may refuse every time.
ProviderRefuses(r) ==
  /\ pc[r] \in Rotating
  /\ LET l == at[r][1]
     IN  /\ aged' = [aged EXCEPT ![l] = @ /\ pc[r] = "replace"]
         /\ inUse' = [inUse EXCEPT ![l] = FALSE]
  /\ Continue(r, "acquire") /\ NoLonger(r)
  /\ UNCHANGED <<network, breaker, source, gen, proxy, nextLane, cursor, bad,
                 tried, attempts, budget>>

-----------------------------------------------------------------------------
\* _request.

\* A lane the scan may take.  (Broken: without looking at _lane_in_use.)
TakenToo(r, l) == Stack(l) \notin tried[r] /\ Available(breaker[l])
Takes(r, l) ==
  Stack(l) \notin tried[r] /\ ~inUse[l] /\ Available(breaker[l])

\* The scan of _acquire_stack stops at lane l.
FirstLane(r, l) ==
  LET at_i(i) == Ring(nextLane, i, LaneCount)
      hits == {i \in 0..(LaneCount - 1) : Takes(r, at_i(i))}
  IN  hits # {} /\ l = at_i(Least(hits))

BusyUntried(r) == \E l \in Lanes : Stack(l) \notin tried[r] /\ inUse[l]

\* (Broken: past the last lane.)
PastLane(l) == nextLane' = l + 1
AfterLane(l) == nextLane' = Ring(l, 1, LaneCount)

Begin(r) ==
  /\ pc[r] = "idle" /\ Spend("request")
  /\ pc' = [pc EXCEPT ![r] = "acquire"]
  /\ UNCHANGED <<laneVars, at, tried, attempts>>

Looks(r) == pc[r] = "acquire" /\ attempts[r] < AttemptLimit

\* _request returns or raises.
Returned(r) ==
  /\ tried' = [tried EXCEPT ![r] = {}]
  /\ attempts' = [attempts EXCEPT ![r] = 0]

\* The loop ends: too many attempts, or _acquire_stack returned None.
GiveUp(r) ==
  /\ pc[r] = "acquire"
  /\ \/ attempts[r] >= AttemptLimit
     \/ ~BusyUntried(r) /\ \A l \in Lanes : ~FirstLane(r, l)
  /\ pc' = [pc EXCEPT ![r] = "idle"]
  /\ Returned(r)
  /\ UNCHANGED <<laneVars, at, budget>>

\* Only lanes in use are left to try: _lane_condition.wait().
WaitForLane(r) ==
  /\ Looks(r) /\ BusyUntried(r)
  /\ \A l \in Lanes : ~FirstLane(r, l)
  /\ pc' = [pc EXCEPT ![r] = "wait"]
  /\ UNCHANGED <<laneVars, at, tried, attempts, budget>>

\* The sticky TTL is over: the stack is replaced and no attempt is counted.
RotateAged(r) ==
  /\ Looks(r) /\ Rotates
  /\ \E l \in Lanes :
       /\ FirstLane(r, l) /\ aged[l]
       /\ Leaves(r, l, breaker[l], TRUE, FALSE, "acquire")
       /\ AfterLane(l)
  /\ UNCHANGED <<source, tried, attempts, budget>>

Attempt(r, l) ==
  /\ FirstLane(r, l) /\ ~(Rotates /\ aged[l])
  /\ AfterLane(l)
  /\ tried' = [tried EXCEPT ![r] = @ \cup {Stack(l)}]
  /\ attempts' = [attempts EXCEPT ![r] = @ + 1]

\* source_breaker.allow, or lane_breaker.allow after it, raises.
Refused(r) ==
  /\ Looks(r)
  /\ \E l \in Lanes :
       /\ Attempt(r, l)
       /\ Refuses(source) \/ Refuses(breaker[l])
       /\ Leaves(r, l, breaker[l], TRUE, TRUE, "acquire")
  /\ source' = IF Refuses(source) THEN source ELSE Allowed(source)
  /\ UNCHANGED budget

Send(r) ==
  /\ Looks(r) /\ ~Refuses(source)
  /\ \E l \in Lanes :
       /\ Attempt(r, l) /\ ~Refuses(breaker[l])
       /\ breaker' = [breaker EXCEPT ![l] = Allowed(@)]
       /\ inUse' = [inUse EXCEPT ![l] = TRUE]
       /\ at' = [at EXCEPT ![r] = Stack(l)]
  /\ source' = Allowed(source)
  /\ pc' = [pc EXCEPT ![r] = "sent"]
  /\ UNCHANGED <<network, gen, proxy, aged, cursor, bad, budget>>

\* The stack's request ends, leaving its lane's breaker as b; the lane is
\* released whatever happened.
Ends(r, b, exhausted, label) ==
  /\ pc[r] = "sent"
  /\ Leaves(r, at[r][1], b, exhausted \/ b.state = "open", TRUE, label)
  /\ UNCHANGED nextLane

HeldBreaker(r) == breaker[at[r][1]]

Succeed(r) ==
  /\ pc[r] = "sent"
  /\ Ends(r, Succeeded(HeldBreaker(r)), FALSE, "idle")
  /\ source' = Succeeded(source)
  /\ Returned(r)
  /\ UNCHANGED budget

\* 403, 418 or 429 from every strategy.
Block(r) ==
  /\ pc[r] = "sent" /\ Spend("block")
  /\ Ends(r, Failed(HeldBreaker(r), LaneThreshold), TRUE, "acquire")
  /\ source' = Failed(source, SourceThreshold)
  /\ UNCHANGED <<tried, attempts>>

\* 407, 502, 503 or 504: a success for the stack, a failure for _request.
Gateway(r) ==
  /\ pc[r] = "sent" /\ Spend("gateway")
  /\ Ends(r, Failed(Succeeded(HeldBreaker(r)), LaneThreshold), TRUE, "acquire")
  /\ source' = Succeeded(source)
  /\ UNCHANGED <<tried, attempts>>

\* Any exception: a transport error, a timeout, a browser or captcha failure.
Raise(r) ==
  /\ pc[r] = "sent" /\ Spend("raise")
  /\ Ends(r, Failed(HeldBreaker(r), LaneThreshold), TRUE, "acquire")
  /\ UNCHANGED <<tried, attempts>>
  /\ UNCHANGED source

-----------------------------------------------------------------------------
\* Time.

CoolLane(l) ==
  /\ breaker[l].cooling
  /\ breaker' = [breaker EXCEPT ![l] = Cooled(@)]
  /\ UNCHANGED <<network, source, gen, proxy, inUse, aged, nextLane, cursor,
                 bad, requestVars, budget>>

CoolSource ==
  /\ source.cooling
  /\ source' = Cooled(source)
  /\ UNCHANGED <<network, breaker, gen, proxy, inUse, aged, nextLane, cursor,
                 bad, requestVars, budget>>

CoolProxy(p) ==
  /\ p \in bad /\ bad' = bad \ {p}
  /\ UNCHANGED <<network, breaker, source, gen, proxy, inUse, aged, nextLane,
                 cursor, requestVars, budget>>

LaneAges(l) ==
  /\ Rotates /\ ~aged[l] /\ Spend("age")
  /\ aged' = [aged EXCEPT ![l] = TRUE]
  /\ UNCHANGED <<network, breaker, source, gen, proxy, inUse, nextLane, cursor,
                 bad, requestVars>>

-----------------------------------------------------------------------------

Seek(r) ==
  GiveUp(r) \/ WaitForLane(r) \/ RotateAged(r) \/ Refused(r) \/ Send(r)
Answer(r) == Succeed(r) \/ Block(r) \/ Gateway(r) \/ Raise(r)
Rotation(r) == ProviderRotates(r) \/ ProviderRefuses(r)

Next ==
  \/ \E r \in Requests : Begin(r) \/ Seek(r) \/ Answer(r) \/ Rotation(r)
  \/ \E l \in Lanes : CoolLane(l) \/ LaneAges(l)
  \/ \E p \in Proxies : CoolProxy(p)
  \/ CoolSource

Spec == Init /\ [][Next]_vars

\* A runnable coroutine runs, and every stack request and every call of the
\* provider ends: each strategy and the provider's client have a timeout.
Fairness ==
  \A r \in Requests :
    WF_vars(Seek(r)) /\ WF_vars(Answer(r)) /\ WF_vars(Rotation(r))

FairSpec == Spec /\ Fairness

-----------------------------------------------------------------------------
\* Properties.

\* A session is used by one request at a time and is never replaced under it, a
\* rotation through the provider included: a lane is in use exactly when one
\* request is sent on, or rotates, the stack it has now.
OnLane(r) == pc[r] \in {"sent"} \cup Rotating
LaneHeldByOne ==
  \A l \in Lanes :
    /\ inUse[l] <=> \E r \in Requests : OnLane(r) /\ at[r][1] = l
    /\ \A r, q \in Requests :
         OnLane(r) /\ OnLane(q) /\ at[r][1] = l /\ at[q][1] = l
           => r = q /\ at[r] = Stack(l)

\* No two lanes of a pool ever share an address, whatever the order in which
\* they fail, age and are rotated.
DistinctProxies ==
  Pooled => \A l, m \in Lanes : proxy[l] = proxy[m] => l = m

\* An open lane is left alone until its cooldown is over, and then takes one
\* request that decides whether it closes: a stack's breaker leaves "open" only
\* after it cooled, and closes only from a request that held it.
LaneCooldownHonoured ==
  [][\A l \in Lanes :
       gen'[l] = gen[l] /\ breaker[l].state = "open"
         => \/ breaker'[l] = breaker[l]
            \/ breaker'[l] = Cooled(breaker[l])
            \/ ~breaker[l].cooling /\ inUse'[l]]_vars

\* A lane's half-open probe is a request in flight, so that a lane that failed
\* is never refused for a probe nobody runs.
LaneProbeIsRunning ==
  \A l \in Lanes : breaker[l].probe =>
    \E r \in Requests : pc[r] = "sent" /\ at[r] = Stack(l)

\* Every call of _request returns or raises: no waiter is left behind by the
\* releases it waits for, and no lane keeps a request busy with rotations.
RequestEnds ==
  \A r \in Requests : pc[r] # "idle" ~> pc[r] = "idle"

\* The same of the source's breaker ("Half-open probe is already running"):
\* its probe is a request in flight.
SourceProbeIsRunning ==
  source.probe => \E r \in Requests : pc[r] = "sent"

=============================================================================
