---------------------------- MODULE StrategyStack ----------------------------
(***************************************************************************)
(* ZakupStrategyStack.request and the browser session behind it: the       *)
(* direct client with the request profile that the browser captured, then  *)
(* fetch in the page, interception of what the page itself loads, and the  *)
(* DOM for lists.  An endpoint stands for its path: its profile and the    *)
(* last of its responses in _response_cache, whose other responses (it     *)
(* keeps a hundred) are left out.  The requests of a stack follow each     *)
(* other (_request_lock); the browser stays between them.                  *)
(***************************************************************************)
EXTENDS CircuitBreaker

CONSTANTS
  Endpoints,
  Lists,                   \* those that end in /filter
  Unpaged,                 \* plan items, whose SPA route has no page
  LaneLimit, SourceLimit,  \* thresholds of the two breakers
  StackBudget              \* bounds

\* Requests, blocked answers, exceptions, requests the page makes by itself.
StackEvents == {"request", "block", "raise", "page"}

ASSUME StackAssumption ==
  /\ Lists \subseteq Endpoints /\ Unpaged \subseteq Endpoints \ Lists
  /\ LaneLimit \in Nat \ {0} /\ SourceLimit \in Nat \ {0}
  /\ StackBudget \in [StackEvents -> Nat]

VARIABLES
  laneBreaker, sourceBreaker,
  strategy,  \* what the request waits for
  endpoint,  \* of the request
  launched,  \* identity, context and page are set
  captured,  \* identity.request_profiles: none, plain or scoped (browser_only)
  profiles,  \* the stack's own
  cache,     \* _response_cache: none, ok or blocked
  stackBudget

stackVars == <<laneBreaker, sourceBreaker, strategy, endpoint, launched,
               captured, profiles, cache, stackBudget>>

Profile == {"none", "plain", "scoped"}
Answers == {"ok", "blocked"}  \* blocked: 403, 418 or 429

StackTypeOK ==
  /\ laneBreaker \in Breaker /\ sourceBreaker \in Breaker
  /\ strategy \in {"idle", "direct", "start", "navigate", "refreshed",
                   "capture", "intercept", "fetch", "again", "dom"}
  /\ endpoint \in Endpoints /\ launched \in BOOLEAN
  /\ captured \in [Endpoints -> Profile] /\ profiles \in [Endpoints -> Profile]
  /\ cache \in [Endpoints -> Answers \cup {"none"}]
  /\ stackBudget \in [StackEvents -> Nat]

StackInit(events) ==
  /\ laneBreaker = Fresh /\ sourceBreaker = Fresh
  /\ strategy = "idle" /\ endpoint \in Endpoints
  /\ launched = FALSE
  /\ captured = [e \in Endpoints |-> "none"]
  /\ profiles = [e \in Endpoints |-> "none"]
  /\ cache = [e \in Endpoints |-> "none"]
  /\ stackBudget = events

StackSpend(kind) ==
  /\ stackBudget[kind] > 0
  /\ stackBudget' = [stackBudget EXCEPT ![kind] = @ - 1]

browserVars == <<launched, captured, cache>>

\* A request of the page is seen: its headers make a profile, its answer is
\* kept when it is JSON.
Observes(e, answer) ==
  /\ \E p \in {"plain", "scoped"} : captured' = [captured EXCEPT ![e] = p]
  /\ \/ cache' = [cache EXCEPT ![e] = answer]
     \/ UNCHANGED cache

\* The answer ends the request, in both breakers.  (Broken: a success only in
\* the lane's.)
RecordsOnLane(answer) ==
  /\ strategy' = "idle"
  /\ laneBreaker' = IF answer = "ok" THEN Succeeded(laneBreaker)
                    ELSE Failed(laneBreaker, LaneLimit)
  /\ sourceBreaker' = IF answer = "ok" THEN sourceBreaker
                      ELSE Failed(sourceBreaker, SourceLimit)
Records(answer) ==
  /\ strategy' = "idle"
  /\ laneBreaker' = IF answer = "ok" THEN Succeeded(laneBreaker)
                    ELSE Failed(laneBreaker, LaneLimit)
  /\ sourceBreaker' = IF answer = "ok" THEN Succeeded(sourceBreaker)
                      ELSE Failed(sourceBreaker, SourceLimit)

\* ... or is left for the next strategy.
Continues(next) == strategy' = next /\ UNCHANGED <<laneBreaker, sourceBreaker>>

\* "blocked" goes on with the next strategy.
OrElse(answer, next) ==
  IF answer = "ok" THEN Records(answer) ELSE Continues(next)

\* The portal answers a request that was sent to it.
Portal(answer) ==
  \/ answer = "ok" /\ UNCHANGED stackBudget
  \/ answer = "blocked" /\ StackSpend("block")

\* intercept_route_json: a response that was kept, whenever that was, or the one
\* to the request that the page makes when it goes there.  A kept response must
\* be of the page in the SPA route, which a list's may be and a detail's never
\* is; a route without a page takes any.
Intercepts(answer) ==
  \/ /\ endpoint \in Lists \cup Unpaged /\ cache[endpoint] # "none"
     /\ answer = cache[endpoint] /\ UNCHANGED <<captured, cache, stackBudget>>
  \/ /\ endpoint \in Unpaged => cache[endpoint] = "none"
     /\ Portal(answer) /\ Observes(endpoint, answer)

-----------------------------------------------------------------------------

\* self.profiles.get(profile_key) or self.browser.get_profile(method, url)
Known(e) == IF profiles[e] # "none" THEN profiles[e] ELSE captured[e]

Ask(e) ==
  /\ strategy = "idle" /\ StackSpend("request")
  /\ endpoint' = e
  /\ \/ /\ Refuses(sourceBreaker)
        /\ UNCHANGED <<strategy, laneBreaker, sourceBreaker, profiles>>
     \/ /\ ~Refuses(sourceBreaker) /\ Refuses(laneBreaker)
        /\ sourceBreaker' = Allowed(sourceBreaker)
        /\ UNCHANGED <<strategy, laneBreaker, profiles>>
     \/ /\ ~Refuses(sourceBreaker) /\ ~Refuses(laneBreaker)
        /\ sourceBreaker' = Allowed(sourceBreaker)
        /\ laneBreaker' = Allowed(laneBreaker)
        /\ profiles' = [profiles EXCEPT ![e] = Known(e)]
        /\ strategy' = IF Known(e) = "scoped" THEN "intercept" ELSE "direct"
  /\ UNCHANGED browserVars

Direct ==
  /\ strategy = "direct"
  /\ \E a \in Answers : Portal(a) /\ OrElse(a, "start")
  /\ UNCHANGED <<endpoint, profiles, browserVars>>

\* browser.start of a browser that is not up: its first navigation makes the
\* page load things, and may fail and leave the browser launched.
Launch ==
  /\ strategy = "start" /\ ~launched
  /\ launched' = TRUE
  /\ Continues("navigate")
  /\ UNCHANGED <<endpoint, captured, cache, profiles, stackBudget>>

\* What follows depends on what was captured of the endpoint by then.
Started ==
  /\ \/ strategy = "navigate"
     \/ strategy = "start" /\ launched
  /\ IF captured[endpoint] = "none" THEN UNCHANGED profiles
     ELSE profiles' = [profiles EXCEPT ![endpoint] = captured[endpoint]]
  /\ Continues(CASE captured[endpoint] = "none" -> "capture"
                 [] captured[endpoint] = "plain" -> "refreshed"
                 [] captured[endpoint] = "scoped" -> "fetch")
  /\ UNCHANGED <<endpoint, browserVars, stackBudget>>

\* The direct client again, with the captured profile.
Refreshed ==
  /\ strategy = "refreshed"
  /\ \E a \in Answers : Portal(a) /\ OrElse(a, "fetch")
  /\ UNCHANGED <<endpoint, profiles, browserVars>>

\* The first interception, to get a profile.
Capture ==
  /\ strategy = "capture"
  /\ \E a \in Answers : Intercepts(a) /\ OrElse(a, "fetch")
  /\ profiles' = [profiles EXCEPT ![endpoint] =
                    IF captured'[endpoint] = "none" THEN @
                    ELSE captured'[endpoint]]
  /\ UNCHANGED <<endpoint, launched>>

Intercept ==
  /\ strategy = "intercept"
  /\ \E a \in Answers : Intercepts(a) /\ Records(a)
  /\ UNCHANGED <<endpoint, launched, profiles>>

\* _browser_request.
Fetch ==
  /\ strategy = "fetch"
  /\ \E a \in Answers :
       Portal(a) /\ Observes(endpoint, a) /\ OrElse(a, "again")
  /\ UNCHANGED <<endpoint, launched, profiles>>

Again ==
  /\ strategy = "again"
  /\ \E a \in Answers :
       /\ Intercepts(a)
       /\ IF a = "ok" \/ endpoint \notin Lists THEN Records(a)
          ELSE Continues("dom")
  /\ UNCHANGED <<endpoint, launched, profiles>>

\* dom_discovery_json returns 200 or raises.
Dom ==
  /\ strategy = "dom"
  /\ Records("ok")
  /\ UNCHANGED <<endpoint, browserVars, profiles, stackBudget>>

\* A strategy raises: a timeout, no JSON, no link in the DOM, a captcha, a
\* browser that does not start.
StrategyRaises ==
  /\ strategy # "idle" /\ ~(strategy = "start" /\ launched)
  /\ StackSpend("raise")
  /\ Continues("idle")
  /\ UNCHANGED <<endpoint, browserVars, profiles>>

\* The page loads something by itself.
PageLoads(e) ==
  /\ launched /\ StackSpend("page")
  /\ \E a \in Answers : Observes(e, a)
  /\ UNCHANGED <<laneBreaker, sourceBreaker, strategy, endpoint, launched,
                 profiles>>

BreakerCools ==
  /\ \/ /\ laneBreaker.cooling /\ UNCHANGED sourceBreaker
        /\ laneBreaker' = Cooled(laneBreaker)
     \/ /\ sourceBreaker.cooling /\ UNCHANGED laneBreaker
        /\ sourceBreaker' = Cooled(sourceBreaker)
  /\ UNCHANGED <<strategy, endpoint, browserVars, profiles, stackBudget>>

StackNext ==
  \/ \E e \in Endpoints : Ask(e) \/ PageLoads(e)
  \/ Direct \/ Launch \/ Started \/ Refreshed \/ Capture \/ Intercept
  \/ Fetch \/ Again \/ Dom \/ StrategyRaises \/ BreakerCools

StackSpec == StackInit(StackBudget) /\ [][StackNext]_stackVars

-----------------------------------------------------------------------------
\* Properties.

Promise == INSTANCE StackRequest WITH sent <- strategy # "idle"

\* Whatever strategies a request went through, the two breakers change once,
\* alike and with the answer it returns: a block that a later strategy got round
\* counts for nothing, and an exception for neither.
StackIsOneAwait == Promise!RequestSpec

=============================================================================
