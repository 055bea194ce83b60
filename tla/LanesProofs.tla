----------------------------- MODULE LanesProofs -----------------------------
(***************************************************************************)
(* Proofs about ZakupLanes, for any number of lanes, proxies and requests, *)
(* any thresholds and any budgets.                                         *)
(***************************************************************************)
EXTENDS ZakupLanes, WellFoundedInduction, TLAPS

\* A non-empty set of numbers has a least element.
LEMMA LeastIsLeast ==
  ASSUME NEW S, S \subseteq Nat, S # {}
  PROVE  Least(S) \in S /\ \A j \in S : Least(S) <= j
<1> DEFINE R == OpToRel(<, Nat)
<1>1. IsWellFoundedOn(R, Nat) BY NatLessThanWellFounded
<1>2. \A x, y \in Nat : y < x => <<y, x>> \in R BY DEF OpToRel
<1> HIDE DEF R
<1>3. PICK x \in S : \A y \in S : ~(<<y, x>> \in R) BY <1>1, WFMin
<1>4. \A y \in S : x <= y
  <2> SUFFICES ASSUME NEW y \in S PROVE x <= y
    OBVIOUS
  <2>1. x \in Nat /\ y \in Nat OBVIOUS
  <2>2. ~(y < x) BY <1>2, <1>3, <2>1
  <2> QED BY <2>1, <2>2
<1> QED BY <1>3, <1>4 DEF Least

LEMMA RingType ==
  ASSUME NEW n \in Nat \ {0}, NEW c \in 1..n, NEW i \in Nat
  PROVE  Ring(c, i, n) \in 1..n
<1>1. c - 1 + i \in Nat OBVIOUS
<1>2. (c - 1 + i) % n \in 0..(n - 1) BY <1>1
<1> QED BY <1>2 DEF Ring

\* A proxy that next returns is of the pool and not among the excluded ones.
LEMMA NextProxy ==
  ASSUME NEW n \in DOMAIN PoolUrls, NEW excluded,
         Found(PoolUrls, n, excluded) # {}
  PROVE  /\ NextUrl(PoolUrls, n, excluded) \in Proxies \ excluded
         /\ NextCursor(PoolUrls, n, excluded) \in DOMAIN PoolUrls
<1> DEFINE found == Found(PoolUrls, n, excluded)
           i == Least(found)
<1>1. found \subseteq 0..(Len(PoolUrls) - 1) BY DEF Found
<1>2. Len(PoolUrls) \in Nat \ {0} /\ DOMAIN PoolUrls = 1..Len(PoolUrls)
  BY LanesAssumption
<1>3. i \in found BY <1>1, <1>2, LeastIsLeast
<1>4. PoolUrls[Ring(n, i, Len(PoolUrls))] \notin excluded
  BY <1>3 DEF Found
<1>5. i \in Nat BY <1>1, <1>2, <1>3
<1>6. /\ Ring(n, i, Len(PoolUrls)) \in DOMAIN PoolUrls
      /\ Ring(n, i + 1, Len(PoolUrls)) \in DOMAIN PoolUrls
  <2> HIDE DEF i
  <2>1. n \in 1..Len(PoolUrls) /\ i + 1 \in Nat BY <1>2, <1>5
  <2> QED BY <1>2, <1>5, <2>1, RingType
<1> QED BY <1>4, <1>6 DEF NextUrl, NextCursor, Proxies

LEMMA BreakerTypes ==
  ASSUME NEW b \in Breaker, NEW n \in Nat
  PROVE  /\ Fresh \in Breaker /\ Allowed(b) \in Breaker
         /\ Succeeded(b) \in Breaker /\ Failed(b, n) \in Breaker
         /\ Cooled(b) \in Breaker
<1>1. Fresh \in Breaker /\ Succeeded(b) \in Breaker
  BY DEF Breaker, BreakerStates, Fresh, Succeeded
<1>2. Allowed(b) \in Breaker
  BY DEF Breaker, BreakerStates, Allowed
<1>3. Failed(b, n) \in Breaker
  <2>1. b.blocks + 1 \in Nat BY DEF Breaker
  <2>2. CASE Opens(b, n) BY <2>1, <2>2 DEF Breaker, BreakerStates, Failed
  <2>3. CASE ~Opens(b, n) BY <2>1, <2>3 DEF Breaker, BreakerStates, Failed
  <2> QED BY <2>2, <2>3
<1>4. Cooled(b) \in Breaker
  BY DEF Breaker, BreakerStates, Cooled
<1> QED BY <1>1, <1>2, <1>3, <1>4

\* No result leaves the probe flag set, and a caller never finds the state open.
LEMMA BreakerProbes ==
  ASSUME NEW b \in Breaker, NEW n \in Nat
  PROVE  /\ ~Fresh.probe /\ ~Succeeded(b).probe /\ ~Failed(b, n).probe
         /\ Allowed(b).state # "open"
         /\ Cooled(b).probe = b.probe /\ Cooled(b).state = b.state
<1>1. ~Fresh.probe /\ ~Succeeded(b).probe BY DEF Fresh, Succeeded
<1>2. ~Failed(b, n).probe BY DEF Failed, Breaker
<1>3. Allowed(b).state # "open" BY DEF Allowed, Breaker
<1>4. Cooled(b).probe = b.probe /\ Cooled(b).state = b.state
  BY DEF Cooled, Breaker
<1> QED BY <1>1, <1>2, <1>3, <1>4

-----------------------------------------------------------------------------

\* A request on a lane has a stack, and the lane of one that was sent is not open.
StackOnLane == \A r \in Requests : OnLane(r) => at[r] \in Stacks
UsedIsNotOpen ==
  \A r \in Requests : pc[r] = "sent" => breaker[at[r][1]].state # "open"

LaneInv ==
  /\ TypeOK /\ StackOnLane /\ UsedIsNotOpen
  /\ LaneHeldByOne /\ LaneProbeIsRunning /\ DistinctProxies

\* The scan stops at a lane that it may take.
LEMMA FirstLaneTakes ==
  ASSUME TypeOK, NEW r \in Requests, NEW l \in Lanes, FirstLane(r, l)
  PROVE  Takes(r, l)
<1> DEFINE hits == {i \in 0..(LaneCount - 1) :
                      Takes(r, Ring(nextLane, i, LaneCount))}
<1>1. hits # {} /\ l = Ring(nextLane, Least(hits), LaneCount)
  BY DEF FirstLane
<1>2. hits \subseteq Nat BY LanesAssumption
<1>3. Least(hits) \in hits BY <1>1, <1>2, LeastIsLeast
<1> QED BY <1>1, <1>3

LEMMA AfterLaneType ==
  ASSUME NEW l \in Lanes, AfterLane(l)
  PROVE  nextLane' \in Lanes
BY LanesAssumption, RingType DEF AfterLane, Lanes

\* What _release_stack does: the lane is free, with the breaker it was left
\* with, or with a new stack on a proxy that no lane has.
LEMMA FreedLane ==
  ASSUME TypeOK, NEW l \in Lanes, NEW b \in Breaker,
         NEW exhausted \in BOOLEAN, NEW failed \in BOOLEAN,
         FreeLane(l, b, exhausted, failed)
  PROVE  /\ breaker' \in [Lanes -> Breaker] /\ gen' \in [Lanes -> Nat]
         /\ proxy' \in [Lanes -> Proxies] /\ inUse' \in [Lanes -> BOOLEAN]
         /\ aged' \in [Lanes -> BOOLEAN] /\ cursor' \in DOMAIN PoolUrls
         /\ bad' \subseteq Proxies
         /\ inUse' = [inUse EXCEPT ![l] = FALSE]
         /\ \A m \in Lanes \ {l} : /\ breaker'[m] = breaker[m]
                                   /\ gen'[m] = gen[m]
                                   /\ proxy'[m] = proxy[m]
         /\ \/ /\ breaker'[l] = b /\ gen'[l] = gen[l]
               /\ proxy'[l] = proxy[l]
            \/ /\ breaker'[l] = Fresh /\ gen'[l] = gen[l] + 1
               /\ \A m \in Lanes : proxy'[l] # proxy[m]
<1> DEFINE rotate   == exhausted /\ Pooled
           cooling  == IF rotate /\ failed THEN bad \cup {proxy[l]} ELSE bad
           excluded == ActiveProxies(l) \cup cooling
           swap     == rotate /\ Found(PoolUrls, cursor, excluded) # {}
           url      == NextUrl(PoolUrls, cursor, excluded)
           next     == NextCursor(PoolUrls, cursor, excluded)
<1>0. /\ breaker \in [Lanes -> Breaker] /\ gen \in [Lanes -> Nat]
      /\ proxy \in [Lanes -> Proxies] /\ inUse \in [Lanes -> BOOLEAN]
      /\ aged \in [Lanes -> BOOLEAN] /\ cursor \in DOMAIN PoolUrls
      /\ bad \subseteq Proxies
  BY DEF TypeOK
<1>1. /\ breaker' = [breaker EXCEPT ![l] = IF swap THEN Fresh ELSE b]
      /\ gen' = [gen EXCEPT ![l] = IF swap THEN @ + 1 ELSE @]
      /\ proxy' = [proxy EXCEPT ![l] = IF swap THEN url ELSE @]
      /\ cursor' = IF swap THEN next ELSE cursor
      /\ aged' = [aged EXCEPT ![l] = @ /\ ~swap /\ ~(rotate /\ ~failed)]
      /\ bad' = cooling
      /\ inUse' = [inUse EXCEPT ![l] = FALSE]
  BY DEF FreeLane
<1>2. ASSUME swap
      PROVE  /\ url \in Proxies \ excluded /\ next \in DOMAIN PoolUrls
  BY <1>0, <1>2, NextProxy
<1>3. ASSUME swap, NEW m \in Lanes PROVE url # proxy[m]
  BY <1>2, <1>3 DEF ActiveProxies
<1>4. Fresh \in Breaker BY BreakerTypes
<1>5. cooling \subseteq Proxies BY <1>0
<1>6. swap \in BOOLEAN /\ rotate \in BOOLEAN BY DEF Pooled
<1> HIDE DEF rotate, cooling, excluded, swap, url, next
<1>7. breaker' \in [Lanes -> Breaker] /\ gen' \in [Lanes -> Nat]
  BY <1>0, <1>1, <1>4
<1>8. proxy' \in [Lanes -> Proxies] /\ cursor' \in DOMAIN PoolUrls
  BY <1>0, <1>1, <1>2
<1>9. aged' \in [Lanes -> BOOLEAN] /\ inUse' \in [Lanes -> BOOLEAN]
  BY <1>0, <1>1, <1>6
<1>10. \A m \in Lanes \ {l} : /\ breaker'[m] = breaker[m]
                              /\ gen'[m] = gen[m] /\ proxy'[m] = proxy[m]
  BY <1>0, <1>1
<1>11. CASE swap
  <2>1. breaker'[l] = Fresh /\ gen'[l] = gen[l] + 1 /\ proxy'[l] = url
    BY <1>0, <1>1, <1>11
  <2> QED BY <1>1, <1>3, <1>5, <1>7, <1>8, <1>9, <1>10, <1>11, <2>1
<1>12. CASE ~swap
  <2>1. breaker'[l] = b /\ gen'[l] = gen[l] /\ proxy'[l] = proxy[l]
    BY <1>0, <1>1, <1>12
  <2> QED BY <1>1, <1>5, <1>7, <1>8, <1>9, <1>10, <2>1
<1> QED BY <1>11, <1>12

\* Who waits looks again, and r is no longer at its stack.
LEMMA Continued ==
  ASSUME TypeOK, NEW r \in Requests, NEW label \in {"idle", "acquire"},
         Continue(r, label), NoLonger(r)
  PROVE  /\ pc' \in [Requests -> Labels]
         /\ at' \in [Requests -> Stacks \cup {NoStack}]
         /\ \A q \in Requests :
              /\ OnLane(q)' <=> OnLane(q) /\ q # r
              /\ OnLane(q)' => pc'[q] = pc[q] /\ at'[q] = at[q]
<1>1. /\ pc \in [Requests -> Labels]
      /\ at \in [Requests -> Stacks \cup {NoStack}]
  BY DEF TypeOK
<1>2. pc' \in [Requests -> Labels] BY <1>1 DEF Continue, Labels
<1>3. at' \in [Requests -> Stacks \cup {NoStack}] BY <1>1 DEF NoLonger
<1>4. ASSUME NEW q \in Requests
      PROVE  /\ OnLane(q)' <=> OnLane(q) /\ q # r
             /\ OnLane(q)' => pc'[q] = pc[q] /\ at'[q] = at[q]
  <2>1. CASE q = r
    BY <1>1, <2>1 DEF Continue, OnLane, Rotating
  <2>2. CASE q # r
    <3>1. pc'[q] = IF pc[q] = "wait" THEN "acquire" ELSE pc[q]
      BY <2>2 DEF Continue
    <3>2. at'[q] = at[q] BY <1>1, <2>2 DEF NoLonger
    <3> QED BY <2>2, <3>1, <3>2 DEF OnLane, Rotating
  <2> QED BY <2>1, <2>2
<1> QED BY <1>2, <1>3, <1>4

\* Of a lane that is freed nothing is left that the invariant forbids, when the
\* request that had it is gone.
LEMMA FreedKeeps ==
  ASSUME LaneInv, NEW l \in Lanes, network' = network,
         inUse' = [inUse EXCEPT ![l] = FALSE],
         \A m \in Lanes \ {l} :
           /\ breaker'[m] = breaker[m]
           /\ gen'[m] = gen[m] /\ proxy'[m] = proxy[m],
         ~breaker'[l].probe,
         proxy'[l] = proxy[l] \/ \A m \in Lanes : proxy'[l] # proxy[m],
         \A q \in Requests :
           /\ OnLane(q)' <=> OnLane(q) /\ at[q][1] # l
           /\ OnLane(q)' => pc'[q] = pc[q] /\ at'[q] = at[q]
  PROVE  /\ StackOnLane' /\ UsedIsNotOpen'
         /\ LaneHeldByOne' /\ LaneProbeIsRunning' /\ DistinctProxies'
<1> USE DEF LaneInv
<1>0. inUse \in [Lanes -> BOOLEAN] BY DEF TypeOK
<1>a. ASSUME NEW m \in Lanes \ {l} PROVE Stack(m)' = Stack(m)
  BY <1>a DEF Stack
<1>1. StackOnLane' BY DEF StackOnLane
<1>2. UsedIsNotOpen'
  <2> SUFFICES ASSUME NEW q \in Requests, pc'[q] = "sent"
               PROVE  breaker'[at'[q][1]].state # "open"
    BY DEF UsedIsNotOpen
  <2>1. OnLane(q)' BY DEF OnLane
  <2>2. pc[q] = "sent" /\ at'[q] = at[q] /\ at[q][1] # l /\ at[q] \in Stacks
    BY <2>1 DEF StackOnLane
  <2>3. at[q][1] \in Lanes \ {l} BY <2>2 DEF Stacks
  <2> QED BY <2>2, <2>3 DEF UsedIsNotOpen
<1>3. LaneProbeIsRunning'
  <2> SUFFICES ASSUME NEW m \in Lanes, breaker'[m].probe
               PROVE  \E q \in Requests : pc'[q] = "sent" /\ at'[q] = Stack(m)'
    BY DEF LaneProbeIsRunning
  <2>1. m # l /\ breaker[m].probe OBVIOUS
  <2>2. PICK q \in Requests : pc[q] = "sent" /\ at[q] = Stack(m)
    BY <2>1 DEF LaneProbeIsRunning
  <2>3. OnLane(q) /\ at[q][1] # l BY <2>1, <2>2 DEF OnLane, Stack
  <2> QED BY <1>a, <2>1, <2>2, <2>3
<1>4. DistinctProxies'
  <2> SUFFICES ASSUME Pooled', NEW m \in Lanes, NEW n \in Lanes,
                      proxy'[m] = proxy'[n]
               PROVE  m = n
    BY DEF DistinctProxies
  <2>1. Pooled BY DEF Pooled
  <2> QED BY <2>1 DEF DistinctProxies
<1>5. LaneHeldByOne'
  <2> SUFFICES ASSUME NEW m \in Lanes
               PROVE  /\ inUse'[m] <=> \E r \in Requests :
                                         OnLane(r)' /\ at'[r][1] = m
                      /\ \A r, q \in Requests :
                           OnLane(r)' /\ OnLane(q)' /\ at'[r][1] = m
                             /\ at'[q][1] = m
                           => r = q /\ at'[r] = Stack(m)'
    BY DEF LaneHeldByOne
  <2>1. CASE m = l BY <1>0, <2>1
  <2>2. CASE m # l
    <3>1. inUse'[m] = inUse[m] /\ Stack(m)' = Stack(m)
      BY <1>0, <1>a, <2>2
    <3> QED BY <2>2, <3>1 DEF LaneHeldByOne
  <2> QED BY <2>1, <2>2
<1> QED BY <1>1, <1>2, <1>3, <1>4, <1>5

\* Nor of one that r keeps while it waits for the provider.
LEMMA KeptKeeps ==
  ASSUME LaneInv, NEW r \in Requests, NEW l \in Lanes, NEW b \in Breaker,
         ~b.probe, NEW failed \in BOOLEAN, KeepLane(r, l, b, failed),
         network' = network,
         \A q \in Requests : OnLane(q) /\ at[q][1] = l => q = r,
         OnLane(r) => at[r][1] = l
  PROVE  /\ breaker' \in [Lanes -> Breaker] /\ inUse' \in [Lanes -> BOOLEAN]
         /\ pc' \in [Requests -> Labels]
         /\ at' \in [Requests -> Stacks \cup {NoStack}]
         /\ StackOnLane' /\ UsedIsNotOpen'
         /\ LaneHeldByOne' /\ LaneProbeIsRunning' /\ DistinctProxies'
<1> USE DEF LaneInv
<1>1. /\ breaker \in [Lanes -> Breaker] /\ inUse \in [Lanes -> BOOLEAN]
      /\ pc \in [Requests -> Labels] /\ gen \in [Lanes -> Nat]
      /\ at \in [Requests -> Stacks \cup {NoStack}]
  BY DEF TypeOK
<1>2. /\ breaker' = [breaker EXCEPT ![l] = b]
      /\ inUse' = [inUse EXCEPT ![l] = TRUE]
      /\ at' = [at EXCEPT ![r] = Stack(l)]
      /\ pc' = [pc EXCEPT ![r] = IF failed THEN "replace" ELSE "renew"]
      /\ gen' = gen /\ proxy' = proxy
  BY DEF KeepLane
<1>3. Stack(l) \in Stacks /\ Stack(l)[1] = l BY <1>1 DEF Stack, Stacks
<1>4. \A m \in Lanes : Stack(m)' = Stack(m) BY <1>2 DEF Stack
<1>5. /\ breaker' \in [Lanes -> Breaker] /\ inUse' \in [Lanes -> BOOLEAN]
      /\ pc' \in [Requests -> Labels]
      /\ at' \in [Requests -> Stacks \cup {NoStack}]
  BY <1>1, <1>2, <1>3 DEF Labels
<1>6. OnLane(r)' /\ pc'[r] # "sent" /\ at'[r] = Stack(l)
  BY <1>1, <1>2 DEF OnLane, Rotating
<1>7. \A q \in Requests \ {r} :
        pc'[q] = pc[q] /\ at'[q] = at[q] /\ (OnLane(q)' <=> OnLane(q))
  BY <1>1, <1>2 DEF OnLane
<1>8. StackOnLane' BY <1>3, <1>6, <1>7 DEF StackOnLane
<1>9. UsedIsNotOpen'
  <2> SUFFICES ASSUME NEW q \in Requests, pc'[q] = "sent"
               PROVE  breaker'[at'[q][1]].state # "open"
    BY DEF UsedIsNotOpen
  <2>1. q # r /\ pc[q] = "sent" /\ OnLane(q) BY <1>6, <1>7 DEF OnLane
  <2>2. at[q][1] \in Lanes \ {l} BY <2>1 DEF StackOnLane, Stacks
  <2> QED BY <1>1, <1>2, <1>7, <2>1, <2>2 DEF UsedIsNotOpen
<1>10. LaneProbeIsRunning'
  <2> SUFFICES ASSUME NEW m \in Lanes, breaker'[m].probe
               PROVE  \E q \in Requests : pc'[q] = "sent" /\ at'[q] = Stack(m)'
    BY DEF LaneProbeIsRunning
  <2>1. m # l /\ breaker[m].probe BY <1>1, <1>2
  <2>2. PICK q \in Requests : pc[q] = "sent" /\ at[q] = Stack(m)
    BY <2>1 DEF LaneProbeIsRunning
  <2>3. q # r BY <2>1, <2>2 DEF OnLane, Stack
  <2> QED BY <1>4, <1>7, <2>2, <2>3
<1>11. DistinctProxies' BY <1>2 DEF DistinctProxies, Pooled
<1>12. LaneHeldByOne'
  <2> SUFFICES ASSUME NEW m \in Lanes
               PROVE  /\ inUse'[m] <=> \E q \in Requests :
                                         OnLane(q)' /\ at'[q][1] = m
                      /\ \A p, q \in Requests :
                           OnLane(p)' /\ OnLane(q)' /\ at'[p][1] = m
                             /\ at'[q][1] = m
                           => p = q /\ at'[p] = Stack(m)'
    BY DEF LaneHeldByOne
  <2>1. CASE m = l
    <3>1. inUse'[m] BY <1>1, <1>2, <2>1
    <3> QED BY <1>3, <1>4, <1>6, <1>7, <2>1, <3>1
  <2>2. CASE m # l
    <3>1. inUse'[m] = inUse[m] BY <1>1, <1>2, <2>2
    <3>2. \A q \in Requests :
            OnLane(q)' /\ at'[q][1] = m <=> OnLane(q) /\ at[q][1] = m
      BY <1>3, <1>6, <1>7, <2>2
    <3>3. \A q \in Requests : OnLane(q) /\ at[q][1] = m => at'[q] = at[q]
      BY <1>7, <2>2
    <3> QED BY <1>4, <3>1, <3>2, <3>3 DEF LaneHeldByOne
  <2> QED BY <2>1, <2>2
<1> QED BY <1>5, <1>8, <1>9, <1>10, <1>11, <1>12

-----------------------------------------------------------------------------

LEMMA LaneSpendType ==
  ASSUME TypeOK, NEW kind \in Kinds, Spend(kind)
  PROVE  budget' \in [Kinds -> Nat]
BY SMT DEF TypeOK, Spend

\* _request returns, or goes on to another lane.
LEMMA ReturnedType ==
  ASSUME TypeOK, NEW r \in Requests, Returned(r) \/ UNCHANGED <<tried, attempts>>
  PROVE  /\ tried' \in [Requests -> SUBSET Stacks]
         /\ attempts' \in [Requests -> Nat]
BY DEF TypeOK, Returned

LEMMA AttemptType ==
  ASSUME TypeOK, NEW r \in Requests, NEW l \in Lanes, Attempt(r, l)
  PROVE  /\ tried' \in [Requests -> SUBSET Stacks]
         /\ attempts' \in [Requests -> Nat]
         /\ nextLane' \in Lanes /\ Takes(r, l)
<1>1. nextLane' \in Lanes /\ Takes(r, l)
  BY AfterLaneType, FirstLaneTakes DEF Attempt
<1>2. Stack(l) \in Stacks BY DEF TypeOK, Stack, Stacks
<1> QED BY <1>1, <1>2 DEF TypeOK, Attempt

\* What a step does to the variables that it mentions is enough.
LEMMA TypedNext ==
  ASSUME LaneInv,
         network' = network, source' \in Breaker,
         breaker' \in [Lanes -> Breaker], gen' \in [Lanes -> Nat],
         proxy' \in [Lanes -> Proxies], inUse' \in [Lanes -> BOOLEAN],
         aged' \in [Lanes -> BOOLEAN], nextLane' \in Lanes,
         cursor' \in DOMAIN PoolUrls, bad' \subseteq Proxies,
         pc' \in [Requests -> Labels],
         at' \in [Requests -> Stacks \cup {NoStack}],
         tried' \in [Requests -> SUBSET Stacks],
         attempts' \in [Requests -> Nat], budget' \in [Kinds -> Nat]
  PROVE  TypeOK'
BY DEF LaneInv, TypeOK

\* A step that touches neither the stacks nor who has them.
LEMMA LanesUntouched ==
  ASSUME LaneInv, UNCHANGED <<network, breaker, gen, proxy, inUse, at>>,
         \A q \in Requests :
           pc'[q] = pc[q] \/ (~OnLane(q) /\ ~OnLane(q)')
  PROVE  /\ StackOnLane' /\ UsedIsNotOpen'
         /\ LaneHeldByOne' /\ LaneProbeIsRunning' /\ DistinctProxies'
<1> USE DEF LaneInv
<1>0. \A q \in Requests :
        (OnLane(q)' <=> OnLane(q)) /\ (pc'[q] = "sent" <=> pc[q] = "sent")
  BY DEF OnLane
<1>1. StackOnLane' BY <1>0 DEF StackOnLane
<1>2. UsedIsNotOpen' BY <1>0 DEF UsedIsNotOpen
<1>a. \A l \in Lanes : Stack(l)' = Stack(l) BY DEF Stack
<1>3. LaneHeldByOne' BY <1>0, <1>a DEF LaneHeldByOne
<1>4. LaneProbeIsRunning' BY <1>0, <1>a DEF LaneProbeIsRunning
<1>5. DistinctProxies' BY DEF DistinctProxies, Pooled
<1> QED BY <1>1, <1>2, <1>3, <1>4, <1>5

\* A lane is left by the only request that may be on it: it is freed, with or
\* without a new stack, or kept for a rotation.
LEMMA LeavesStep ==
  ASSUME LaneInv, NEW r \in Requests, NEW l \in Lanes, NEW b \in Breaker,
         ~b.probe, NEW exhausted \in BOOLEAN, NEW failed \in BOOLEAN,
         NEW label \in {"idle", "acquire"},
         Leaves(r, l, b, exhausted, failed, label),
         \A q \in Requests : OnLane(q) /\ at[q][1] = l => q = r,
         OnLane(r) => at[r][1] = l,
         nextLane' \in Lanes, source' \in Breaker,
         tried' \in [Requests -> SUBSET Stacks],
         attempts' \in [Requests -> Nat], budget' \in [Kinds -> Nat]
  PROVE  LaneInv'
<1>0. TypeOK /\ network' = network BY DEF LaneInv, Leaves
<1>1. CASE exhausted /\ network = "provider"
  <2>1. KeepLane(r, l, b, failed) BY <1>1 DEF Leaves
  <2>2. /\ breaker' \in [Lanes -> Breaker] /\ inUse' \in [Lanes -> BOOLEAN]
        /\ pc' \in [Requests -> Labels]
        /\ at' \in [Requests -> Stacks \cup {NoStack}]
        /\ StackOnLane' /\ UsedIsNotOpen'
        /\ LaneHeldByOne' /\ LaneProbeIsRunning' /\ DistinctProxies'
    BY <1>0, <2>1, KeptKeeps
  <2>3. UNCHANGED <<gen, proxy, cursor, aged, bad>> BY <2>1 DEF KeepLane
  <2>4. TypeOK' BY <1>0, <2>2, <2>3, TypedNext DEF TypeOK
  <2> QED BY <2>2, <2>4 DEF LaneInv
<1>2. CASE ~(exhausted /\ network = "provider")
  <2>1. /\ FreeLane(l, b, exhausted, failed)
        /\ Continue(r, label) /\ NoLonger(r)
    BY <1>2 DEF Leaves
  <2>2. /\ pc' \in [Requests -> Labels]
        /\ at' \in [Requests -> Stacks \cup {NoStack}]
        /\ \A q \in Requests :
             /\ OnLane(q)' <=> OnLane(q) /\ q # r
             /\ OnLane(q)' => pc'[q] = pc[q] /\ at'[q] = at[q]
    BY <1>0, <2>1, Continued
  <2>3. /\ breaker' \in [Lanes -> Breaker] /\ gen' \in [Lanes -> Nat]
        /\ proxy' \in [Lanes -> Proxies] /\ inUse' \in [Lanes -> BOOLEAN]
        /\ aged' \in [Lanes -> BOOLEAN] /\ cursor' \in DOMAIN PoolUrls
        /\ bad' \subseteq Proxies
        /\ inUse' = [inUse EXCEPT ![l] = FALSE]
        /\ \A m \in Lanes \ {l} :
             /\ breaker'[m] = breaker[m]
             /\ gen'[m] = gen[m] /\ proxy'[m] = proxy[m]
        /\ \/ breaker'[l] = b /\ proxy'[l] = proxy[l]
           \/ breaker'[l] = Fresh /\ \A m \in Lanes : proxy'[l] # proxy[m]
    BY <1>0, <2>1, FreedLane
  <2>4. ~breaker'[l].probe BY <2>3, BreakerProbes, LanesAssumption
  <2>5. \A q \in Requests :
          /\ OnLane(q)' <=> OnLane(q) /\ at[q][1] # l
          /\ OnLane(q)' => pc'[q] = pc[q] /\ at'[q] = at[q]
    BY <2>2
  <2>6. /\ StackOnLane' /\ UsedIsNotOpen'
        /\ LaneHeldByOne' /\ LaneProbeIsRunning' /\ DistinctProxies'
    BY <1>0, <2>3, <2>4, <2>5, FreedKeeps
  <2>7. TypeOK' BY <1>0, <2>2, <2>3, TypedNext DEF TypeOK
  <2> QED BY <2>6, <2>7 DEF LaneInv
<1> QED BY <1>1, <1>2

\* The request at a lane ends.
LEMMA EndsStep ==
  ASSUME LaneInv, NEW r \in Requests, pc[r] = "sent", NEW b \in Breaker, ~b.probe,
         NEW exhausted \in BOOLEAN, NEW label \in {"idle", "acquire"},
         Ends(r, b, exhausted, label),
         Returned(r) \/ UNCHANGED <<tried, attempts>>,
         source' \in Breaker, budget' \in [Kinds -> Nat]
  PROVE  LaneInv'
<1> DEFINE l == at[r][1]
           out == exhausted \/ b.state = "open"
           failed == TRUE
<1>0. OnLane(r) /\ TypeOK BY DEF OnLane, LaneInv
<1>1. l \in Lanes BY <1>0 DEF LaneInv, StackOnLane, Stacks
<1>2. Leaves(r, l, b, out, failed, label) BY DEF Ends
<1>3. out \in BOOLEAN /\ failed \in BOOLEAN OBVIOUS
<1>4. \A q \in Requests : OnLane(q) /\ at[q][1] = l => q = r
  BY <1>0, <1>1 DEF LaneInv, LaneHeldByOne
<1>5. OnLane(r) => at[r][1] = l OBVIOUS
<1>6. nextLane' \in Lanes BY <1>0 DEF Ends, TypeOK
<1>7. /\ tried' \in [Requests -> SUBSET Stacks]
      /\ attempts' \in [Requests -> Nat]
  BY <1>0, ReturnedType
<1> HIDE DEF l, out, failed
<1> QED BY <1>1, <1>2, <1>3, <1>4, <1>5, <1>6, <1>7, LeavesStep

\* The stack of a lane that is not in use is replaced, or only looked at.
LEMMA IdleLaneStep ==
  ASSUME LaneInv, NEW r \in Requests, pc[r] = "acquire", NEW l \in Lanes,
         Takes(r, l), NEW failed \in BOOLEAN,
         Leaves(r, l, breaker[l], TRUE, failed, "acquire"),
         nextLane' \in Lanes, UNCHANGED budget, source' \in Breaker,
         tried' \in [Requests -> SUBSET Stacks],
         attempts' \in [Requests -> Nat]
  PROVE  LaneInv'
<1> DEFINE b == breaker[l]
           exhausted == TRUE
           label == "acquire"
<1>1. TypeOK /\ ~inUse[l] /\ b \in Breaker BY DEF LaneInv, TypeOK, Takes
<1>2. \A q \in Requests : ~(OnLane(q) /\ at[q][1] = l)
  BY <1>1 DEF LaneInv, LaneHeldByOne
<1>3. ~b.probe
  <2> SUFFICES ASSUME breaker[l].probe PROVE FALSE
    OBVIOUS
  <2>1. PICK q \in Requests : pc[q] = "sent" /\ at[q] = Stack(l)
    BY DEF LaneInv, LaneProbeIsRunning
  <2> QED BY <1>2, <2>1 DEF OnLane, Stack
<1>4. ~OnLane(r) BY DEF OnLane, Rotating
<1>5. Leaves(r, l, b, exhausted, failed, label) OBVIOUS
<1>6. exhausted \in BOOLEAN /\ label \in {"idle", "acquire"} OBVIOUS
<1>7. budget' \in [Kinds -> Nat] BY <1>1 DEF TypeOK
<1> HIDE DEF b, exhausted, label
<1> QED BY <1>1, <1>2, <1>3, <1>4, <1>5, <1>6, <1>7, LeavesStep

\* The provider has answered: the lane is freed, with or without a new stack.
LEMMA RotationStep ==
  ASSUME LaneInv, NEW r \in Requests, Rotation(r)
  PROVE  LaneInv'
<1> DEFINE l == at[r][1]
<1>0. /\ breaker \in [Lanes -> Breaker] /\ gen \in [Lanes -> Nat]
      /\ inUse \in [Lanes -> BOOLEAN] /\ aged \in [Lanes -> BOOLEAN]
      /\ TypeOK
  BY DEF LaneInv, TypeOK
<1>1. pc[r] \in Rotating /\ OnLane(r)
  BY DEF Rotation, ProviderRotates, ProviderRefuses, OnLane
<1>2. l \in Lanes BY <1>1 DEF LaneInv, StackOnLane, Stacks
<1>3. /\ Continue(r, "acquire") /\ NoLonger(r)
      /\ inUse' = [inUse EXCEPT ![l] = FALSE]
      /\ UNCHANGED <<network, source, proxy, nextLane, cursor, bad, tried,
                     attempts, budget>>
  BY DEF Rotation, ProviderRotates, ProviderRefuses
<1>4. \/ /\ breaker' = [breaker EXCEPT ![l] = Fresh]
         /\ gen' = [gen EXCEPT ![l] = @ + 1]
      \/ UNCHANGED <<breaker, gen>>
  BY DEF Rotation, ProviderRotates, ProviderRefuses
<1>5. aged' \in [Lanes -> BOOLEAN]
  <2>1. CASE ProviderRotates(r) BY <1>0, <2>1 DEF ProviderRotates
  <2>2. CASE ProviderRefuses(r)
    <3>1. PICK x \in BOOLEAN : aged' = [aged EXCEPT ![l] = x]
      <4>1. (aged[l] /\ pc[r] = "replace") \in BOOLEAN OBVIOUS
      <4>2. aged' = [aged EXCEPT ![l] = aged[l] /\ pc[r] = "replace"]
        BY <2>2 DEF ProviderRefuses
      <4> QED BY <4>1, <4>2
    <3> QED BY <1>0, <3>1
  <2> QED BY <2>1, <2>2 DEF Rotation
<1>6. \A q \in Requests : OnLane(q) => (q = r <=> at[q][1] = l)
  BY <1>1, <1>2 DEF LaneInv, LaneHeldByOne
<1>7. ~breaker[l].probe
  <2> SUFFICES ASSUME breaker[l].probe PROVE FALSE
    OBVIOUS
  <2>1. PICK q \in Requests : pc[q] = "sent" /\ at[q] = Stack(l)
    BY <1>2 DEF LaneInv, LaneProbeIsRunning
  <2>2. OnLane(q) /\ at[q][1] = l /\ q # r
    BY <1>1, <2>1 DEF OnLane, Stack, Rotating
  <2> QED BY <1>6, <2>2
<1> HIDE DEF l
<1>8. Fresh \in Breaker /\ ~Fresh.probe
  BY DEF Fresh, Breaker, BreakerStates
<1>9. /\ breaker' \in [Lanes -> Breaker] /\ gen' \in [Lanes -> Nat]
      /\ inUse' \in [Lanes -> BOOLEAN]
  BY <1>0, <1>2, <1>3, <1>4, <1>8
<1>10. /\ pc' \in [Requests -> Labels]
       /\ at' \in [Requests -> Stacks \cup {NoStack}]
       /\ \A q \in Requests :
            /\ OnLane(q)' <=> OnLane(q) /\ q # r
            /\ OnLane(q)' => pc'[q] = pc[q] /\ at'[q] = at[q]
  <2> DEFINE label == "acquire"
  <2>1. label \in {"idle", "acquire"} /\ Continue(r, label) BY <1>3
  <2> HIDE DEF label
  <2> QED BY <1>0, <1>3, <2>1, Continued
<1>11. TypeOK' BY <1>0, <1>3, <1>5, <1>9, <1>10, TypedNext DEF TypeOK
<1>12. /\ \A m \in Lanes \ {l} :
            /\ breaker'[m] = breaker[m]
            /\ gen'[m] = gen[m] /\ proxy'[m] = proxy[m]
       /\ ~breaker'[l].probe /\ proxy'[l] = proxy[l]
  BY <1>0, <1>2, <1>3, <1>4, <1>7, <1>8
<1>13. \A q \in Requests :
         /\ OnLane(q)' <=> OnLane(q) /\ at[q][1] # l
         /\ OnLane(q)' => pc'[q] = pc[q] /\ at'[q] = at[q]
  BY <1>6, <1>10
<1>14. /\ StackOnLane' /\ UsedIsNotOpen'
       /\ LaneHeldByOne' /\ LaneProbeIsRunning' /\ DistinctProxies'
  BY <1>2, <1>3, <1>12, <1>13, FreedKeeps
<1> QED BY <1>11, <1>14 DEF LaneInv

-----------------------------------------------------------------------------

\* The inductive invariant: a lane is in use exactly while one request is sent
\* on, or rotates, the stack it has now, and only one that was sent has its
\* breaker's probe.
THEOREM LaneInvariant == Spec => []LaneInv
<1>1. Init => LaneInv
  <2> SUFFICES ASSUME NEW n \in DOMAIN Budgets, NEW events \in Budgets[n],
                      InitWith(n, events)
               PROVE  LaneInv
    BY DEF Init
  <2> USE DEF InitWith
  <2>1. Lanes \subseteq DOMAIN PoolUrls /\ 1 \in Lanes
    BY LanesAssumption DEF Lanes
  <2>2. TypeOK
    <3>1. breaker \in [Lanes -> Breaker] /\ source \in Breaker
      <4>1. Fresh \in Breaker BY DEF Fresh, Breaker, BreakerStates
      <4> QED BY <4>1
    <3>2. proxy \in [Lanes -> Proxies]
      <4>1. PoolUrls[1] \in Proxies /\ "direct" \in Proxies
        BY <2>1 DEF Proxies
      <4>2. \A l \in Lanes : PoolUrls[l] \in Proxies BY <2>1 DEF Proxies
      <4>3. network \in {"direct", "provider", "pool"} BY LanesAssumption
      <4> QED BY <4>1, <4>2, <4>3
    <3>3. cursor \in DOMAIN PoolUrls
      <4>1. LaneCount \in Nat /\ Len(PoolUrls) \in Nat \ {0}
            /\ DOMAIN PoolUrls = 1..Len(PoolUrls)
        BY LanesAssumption
      <4>2. LaneCount % Len(PoolUrls) \in 0..(Len(PoolUrls) - 1) BY <4>1
      <4> QED BY <4>1, <4>2
    <3>4. budget \in [Kinds -> Nat] BY LanesAssumption
    <3> QED BY <2>1, <3>1, <3>2, <3>3, <3>4 DEF TypeOK, Labels
  <2>a. \A r \in Requests : ~OnLane(r) BY DEF OnLane, Rotating
  <2>3. StackOnLane /\ UsedIsNotOpen BY <2>a DEF StackOnLane, UsedIsNotOpen
  <2>4. LaneHeldByOne /\ LaneProbeIsRunning
    BY <2>a DEF LaneHeldByOne, LaneProbeIsRunning, Fresh
  <2>5. DistinctProxies
    BY <2>1, LanesAssumption DEF DistinctProxies, Pooled
  <2> QED BY <2>2, <2>3, <2>4, <2>5 DEF LaneInv
<1>2. LaneInv /\ [Next]_vars => LaneInv'
  <2> SUFFICES ASSUME LaneInv, [Next]_vars
               PROVE  LaneInv'
    OBVIOUS
  <2> USE DEF laneVars, requestVars
  <2>0. /\ TypeOK /\ network \in DOMAIN Budgets
        /\ breaker \in [Lanes -> Breaker] /\ source \in Breaker
        /\ gen \in [Lanes -> Nat] /\ proxy \in [Lanes -> Proxies]
        /\ inUse \in [Lanes -> BOOLEAN] /\ aged \in [Lanes -> BOOLEAN]
        /\ nextLane \in Lanes /\ cursor \in DOMAIN PoolUrls
        /\ bad \subseteq Proxies
        /\ pc \in [Requests -> Labels]
        /\ at \in [Requests -> Stacks \cup {NoStack}]
        /\ tried \in [Requests -> SUBSET Stacks]
        /\ attempts \in [Requests -> Nat] /\ budget \in [Kinds -> Nat]
    BY DEF LaneInv, TypeOK
  <2>a. \A kind \in Kinds : Spend(kind) => budget' \in [Kinds -> Nat]
    BY <2>0, LaneSpendType
  <2>b. ASSUME TypeOK', StackOnLane', UsedIsNotOpen', LaneHeldByOne',
               LaneProbeIsRunning', DistinctProxies'
        PROVE  LaneInv'
    BY <2>b DEF LaneInv
  <2>1. ASSUME NEW r \in Requests, Begin(r)
        PROVE  LaneInv'
    <3>1. TypeOK'
      BY <2>0, <2>a, <2>1, TypedNext DEF Begin, Kinds, Labels
    <3>2. \A q \in Requests : pc'[q] = pc[q] \/ (~OnLane(q) /\ ~OnLane(q)')
      BY <2>0, <2>1 DEF Begin, OnLane, Rotating
    <3> QED BY <2>b, <2>1, <3>1, <3>2, LanesUntouched DEF Begin
  <2>2. ASSUME NEW r \in Requests, GiveUp(r)
        PROVE  LaneInv'
    <3>1. /\ tried' \in [Requests -> SUBSET Stacks]
          /\ attempts' \in [Requests -> Nat]
      BY <2>0, <2>2, ReturnedType DEF GiveUp
    <3>2. pc' \in [Requests -> Labels]
      BY <2>0, <2>2 DEF GiveUp, Labels
    <3>3. TypeOK' BY <2>0, <2>2, <3>1, <3>2, TypedNext DEF GiveUp
    <3>4. \A q \in Requests : pc'[q] = pc[q] \/ (~OnLane(q) /\ ~OnLane(q)')
      BY <2>0, <2>2 DEF GiveUp, OnLane, Rotating
    <3> QED BY <2>b, <2>2, <3>3, <3>4, LanesUntouched DEF GiveUp
  <2>3. ASSUME NEW r \in Requests, WaitForLane(r)
        PROVE  LaneInv'
    <3>1. TypeOK'
      BY <2>0, <2>3, TypedNext DEF WaitForLane, Labels
    <3>2. \A q \in Requests : pc'[q] = pc[q] \/ (~OnLane(q) /\ ~OnLane(q)')
      BY <2>0, <2>3 DEF WaitForLane, Looks, OnLane, Rotating
    <3> QED BY <2>b, <2>3, <3>1, <3>2, LanesUntouched DEF WaitForLane
  <2>4. ASSUME NEW r \in Requests, RotateAged(r)
        PROVE  LaneInv'
    <3>1. PICK l \in Lanes : /\ FirstLane(r, l)
                             /\ Leaves(r, l, breaker[l], TRUE, FALSE, "acquire")
                             /\ AfterLane(l)
      BY <2>4 DEF RotateAged
    <3>2. Takes(r, l) /\ nextLane' \in Lanes
      BY <2>0, <3>1, FirstLaneTakes, AfterLaneType
    <3> QED
      BY <2>0, <2>4, <3>1, <3>2, IdleLaneStep DEF RotateAged, Looks
  <2>5. ASSUME NEW r \in Requests, Refused(r)
        PROVE  LaneInv'
    <3>1. PICK l \in Lanes : /\ Attempt(r, l)
                             /\ Leaves(r, l, breaker[l], TRUE, TRUE, "acquire")
      BY <2>5 DEF Refused
    <3>2. /\ tried' \in [Requests -> SUBSET Stacks]
          /\ attempts' \in [Requests -> Nat]
          /\ nextLane' \in Lanes /\ Takes(r, l)
      BY <2>0, <3>1, AttemptType
    <3>3. source' \in Breaker
      BY <2>0, <2>5, BreakerTypes DEF Refused
    <3> QED
      BY <2>5, <3>1, <3>2, <3>3, IdleLaneStep DEF Refused, Looks
  <2>6. ASSUME NEW r \in Requests, Send(r)
        PROVE  LaneInv'
    <3>1. PICK l \in Lanes :
            /\ Attempt(r, l) /\ ~Refuses(breaker[l])
            /\ breaker' = [breaker EXCEPT ![l] = Allowed(@)]
            /\ inUse' = [inUse EXCEPT ![l] = TRUE]
            /\ at' = [at EXCEPT ![r] = Stack(l)]
      BY <2>6 DEF Send
    <3>2. /\ pc[r] = "acquire" /\ pc' = [pc EXCEPT ![r] = "sent"]
          /\ source' = Allowed(source)
          /\ UNCHANGED <<network, gen, proxy, aged, cursor, bad, budget>>
      BY <2>6 DEF Send, Looks
    <3>3. /\ tried' \in [Requests -> SUBSET Stacks]
          /\ attempts' \in [Requests -> Nat]
          /\ nextLane' \in Lanes /\ ~inUse[l]
      BY <2>0, <3>1, AttemptType DEF Takes
    <3>4. Stack(l) \in Stacks /\ Stack(l)[1] = l
      BY <2>0 DEF Stack, Stacks
    <3>5. /\ Allowed(breaker[l]) \in Breaker /\ Allowed(source) \in Breaker
          /\ Allowed(breaker[l]).state # "open"
      BY <2>0, BreakerTypes, BreakerProbes, LanesAssumption
    <3>6. TypeOK'
      <4>1. breaker' \in [Lanes -> Breaker] /\ inUse' \in [Lanes -> BOOLEAN]
        BY <2>0, <3>1, <3>5
      <4>2. /\ pc' \in [Requests -> Labels]
            /\ at' \in [Requests -> Stacks \cup {NoStack}]
        BY <2>0, <3>1, <3>2, <3>4 DEF Labels
      <4> QED BY <2>0, <3>2, <3>3, <3>5, <4>1, <4>2, TypedNext
    <3>7. /\ pc'[r] = "sent" /\ at'[r] = Stack(l) /\ ~OnLane(r) /\ OnLane(r)'
          /\ \A q \in Requests \ {r} :
               pc'[q] = pc[q] /\ at'[q] = at[q] /\ (OnLane(q)' <=> OnLane(q))
      BY <2>0, <3>1, <3>2 DEF OnLane, Rotating
    <3>a. \A m \in Lanes : Stack(m)' = Stack(m) BY <3>2 DEF Stack
    <3>b. \A q \in Requests : ~(OnLane(q) /\ at[q][1] = l)
      BY <3>3 DEF LaneInv, LaneHeldByOne
    <3>8. StackOnLane' BY <3>4, <3>7 DEF LaneInv, StackOnLane
    <3>9. UsedIsNotOpen'
      <4> SUFFICES ASSUME NEW q \in Requests, pc'[q] = "sent"
                   PROVE  breaker'[at'[q][1]].state # "open"
        BY DEF UsedIsNotOpen
      <4>1. CASE q = r BY <2>0, <3>1, <3>4, <3>5, <3>7, <4>1
      <4>2. CASE q # r
        <5>1. pc[q] = "sent" /\ OnLane(q) /\ at'[q] = at[q]
          BY <3>7, <4>2 DEF OnLane
        <5>2. at[q][1] \in Lanes \ {l}
          BY <3>b, <5>1 DEF LaneInv, StackOnLane, Stacks
        <5> QED BY <2>0, <3>1, <5>1, <5>2 DEF LaneInv, UsedIsNotOpen
      <4> QED BY <4>1, <4>2
    <3>c. LaneProbeIsRunning'
      <4> SUFFICES ASSUME NEW m \in Lanes, breaker'[m].probe
                   PROVE  \E q \in Requests :
                            pc'[q] = "sent" /\ at'[q] = Stack(m)'
        BY DEF LaneProbeIsRunning
      <4>1. CASE m = l BY <3>7, <3>a, <4>1
      <4>2. CASE m # l
        <5>1. breaker[m].probe BY <2>0, <3>1, <4>2
        <5>2. PICK q \in Requests : pc[q] = "sent" /\ at[q] = Stack(m)
          BY <5>1 DEF LaneInv, LaneProbeIsRunning
        <5>3. q # r BY <3>2, <5>2
        <5> QED BY <3>7, <3>a, <5>2, <5>3
      <4> QED BY <4>1, <4>2
    <3>10. DistinctProxies'
      BY <3>2 DEF LaneInv, DistinctProxies, Pooled
    <3>11. LaneHeldByOne'
      <4> SUFFICES ASSUME NEW m \in Lanes
                   PROVE  /\ inUse'[m] <=> \E q \in Requests :
                                             OnLane(q)' /\ at'[q][1] = m
                          /\ \A p, q \in Requests :
                               OnLane(p)' /\ OnLane(q)' /\ at'[p][1] = m
                                 /\ at'[q][1] = m
                               => p = q /\ at'[p] = Stack(m)'
        BY DEF LaneHeldByOne
      <4>1. CASE m = l
        <5>1. inUse'[m] BY <2>0, <3>1, <4>1
        <5> QED BY <3>4, <3>7, <3>a, <3>b, <4>1, <5>1
      <4>2. CASE m # l
        <5>1. inUse'[m] = inUse[m] BY <2>0, <3>1, <4>2
        <5> QED
          BY <3>4, <3>7, <3>a, <4>2, <5>1 DEF LaneInv, LaneHeldByOne
      <4> QED BY <4>1, <4>2
    <3> QED BY <2>b, <3>6, <3>8, <3>9, <3>c, <3>10, <3>11
  <2>c. ASSUME NEW r \in Requests, pc[r] = "sent"
        PROVE  /\ HeldBreaker(r) \in Breaker
               /\ Failed(source, SourceThreshold) \in Breaker
               /\ Succeeded(source) \in Breaker
               /\ LaneThreshold \in Nat
    <3>1. at[r][1] \in Lanes BY <2>c DEF LaneInv, StackOnLane, Stacks, OnLane
    <3> QED
      BY <2>0, <3>1, BreakerTypes, LanesAssumption DEF HeldBreaker
  <2>7. ASSUME NEW r \in Requests, Succeed(r)
        PROVE  LaneInv'
    <3>1. pc[r] = "sent" BY <2>7 DEF Succeed
    <3>2. /\ Succeeded(HeldBreaker(r)) \in Breaker
          /\ ~Succeeded(HeldBreaker(r)).probe
      BY <2>c, <3>1, BreakerTypes, BreakerProbes
    <3> QED BY <2>0, <2>c, <2>7, <3>1, <3>2, EndsStep DEF Succeed
  <2>8. ASSUME NEW r \in Requests, Block(r)
        PROVE  LaneInv'
    <3>1. pc[r] = "sent" BY <2>8 DEF Block
    <3>2. /\ Failed(HeldBreaker(r), LaneThreshold) \in Breaker
          /\ ~Failed(HeldBreaker(r), LaneThreshold).probe
      BY <2>c, <3>1, BreakerTypes, BreakerProbes
    <3>3. budget' \in [Kinds -> Nat] BY <2>a, <2>8 DEF Block, Kinds
    <3> QED BY <2>c, <2>8, <3>1, <3>2, <3>3, EndsStep DEF Block
  <2>9. ASSUME NEW r \in Requests, Gateway(r)
        PROVE  LaneInv'
    <3> DEFINE b == Failed(Succeeded(HeldBreaker(r)), LaneThreshold)
    <3>1. pc[r] = "sent" BY <2>9 DEF Gateway
    <3>2. b \in Breaker /\ ~b.probe
      BY <2>c, <3>1, BreakerTypes, BreakerProbes
    <3>3. budget' \in [Kinds -> Nat] BY <2>a, <2>9 DEF Gateway, Kinds
    <3>4. Ends(r, b, TRUE, "acquire") BY <2>9 DEF Gateway
    <3> HIDE DEF b
    <3> QED BY <2>c, <2>9, <3>1, <3>2, <3>3, <3>4, EndsStep DEF Gateway
  <2>10. ASSUME NEW r \in Requests, Raise(r)
         PROVE  LaneInv'
    <3>1. pc[r] = "sent" BY <2>10 DEF Raise
    <3>2. /\ Failed(HeldBreaker(r), LaneThreshold) \in Breaker
          /\ ~Failed(HeldBreaker(r), LaneThreshold).probe
      BY <2>c, <3>1, BreakerTypes, BreakerProbes
    <3>3. budget' \in [Kinds -> Nat] BY <2>a, <2>10 DEF Raise, Kinds
    <3> QED BY <2>0, <2>10, <3>1, <3>2, <3>3, EndsStep DEF Raise
  <2>11. ASSUME NEW l \in Lanes, CoolLane(l)
         PROVE  LaneInv'
    <3>1. /\ breaker' = [breaker EXCEPT ![l] = Cooled(@)]
          /\ UNCHANGED <<network, source, gen, proxy, inUse, aged, nextLane,
                         cursor, bad, pc, at, tried, attempts, budget>>
      BY <2>11 DEF CoolLane
    <3>2. /\ Cooled(breaker[l]) \in Breaker
          /\ Cooled(breaker[l]).probe = breaker[l].probe
          /\ Cooled(breaker[l]).state = breaker[l].state
      BY <2>0, BreakerTypes, BreakerProbes, LanesAssumption
    <3>3. TypeOK' BY <2>0, <3>1, <3>2, TypedNext
    <3>4. /\ \A m \in Lanes : Stack(m)' = Stack(m)
          /\ \A q \in Requests : OnLane(q)' <=> OnLane(q)
      BY <3>1 DEF Stack, OnLane
    <3>5. StackOnLane' BY <3>1, <3>4 DEF LaneInv, StackOnLane
    <3>6. UsedIsNotOpen'
      <4>1. \A m \in Lanes : breaker'[m].state = breaker[m].state
        BY <2>0, <3>1, <3>2
      <4>2. \A q \in Requests : pc[q] = "sent" => at[q][1] \in Lanes
        BY DEF LaneInv, StackOnLane, Stacks, OnLane
      <4> QED BY <3>1, <4>1, <4>2 DEF LaneInv, UsedIsNotOpen
    <3>7. LaneProbeIsRunning'
      <4>1. \A m \in Lanes : breaker'[m].probe = breaker[m].probe
        BY <2>0, <3>1, <3>2
      <4> QED BY <3>1, <3>4, <4>1 DEF LaneInv, LaneProbeIsRunning
    <3>8. DistinctProxies' BY <3>1 DEF LaneInv, DistinctProxies, Pooled
    <3>9. LaneHeldByOne' BY <3>1, <3>4 DEF LaneInv, LaneHeldByOne
    <3> QED BY <2>b, <3>3, <3>5, <3>6, <3>7, <3>8, <3>9
  <2>12. CASE CoolSource
    <3>1. TypeOK' BY <2>0, <2>12, BreakerTypes, TypedNext DEF CoolSource
    <3> QED BY <2>b, <2>12, <3>1, LanesUntouched DEF CoolSource
  <2>13. ASSUME NEW p \in Proxies, CoolProxy(p)
         PROVE  LaneInv'
    <3>1. TypeOK' BY <2>0, <2>13, TypedNext DEF CoolProxy
    <3> QED BY <2>b, <2>13, <3>1, LanesUntouched DEF CoolProxy
  <2>14. ASSUME NEW l \in Lanes, LaneAges(l)
         PROVE  LaneInv'
    <3>1. budget' \in [Kinds -> Nat] BY <2>a, <2>14 DEF LaneAges, Kinds
    <3>2. TypeOK' BY <2>0, <2>14, <3>1, TypedNext DEF LaneAges
    <3> QED BY <2>b, <2>14, <3>2, LanesUntouched DEF LaneAges
  <2>15. CASE UNCHANGED vars
    <3>1. TypeOK' BY <2>0, <2>15, TypedNext DEF vars
    <3> QED BY <2>b, <2>15, <3>1, LanesUntouched DEF vars
  <2>16. ASSUME NEW r \in Requests, Rotation(r)
         PROVE  LaneInv'
    BY <2>16, RotationStep
  <2> QED
    BY <2>1, <2>2, <2>3, <2>4, <2>5, <2>6, <2>7, <2>8, <2>9, <2>10, <2>11,
       <2>12, <2>13, <2>14, <2>15, <2>16
    DEF Next, Seek, Answer
<1> QED BY <1>1, <1>2, PTL DEF Spec

\* Every reachable state of the lanes is well typed.
THEOREM TypeCorrect == Spec => []TypeOK
BY LaneInvariant, PTL DEF LaneInv

\* A browser session is used by one request at a time and never replaced under
\* it, whatever the other requests meet on their lanes.
THEOREM HeldByOne == Spec => []LaneHeldByOne
BY LaneInvariant, PTL DEF LaneInv

\* No two lanes of a pool share a proxy, however they are rotated.
THEOREM ProxiesDiffer == Spec => []DistinctProxies
BY LaneInvariant, PTL DEF LaneInv

\* The half-open probe of a lane is a request in flight.
THEOREM ProbesRun == Spec => []LaneProbeIsRunning
BY LaneInvariant, PTL DEF LaneInv

-----------------------------------------------------------------------------

CooldownKept(l) ==
  gen'[l] = gen[l] /\ breaker[l].state = "open"
    => \/ breaker'[l] = breaker[l]
       \/ breaker'[l] = Cooled(breaker[l])
       \/ ~breaker[l].cooling /\ inUse'[l]

\* Only the lane that is left changes, and keeps its breaker unless it gets a
\* new stack.
LEMMA LeftLane ==
  ASSUME TypeOK, NEW r \in Requests, NEW m \in Lanes, NEW b \in Breaker,
         NEW exhausted \in BOOLEAN, NEW failed \in BOOLEAN, NEW label,
         Leaves(r, m, b, exhausted, failed, label)
  PROVE  /\ \A l \in Lanes \ {m} : breaker'[l] = breaker[l]
         /\ breaker'[m] = b \/ gen'[m] = gen[m] + 1
<1>1. CASE KeepLane(r, m, b, failed)
  <2>1. breaker \in [Lanes -> Breaker] BY DEF TypeOK
  <2> QED BY <1>1, <2>1 DEF KeepLane
<1>2. CASE FreeLane(m, b, exhausted, failed) BY <1>2, FreedLane
<1> QED BY <1>1, <1>2 DEF Leaves

LEMMA EndKeepsCooldown ==
  ASSUME LaneInv, NEW r \in Requests, pc[r] = "sent", NEW b \in Breaker,
         NEW exhausted \in BOOLEAN, NEW label, Ends(r, b, exhausted, label)
  PROVE  \A l \in Lanes : CooldownKept(l)
<1> DEFINE m == at[r][1]
           out == exhausted \/ b.state = "open"
<1>1. m \in Lanes /\ TypeOK BY DEF LaneInv, StackOnLane, Stacks, OnLane
<1>2. Leaves(r, m, b, out, TRUE, label) BY DEF Ends
<1>3. out \in BOOLEAN OBVIOUS
<1>4. breaker[m].state # "open" BY DEF LaneInv, UsedIsNotOpen
<1> HIDE DEF m, out
<1>5. \A l \in Lanes \ {m} : breaker'[l] = breaker[l]
  BY <1>1, <1>2, <1>3, LeftLane
<1> QED BY <1>4, <1>5 DEF CooldownKept

LEMMA IdleLaneKeepsCooldown ==
  ASSUME LaneInv, NEW r \in Requests, NEW m \in Lanes, NEW failed \in BOOLEAN,
         Leaves(r, m, breaker[m], TRUE, failed, "acquire")
  PROVE  \A l \in Lanes : CooldownKept(l)
<1> DEFINE b == breaker[m]
           exhausted == TRUE
           label == "acquire"
<1>1. TypeOK /\ b \in Breaker /\ gen[m] \in Nat BY DEF LaneInv, TypeOK
<1>2. Leaves(r, m, b, exhausted, failed, label) /\ exhausted \in BOOLEAN
  OBVIOUS
<1> HIDE DEF b, exhausted, label
<1>3. /\ \A l \in Lanes \ {m} : breaker'[l] = breaker[l]
      /\ breaker'[m] = b \/ gen'[m] = gen[m] + 1
  BY <1>1, <1>2, LeftLane
<1> QED BY <1>1, <1>3 DEF CooldownKept, b

\* A rotation through the provider leaves the breakers alone or makes a stack.
LEMMA RotationKeepsCooldown ==
  ASSUME LaneInv, NEW r \in Requests, Rotation(r)
  PROVE  \A l \in Lanes : CooldownKept(l)
<1> DEFINE m == at[r][1]
<1>1. /\ breaker \in [Lanes -> Breaker] /\ gen \in [Lanes -> Nat]
  BY DEF LaneInv, TypeOK
<1>2. OnLane(r)
  BY DEF Rotation, ProviderRotates, ProviderRefuses, OnLane
<1>3. m \in Lanes BY <1>2 DEF LaneInv, StackOnLane, Stacks
<1>4. CASE ProviderRefuses(r) BY <1>4 DEF ProviderRefuses, CooldownKept
<1>5. CASE ProviderRotates(r)
  <2>1. /\ breaker' = [breaker EXCEPT ![m] = Fresh]
        /\ gen' = [gen EXCEPT ![m] = @ + 1]
    BY <1>5 DEF ProviderRotates
  <2> HIDE DEF m
  <2>2. gen'[m] # gen[m] BY <1>1, <1>3, <2>1
  <2>3. \A l \in Lanes \ {m} : breaker'[l] = breaker[l] BY <1>1, <2>1
  <2> QED BY <2>2, <2>3 DEF CooldownKept
<1> QED BY <1>4, <1>5 DEF Rotation

\* An open lane is left alone until its cooldown is over, and then the request
\* that probes it decides: no late answer to an older request closes it.
THEOREM CooldownsHonoured == Spec => LaneCooldownHonoured
<1>1. LaneInv /\ [Next]_vars => [\A l \in Lanes : CooldownKept(l)]_vars
  <2> SUFFICES ASSUME LaneInv, Next
               PROVE  \A l \in Lanes : CooldownKept(l)
    OBVIOUS
  <2> USE DEF laneVars, requestVars
  <2>0. breaker \in [Lanes -> Breaker] /\ source \in Breaker
        /\ inUse \in [Lanes -> BOOLEAN]
    BY DEF LaneInv, TypeOK
  <2>a. ASSUME UNCHANGED breaker
        PROVE  \A l \in Lanes : CooldownKept(l)
    BY <2>a DEF CooldownKept
  <2>b. ASSUME NEW r \in Requests, pc[r] = "sent"
        PROVE  /\ Succeeded(HeldBreaker(r)) \in Breaker
               /\ Failed(HeldBreaker(r), LaneThreshold) \in Breaker
               /\ Failed(Succeeded(HeldBreaker(r)), LaneThreshold) \in Breaker
    <3>1. at[r][1] \in Lanes BY <2>b DEF LaneInv, StackOnLane, Stacks, OnLane
    <3> QED
      BY <2>0, <3>1, BreakerTypes, LanesAssumption DEF HeldBreaker
  <2>1. ASSUME NEW r \in Requests,
               Begin(r) \/ GiveUp(r) \/ WaitForLane(r)
        PROVE  \A l \in Lanes : CooldownKept(l)
    BY <2>a, <2>1 DEF Begin, GiveUp, WaitForLane
  <2>2. ASSUME NEW r \in Requests, RotateAged(r)
        PROVE  \A l \in Lanes : CooldownKept(l)
    BY <2>2, IdleLaneKeepsCooldown DEF RotateAged
  <2>3. ASSUME NEW r \in Requests, Refused(r)
        PROVE  \A l \in Lanes : CooldownKept(l)
    BY <2>3, IdleLaneKeepsCooldown DEF Refused
  <2>4. ASSUME NEW r \in Requests, Send(r)
        PROVE  \A l \in Lanes : CooldownKept(l)
    <3>1. PICK m \in Lanes :
            /\ Attempt(r, m)
            /\ breaker' = [breaker EXCEPT ![m] = Allowed(@)]
            /\ inUse' = [inUse EXCEPT ![m] = TRUE]
      BY <2>4 DEF Send
    <3>2. Available(breaker[m])
      BY <3>1, AttemptType DEF LaneInv, Takes
    <3>3. inUse'[m] BY <2>0, <3>1
    <3>4. \A l \in Lanes \ {m} : breaker'[l] = breaker[l] BY <2>0, <3>1
    <3> QED BY <3>2, <3>3, <3>4 DEF Available, CooldownKept
  <2>5. ASSUME NEW r \in Requests, Answer(r)
        PROVE  \A l \in Lanes : CooldownKept(l)
    <3>1. pc[r] = "sent"
      BY <2>5 DEF Answer, Succeed, Block, Gateway, Raise
    <3>2. PICK b \in Breaker, exhausted \in BOOLEAN,
               label \in {"idle", "acquire"} : Ends(r, b, exhausted, label)
      BY <2>5, <2>b, <3>1 DEF Answer, Succeed, Block, Gateway, Raise
    <3> QED BY <3>1, <3>2, EndKeepsCooldown
  <2>6. ASSUME NEW m \in Lanes, CoolLane(m)
        PROVE  \A l \in Lanes : CooldownKept(l)
    BY <2>0, <2>6 DEF CoolLane, CooldownKept
  <2>7. ASSUME NEW m \in Lanes, LaneAges(m)
        PROVE  \A l \in Lanes : CooldownKept(l)
    BY <2>a, <2>7 DEF LaneAges
  <2>8. CASE CoolSource BY <2>a, <2>8 DEF CoolSource
  <2>9. ASSUME NEW p \in Proxies, CoolProxy(p)
        PROVE  \A l \in Lanes : CooldownKept(l)
    BY <2>a, <2>9 DEF CoolProxy
  <2>10. ASSUME NEW r \in Requests, Rotation(r)
         PROVE  \A l \in Lanes : CooldownKept(l)
    BY <2>10, RotationKeepsCooldown
  <2> QED
    BY <2>1, <2>2, <2>3, <2>4, <2>5, <2>6, <2>7, <2>8, <2>9, <2>10
    DEF Next, Seek
<1> QED
  BY <1>1, LaneInvariant, PTL
  DEF Spec, LaneCooldownHonoured, CooldownKept

=============================================================================
