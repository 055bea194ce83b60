---------------------------- MODULE SourcesProofs ----------------------------
(***************************************************************************)
(* Proofs about the lanes of EepHttpClient, the captcha solvers and the    *)
(* cache of the portal's bundle, for any number of calls, lanes and        *)
(* proxies, of browsers, processes and ranges, and any budgets.            *)
(***************************************************************************)
EXTENDS EepLanes, CaptchaSolvers, BundleCache, FiniteSetTheorems,
        WellFoundedInduction, TLAPS

-----------------------------------------------------------------------------
\* EepLanes.

\* A non-empty set of numbers has a least element.
LEMMA LeastIsIn ==
  ASSUME NEW S, S \subseteq Nat, S # {}
  PROVE  Least(S) \in S
<1> DEFINE R == OpToRel(<, Nat)
<1>1. IsWellFoundedOn(R, Nat) BY NatLessThanWellFounded
<1>2. \A x, y \in Nat : y < x => <<y, x>> \in R BY DEF OpToRel
<1> HIDE DEF R
<1>3. PICK x \in S : \A y \in S : ~(<<y, x>> \in R) BY <1>1, WFMin
<1>4. \A y \in S : x <= y
  <2> SUFFICES ASSUME NEW y \in S PROVE x <= y
    OBVIOUS
  <2>1. x \in Nat /\ y \in Nat OBVIOUS
  <2>2. ~(y < x) BY <1>2, <1>3, <2>1
  <2> QED BY <2>1, <2>2
<1> QED BY <1>3, <1>4 DEF Least

LEMMA RingIn ==
  ASSUME NEW n \in Nat \ {0}, NEW c \in 1..n, NEW i \in Nat
  PROVE  Ring(c, i, n) \in 1..n
<1>1. c - 1 + i \in Nat OBVIOUS
<1>2. (c - 1 + i) % n \in 0..(n - 1) BY <1>1
<1> QED BY <1>2 DEF Ring

\* What the cursor finds is a proxy of the pool and none of the excluded ones.
LEMMA NextUrlIsFree ==
  ASSUME NEW n \in DOMAIN Urls, NEW excluded, Found(Urls, n, excluded) # {}
  PROVE  /\ NextUrl(Urls, n, excluded) \in Proxies \ excluded
         /\ NextCursor(Urls, n, excluded) \in DOMAIN Urls
<1> DEFINE i == Least(Found(Urls, n, excluded))
<1>1. /\ Len(Urls) \in Nat \ {0} /\ DOMAIN Urls = 1..Len(Urls)
      /\ Found(Urls, n, excluded) \subseteq Nat
  BY EepAssumption DEF Found
<1>2. i \in Found(Urls, n, excluded) BY <1>1, LeastIsIn
<1>3. Urls[Ring(n, i, Len(Urls))] \notin excluded BY <1>2 DEF Found
<1>4. i \in Nat BY <1>1, <1>2
<1>5. /\ Ring(n, i, Len(Urls)) \in DOMAIN Urls
      /\ Ring(n, i + 1, Len(Urls)) \in DOMAIN Urls
  <2> HIDE DEF i
  <2> QED BY <1>1, <1>4, RingIn, n \in 1..Len(Urls), i + 1 \in Nat
<1> QED BY <1>3, <1>5 DEF NextUrl, NextCursor, Proxies

LEMMA LaneBreakers ==
  ASSUME NEW b \in Breaker
  PROVE  /\ Fresh \in Breaker /\ Succeeded(b) \in Breaker
         /\ Failed(b, Threshold) \in Breaker
         /\ Cooled(b) \in Breaker /\ Restored(b) \in Breaker
<1>1. Fresh \in Breaker /\ Succeeded(b) \in Breaker
  BY DEF Breaker, BreakerStates, Fresh, Succeeded
<1>2. Failed(b, Threshold) \in Breaker
  <2>1. b.blocks + 1 \in Nat BY DEF Breaker
  <2>2. CASE Opens(b, Threshold)
    BY <2>1, <2>2 DEF Breaker, BreakerStates, Failed
  <2>3. CASE ~Opens(b, Threshold)
    BY <2>1, <2>3 DEF Breaker, BreakerStates, Failed
  <2> QED BY <2>2, <2>3
<1>3. Cooled(b) \in Breaker /\ Restored(b) \in Breaker
  BY DEF Breaker, BreakerStates, Cooled, Restored
<1> QED BY <1>1, <1>2, <1>3

\* What cools is open.
Sound(b) == b.cooling => b.state = "open"

\* Only an open breaker cools, whatever is recorded in it.
LEMMA LaneCooldowns ==
  ASSUME NEW b \in Breaker
  PROVE  /\ Sound(Fresh) /\ Sound(Succeeded(b)) /\ Sound(Cooled(b))
         /\ Sound(b) => Sound(Failed(b, Threshold)) /\ Sound(Restored(b))
         /\ Restored(b).cooling = b.cooling /\ ~Fresh.cooling
<1> USE DEF Sound
<1>1. ~Fresh.cooling /\ ~Succeeded(b).cooling BY DEF Fresh, Succeeded
<1>2. ~Cooled(b).cooling BY DEF Cooled, Breaker
<1>3. CASE Opens(b, Threshold) BY <1>1, <1>2, <1>3 DEF Failed, Restored, Breaker
<1>4. CASE ~Opens(b, Threshold)
  BY <1>1, <1>2, <1>4 DEF Failed, Restored, Breaker
<1> QED BY <1>3, <1>4

\* What another client saves is a breaker like any other.
LEMMA OthersAreSound ==
  ASSUME NEW b \in OtherBreakers
  PROVE  b \in Breaker /\ Sound(b)
<1>1. Threshold \in Nat \ {0} BY EepAssumption
<1>2. Opened \in Breaker /\ Sound(Opened)
  BY <1>1 DEF Opened, Breaker, BreakerStates, Sound
<1>3. Cooled(Opened) \in Breaker /\ Sound(Cooled(Opened))
  BY <1>2, LaneBreakers, LaneCooldowns
<1>4. CASE b \in {Opened, Cooled(Opened)} BY <1>2, <1>3, <1>4
<1>5. CASE \E n \in 0..(Threshold - 1) : b = [Fresh EXCEPT !.blocks = n]
  <2>1. PICK n \in 0..(Threshold - 1) : b = [Fresh EXCEPT !.blocks = n]
    BY <1>5
  <2>2. n \in Nat BY <1>1
  <2> QED BY <2>1, <2>2 DEF Fresh, Breaker, BreakerStates, Sound
<1> QED BY <1>4, <1>5 DEF OtherBreakers

LEMMA NoRowRests ==
  ~NoRow.cooling /\ Cooled(NoRow) = NoRow /\ Sound(NoRow)
<1>1. /\ NoRow \in [state: {"none"}, blocks: Nat, cooling: {FALSE}, probe: BOOLEAN]
      /\ ~NoRow.cooling
  BY DEF NoRow, Fresh
<1>2. ASSUME NEW S, NEW T, NEW U, NEW V,
             NEW r \in [state: S, blocks: T, cooling: U, probe: V],
             r.cooling = FALSE
      PROVE  [r EXCEPT !.cooling = FALSE] = r
  BY <1>2, Zenon
<1>3. NoRow.cooling = FALSE BY DEF NoRow, Fresh
<1> HIDE DEF NoRow
<1> QED BY <1>1, <1>2, <1>3 DEF Cooled, Sound

LEMMA LanesInUse ==
  /\ InUse \subseteq Lanes /\ 1 \in Lanes /\ 0 \notin Lanes
  /\ Lanes \subseteq DOMAIN Urls
  /\ \A l \in Lanes : Urls[l] \in Proxies
  /\ (LaneCount % Len(Urls)) + 1 \in DOMAIN Urls
<1>1. /\ LaneCount \in Nat \ {0} /\ Len(Urls) \in Nat \ {0}
      /\ LaneCount <= Len(Urls) /\ DOMAIN Urls = 1..Len(Urls)
  BY EepAssumption
<1>2. InUse \subseteq Lanes /\ 1 \in Lanes /\ 0 \notin Lanes
  BY <1>1 DEF InUse, Lanes
<1>3. Lanes \subseteq DOMAIN Urls BY <1>1 DEF Lanes
<1>4. LaneCount % Len(Urls) \in 0..(Len(Urls) - 1) BY <1>1
<1> QED BY <1>1, <1>2, <1>3, <1>4 DEF Proxies

-----------------------------------------------------------------------------

Away(c) ==
  network = "direct" \/ pc[c] \in {"idle", "load", "persist", "acquire", "curl"}
Closing(c) == pc[c] \in {"close", "keep"}

\* A call on a lane holds the lock of the lane object as it is now; one that
\* closes what it has replaced is on an older object; the others are on none.
Placed(c) ==
  /\ OnObject(c) =>
       Held(c) \in InUse /\ at[c] = Object(Held(c)) /\ lock[Held(c)] = c
  /\ Closing(c) => Held(c) \in InUse /\ at[c][2] < gen[Held(c)]
  /\ Away(c) => at[c] = NoLane
  /\ network = "direct" => pc[c] \in {"idle", "sent", "curl"}
  /\ ~Rotates => pc[c] \notin {"rotate", "ask", "close", "keep"}
  /\ network # "direct" /\ ~loaded => pc[c] \in {"idle", "load", "persist"}

CallsPlaced == \A c \in Calls : Placed(c)

LocksPlaced ==
  \A l \in Lanes : lock[l] # NoCall => OnObject(lock[l]) /\ Held(lock[l]) = l

\* The breakers are sound, the rows and what is about to be saved; and no lane
\* is rotated before the rows are loaded.
Resting ==
  /\ \A l \in Lanes : Sound(breaker[l])
  /\ \A i \in Lanes \X Proxies : Sound(row[i])
  /\ \A c \in Calls : Sound(draft[c])
  /\ ~loaded => \A l \in Lanes : proxy[l] = Urls[l]

EepInv == TypeOK /\ CallsPlaced /\ LocksPlaced /\ DistinctProxies /\ Resting

-----------------------------------------------------------------------------

PcLabels == {"idle", "load", "persist", "acquire", "sent", "save", "rotate",
             "ask", "close", "keep", "curl"}

LEMMA SpendBudget ==
  ASSUME TypeOK, NEW kind \in LaneEvents, Spend(kind)
  PROVE  budget' \in [LaneEvents -> Nat]
BY SMT DEF TypeOK, Spend

LEMMA GoesOn ==
  ASSUME TypeOK, NEW c \in Calls, NEW label \in PcLabels, Goes(c, label)
  PROVE  /\ pc' \in [Calls -> PcLabels] /\ pc'[c] = label
         /\ \A d \in Calls \ {c} : pc'[d] = pc[d]
BY DEF TypeOK, Goes, PcLabels

LEMMA Releases ==
  ASSUME TypeOK, NEW c \in Calls, Release(c)
  PROVE  lock' \in [Lanes -> Calls \cup {NoCall}]
BY DEF TypeOK, Release

LEMMA Returns ==
  ASSUME TypeOK, NEW c \in Calls, Return(c)
  PROVE  /\ pc' \in [Calls -> PcLabels]
         /\ at' \in [Calls -> (Lanes \X Nat) \cup {NoLane}]
         /\ attempts' \in [Calls -> Nat]
         /\ outcome' \in [Calls -> {"none", "ok", "blocked", "lost"}]
         /\ pc'[c] = "idle" /\ at'[c] = NoLane
         /\ \A d \in Calls \ {c} : pc'[d] = pc[d] /\ at'[d] = at[d]
<1>1. Goes(c, "idle") /\ "idle" \in PcLabels BY DEF Return, PcLabels
<1>2. at' = [at EXCEPT ![c] = NoLane] BY DEF Return
<1>3. /\ at' \in [Calls -> (Lanes \X Nat) \cup {NoLane}]
      /\ at'[c] = NoLane /\ \A d \in Calls \ {c} : at'[d] = at[d]
  BY <1>2 DEF TypeOK
<1>4. /\ attempts' \in [Calls -> Nat]
      /\ outcome' \in [Calls -> {"none", "ok", "blocked", "lost"}]
  BY DEF TypeOK, Return
<1> QED BY <1>1, <1>3, <1>4, GoesOn

LEMMA Retries ==
  ASSUME TypeOK, NEW c \in Calls, Retry(c)
  PROVE  /\ pc' \in [Calls -> PcLabels]
         /\ at' \in [Calls -> (Lanes \X Nat) \cup {NoLane}]
         /\ attempts' \in [Calls -> Nat]
         /\ outcome' \in [Calls -> {"none", "ok", "blocked", "lost"}]
         /\ pc'[c] \in {"acquire", "curl"} /\ at'[c] = NoLane
         /\ \A d \in Calls \ {c} : pc'[d] = pc[d] /\ at'[d] = at[d]
<1>1. Goes(c, "acquire") \/ Goes(c, "curl") BY DEF Retry
<1>2. "acquire" \in PcLabels /\ "curl" \in PcLabels BY DEF PcLabels
<1>3. at' = [at EXCEPT ![c] = NoLane] BY DEF Retry
<1>4. /\ at' \in [Calls -> (Lanes \X Nat) \cup {NoLane}]
      /\ at'[c] = NoLane /\ \A d \in Calls \ {c} : at'[d] = at[d]
  BY <1>3 DEF TypeOK
<1>5. /\ attempts' \in [Calls -> Nat]
      /\ outcome' \in [Calls -> {"none", "ok", "blocked", "lost"}]
  BY DEF TypeOK, Retry
<1> QED BY <1>1, <1>2, <1>4, <1>5, GoesOn

-----------------------------------------------------------------------------
\* How the steps keep the calls and the locks in place.

\* A call leaves its lane object, if it has one.
LEMMA LeavesLane ==
  ASSUME EepInv, NEW c \in Calls, network' = network, gen' = gen,
         loaded' = loaded, Release(c),
         pc'[c] \in {"idle", "acquire", "curl"}, at'[c] = NoLane,
         network = "direct" => pc'[c] # "acquire",
         network # "direct" /\ ~loaded => pc'[c] = "idle",
         \A d \in Calls \ {c} : pc'[d] = pc[d] /\ at'[d] = at[d]
  PROVE  CallsPlaced' /\ LocksPlaced'
<1> USE DEF EepInv
<1>1. \A l \in Lanes : Object(l)' = Object(l) BY DEF Object
<1>2. InUse' = InUse /\ (Rotates' <=> Rotates) BY DEF InUse, Rotates
<1>3. \A l \in Lanes :
        lock'[l] = IF at[c] = Object(l) THEN NoCall ELSE lock[l]
  BY DEF Release
<1>4. ASSUME NEW l \in Lanes, lock[l] = c
      PROVE  lock'[l] = NoCall
  <2>1. OnObject(c) /\ Held(c) = l
    BY <1>4, EepAssumption DEF LocksPlaced
  <2>2. at[c] = Object(l) BY <2>1 DEF CallsPlaced, Placed
  <2> QED BY <1>3, <2>2
<1>5. ASSUME NEW d \in Calls, d # c, NEW l \in Lanes, lock[l] = d
      PROVE  lock'[l] = d
  <2>1. CASE at[c] # Object(l) BY <1>3, <1>5, <2>1
  <2>2. CASE at[c] = Object(l)
    <3>1. Held(c) = l /\ at[c][2] = gen[l] BY <2>2 DEF Held, Object
    <3>2. ~Away(c)
      BY <3>1, LanesInUse DEF CallsPlaced, Placed, NoLane, Held
    <3>3. gen[l] \in Nat BY DEF TypeOK
    <3>4. ~Closing(c) BY <3>1, <3>3 DEF CallsPlaced, Placed
    <3>5. OnObject(c) BY <3>2, <3>4 DEF Away, Closing, OnObject, TypeOK
    <3>6. lock[l] = c BY <3>1, <3>5 DEF CallsPlaced, Placed
    <3> QED BY <1>5, <3>6
  <2> QED BY <2>1, <2>2
<1>6. CallsPlaced'
  <2> SUFFICES ASSUME NEW d \in Calls PROVE Placed(d)'
    BY DEF CallsPlaced
  <2> USE DEF Placed
  <2>1. CASE d = c
    BY <2>1 DEF OnObject, Closing, Away
  <2>2. CASE d # c
    <3>1. Held(d)' = Held(d) BY <2>2 DEF Held
    <3>2. /\ OnObject(d)' <=> OnObject(d) 
          /\ Closing(d)' <=> Closing(d)
          /\ Away(d)' <=> Away(d)
      BY <2>2 DEF OnObject, Closing, Away
    <3>3. OnObject(d) => Held(d) \in Lanes /\ lock'[Held(d)] = d
      BY <1>5, <2>2, LanesInUse DEF CallsPlaced, Placed
    <3> QED
      BY <1>1, <1>2, <2>2, <3>1, <3>2, <3>3, LanesInUse
      DEF CallsPlaced, Placed, Object
  <2> QED BY <2>1, <2>2
<1>7. LocksPlaced'
  <2> SUFFICES ASSUME NEW l \in Lanes, lock'[l] # NoCall
               PROVE  OnObject(lock[l])' /\ Held(lock[l])' = l
    BY DEF LocksPlaced
  <2>1. lock'[l] = lock[l] /\ lock[l] # c BY <1>3, <1>4
  <2>2. lock[l] \in Calls BY <2>1 DEF TypeOK
  <2>3. OnObject(lock[l]) /\ Held(lock[l]) = l BY <2>1 DEF LocksPlaced
  <2> QED BY <2>1, <2>2, <2>3 DEF OnObject, Held
<1> QED BY <1>6, <1>7

\* A call goes on where it is.
LEMMA StaysPlaced ==
  ASSUME EepInv, NEW c \in Calls, network' = network, gen' = gen, lock' = lock,
         at' = at, loaded => loaded',
         OnObject(c)' <=> OnObject(c), Closing(c)' => Closing(c),
         Away(c)' => Away(c),
         network = "direct" => pc'[c] \in {"idle", "sent", "curl"},
         ~Rotates => pc'[c] \notin {"rotate", "ask", "close", "keep"},
         network # "direct" /\ ~loaded' => pc'[c] \in {"idle", "load", "persist"},
         \A d \in Calls \ {c} : pc'[d] = pc[d]
  PROVE  CallsPlaced' /\ LocksPlaced'
<1> USE DEF EepInv
<1>1. \A l \in Lanes : Object(l)' = Object(l) BY DEF Object
<1>2. InUse' = InUse /\ (Rotates' <=> Rotates) BY DEF InUse, Rotates
<1>3. \A d \in Calls : /\ Held(d)' = Held(d) /\ (OnObject(d)' <=> OnObject(d))
                       /\ Closing(d)' => Closing(d)
                       /\ Away(d)' => Away(d)
  BY DEF Held, OnObject, Closing, Away
<1>4. CallsPlaced'
  <2> SUFFICES ASSUME NEW d \in Calls PROVE Placed(d)'
    BY DEF CallsPlaced
  <2> USE DEF Placed
  <2> QED BY <1>2, <1>3, LanesInUse DEF CallsPlaced, Placed, Object
<1>5. LocksPlaced'
  BY <1>3 DEF LocksPlaced, TypeOK
<1> QED BY <1>4, <1>5

LEMMA KeepsProxies ==
  ASSUME DistinctProxies, network' = network, proxy' = proxy
  PROVE  DistinctProxies'
BY DEF DistinctProxies, InUse

LEMMA KeepsResting ==
  ASSUME Resting, UNCHANGED <<breaker, row, draft, proxy>>, loaded => loaded'
  PROVE  Resting'
BY DEF Resting

-----------------------------------------------------------------------------
\* The invariant is kept by every step of a call.

LEMMA BeginKeeps ==
  ASSUME EepInv, NEW c \in Calls, Begin(c)
  PROVE  EepInv'
<1> USE DEF EepInv
<1>1. PICK label \in {"sent", "load"} :
        Goes(c, label) /\ label = IF network = "direct" THEN "sent" ELSE "load"
  BY DEF Begin
<1>2. /\ pc' \in [Calls -> PcLabels] /\ pc'[c] = label
      /\ \A d \in Calls \ {c} : pc'[d] = pc[d]
  BY <1>1, GoesOn DEF PcLabels
<1>3. pc[c] = "idle" /\ UNCHANGED <<network, laneVars, loaded, row, at>>
  BY DEF Begin
<1>4. budget' \in [LaneEvents -> Nat] BY SpendBudget DEF Begin, LaneEvents
<1>5. TypeOK' BY <1>2, <1>4 DEF TypeOK, Begin, laneVars, PcLabels
<1>6. CallsPlaced' /\ LocksPlaced'
  BY <1>1, <1>2, <1>3, StaysPlaced
  DEF laneVars, OnObject, Closing, Away, Rotates
<1>7. DistinctProxies' BY <1>3, KeepsProxies DEF laneVars
<1>8. Resting' BY <1>3, KeepsResting DEF laneVars, Begin
<1> QED BY <1>5, <1>6, <1>7, <1>8

LEMMA LoadRowsKeeps ==
  ASSUME EepInv, NEW c \in Calls, LoadRows(c)
  PROVE  EepInv'
<1> USE DEF EepInv
<1>1. /\ pc[c] = "load"
      /\ UNCHANGED <<network, proxy, gen, lock, nextLane, cursor, bad, rotating,
                     loaded, row, at, attempts, outcome, draft, budget>>
  BY DEF LoadRows
<1>2. PICK label \in {"acquire", "persist"} :
        Goes(c, label) /\ (label = "acquire" => loaded)
  BY DEF LoadRows
<1>3. /\ pc' \in [Calls -> PcLabels] /\ pc'[c] = label
      /\ \A d \in Calls \ {c} : pc'[d] = pc[d]
  BY <1>2, GoesOn DEF PcLabels
<1>4. /\ breaker' \in [Lanes -> Breaker]
      /\ \A l \in Lanes : Sound(breaker'[l])
  <2>1. CASE breaker' = breaker BY <2>1 DEF TypeOK, Resting
  <2>2. CASE breaker' = [l \in Lanes |->
                           IF l \notin InUse \/ row[LaneId(l)] = NoRow
                           THEN breaker[l] ELSE Restored(row[LaneId(l)])]
    <3>1. ASSUME NEW l \in Lanes, row[LaneId(l)] # NoRow
          PROVE  /\ Restored(row[LaneId(l)]) \in Breaker
                 /\ Sound(Restored(row[LaneId(l)]))
      <4>1. LaneId(l) \in Lanes \X Proxies BY DEF LaneId, TypeOK
      <4>2. row[LaneId(l)] \in Breaker /\ Sound(row[LaneId(l)])
        BY <3>1, <4>1 DEF TypeOK, Resting
      <4> QED BY <4>2, LaneBreakers, LaneCooldowns
    <3>2. \A l \in Lanes : breaker[l] \in Breaker /\ Sound(breaker[l])
      BY DEF TypeOK, Resting
    <3>3. \A l \in Lanes : breaker'[l] \in Breaker /\ Sound(breaker'[l])
      BY <2>2, <3>1, <3>2
    <3> QED BY <2>2, <3>3
  <2> QED BY <2>1, <2>2 DEF LoadRows
<1>5. TypeOK' BY <1>1, <1>3, <1>4 DEF TypeOK, PcLabels
<1>6. CallsPlaced' /\ LocksPlaced'
  <2>1. network # "direct" BY <1>1 DEF CallsPlaced, Placed
  <2> QED
    BY <1>1, <1>2, <1>3, <2>1, StaysPlaced DEF OnObject, Closing, Away
<1>7. DistinctProxies' BY <1>1, KeepsProxies
<1>8. Resting' BY <1>1, <1>4 DEF Resting
<1> QED BY <1>5, <1>6, <1>7, <1>8

LEMMA SaveRowsKeeps ==
  ASSUME EepInv, NEW c \in Calls, SaveRows(c)
  PROVE  EepInv'
<1> USE DEF EepInv
<1>1. /\ pc[c] = "persist" /\ loaded' = TRUE
      /\ row' = [i \in Lanes \X Proxies |->
                   IF i[1] \in InUse /\ i = LaneId(i[1])
                   THEN breaker[i[1]] ELSE row[i]]
      /\ UNCHANGED <<network, laneVars, at, attempts, outcome, draft, budget>>
  BY DEF SaveRows
<1>2. /\ pc' \in [Calls -> PcLabels] /\ pc'[c] = "acquire"
      /\ \A d \in Calls \ {c} : pc'[d] = pc[d]
  BY GoesOn DEF SaveRows, PcLabels
<1>3. \A i \in Lanes \X Proxies :
        /\ breaker[i[1]] \in Breaker /\ Sound(breaker[i[1]])
        /\ row[i] \in Breaker \cup {NoRow} /\ Sound(row[i])
  BY DEF TypeOK, Resting
<1>4. /\ row' \in [Lanes \X Proxies -> Breaker \cup {NoRow}]
      /\ \A i \in Lanes \X Proxies : Sound(row'[i])
  <2>1. \A i \in Lanes \X Proxies :
          row'[i] \in Breaker \cup {NoRow} /\ Sound(row'[i])
    BY <1>1, <1>3
  <2> QED BY <1>1, <2>1
<1>5. TypeOK' BY <1>1, <1>2, <1>4 DEF TypeOK, PcLabels, laneVars
<1>6. CallsPlaced' /\ LocksPlaced'
  <2>1. network # "direct" BY <1>1 DEF CallsPlaced, Placed
  <2> QED
    BY <1>1, <1>2, <2>1, StaysPlaced DEF OnObject, Closing, Away, laneVars
<1>7. DistinctProxies' BY <1>1, KeepsProxies DEF laneVars
<1>8. Resting' BY <1>1, <1>4 DEF Resting, laneVars
<1> QED BY <1>5, <1>6, <1>7, <1>8

LEMMA TurnIsUsable ==
  ASSUME TypeOK, NEW l \in InUse, Turns(l)
  PROVE  Usable(l)
<1> DEFINE n == IF network = "pool" THEN LaneCount ELSE 1
           hits == {i \in 0..(n - 1) : Usable(Ring(nextLane, i, n))}
<1>1. hits # {} /\ l = Ring(nextLane, Least(hits), n) BY DEF Turns
<1>2. hits \subseteq Nat BY EepAssumption
<1>3. Least(hits) \in hits BY <1>1, <1>2, LeastIsIn
<1> QED BY <1>1, <1>3

LEMMA AcquireKeeps ==
  ASSUME EepInv, NEW c \in Calls, AcquireLane(c)
  PROVE  EepInv'
<1> USE DEF EepInv
<1>1. PICK l \in InUse :
        /\ Turns(l) /\ lock' = [lock EXCEPT ![l] = c]
        /\ at' = [at EXCEPT ![c] = Object(l)] /\ nextLane' = AfterLane(l)
  BY DEF AcquireLane
<1>2. l \in Lanes /\ lock[l] = NoCall /\ Available(breaker[l])
  BY <1>1, TurnIsUsable, LanesInUse DEF Usable
<1>3. /\ pc[c] = "acquire"
      /\ attempts' = [attempts EXCEPT ![c] = @ + 1]
      /\ UNCHANGED <<network, breaker, proxy, gen, cursor, bad, rotating, loaded,
                     row, outcome, draft, budget>>
  BY DEF AcquireLane
<1>4. /\ pc' \in [Calls -> PcLabels] /\ pc'[c] = "sent"
      /\ \A d \in Calls \ {c} : pc'[d] = pc[d]
  BY GoesOn DEF AcquireLane, PcLabels
<1>5. Object(l) \in Lanes \X Nat /\ Object(l)[1] = l
  BY <1>2 DEF Object, TypeOK
<1>6. /\ at' \in [Calls -> (Lanes \X Nat) \cup {NoLane}] /\ at'[c] = Object(l)
      /\ \A d \in Calls \ {c} : at'[d] = at[d]
  BY <1>1, <1>5 DEF TypeOK
<1>7. nextLane' \in Lanes
  <2>1. CASE network = "pool"
    <3>1. l \in 1..LaneCount /\ LaneCount \in Nat \ {0} /\ 1 \in Nat
      BY <1>2, EepAssumption DEF Lanes
    <3>2. Ring(l, 1, LaneCount) \in 1..LaneCount BY <3>1, RingIn
    <3> QED BY <1>1, <2>1, <3>2 DEF AfterLane, Lanes
  <2>2. CASE network # "pool" BY <1>1, <2>2, LanesInUse DEF AfterLane
  <2> QED BY <2>1, <2>2
<1>8. lock' \in [Lanes -> Calls \cup {NoCall}] /\ attempts' \in [Calls -> Nat]
  <2>1. lock' \in [Lanes -> Calls \cup {NoCall}] BY <1>1, <1>2 DEF TypeOK
  <2>2. attempts' \in [Calls -> Nat] BY <1>3, SMT DEF TypeOK
  <2> QED BY <2>1, <2>2
<1>9. TypeOK' BY <1>3, <1>4, <1>6, <1>7, <1>8 DEF TypeOK, PcLabels
<1>10. \A m \in Lanes : /\ lock'[m] = IF m = l THEN c ELSE lock[m]
                        /\ Object(m)' = Object(m)
  BY <1>1, <1>3 DEF Object, TypeOK
<1>11. network # "direct" /\ loaded BY <1>3 DEF CallsPlaced, Placed
<1>12. InUse' = InUse /\ (Rotates' <=> Rotates) BY <1>3 DEF InUse, Rotates
<1>13. CallsPlaced'
  <2> SUFFICES ASSUME NEW d \in Calls PROVE Placed(d)'
    BY DEF CallsPlaced
  <2> USE DEF Placed
  <2>1. CASE d = c
    <3>1. Held(d)' = l /\ at'[d] = Object(l) BY <1>5, <1>6, <2>1 DEF Held
    <3> QED
      BY <1>2, <1>3, <1>4, <1>10, <1>11, <1>12, <2>1, <3>1
      DEF OnObject, Closing, Away, Object
  <2>2. CASE d # c
    <3>1. Held(d)' = Held(d) BY <1>6, <2>2 DEF Held
    <3>2. /\ OnObject(d)' <=> OnObject(d)
          /\ Closing(d)' <=> Closing(d)
          /\ Away(d)' <=> Away(d)
          /\ pc'[d] = pc[d] /\ at'[d] = at[d]
      BY <1>3, <1>4, <1>6, <2>2 DEF OnObject, Closing, Away
    <3>3. OnObject(d) => Held(d) \in Lanes /\ Held(d) # l
      BY <1>2, LanesInUse, EepAssumption DEF CallsPlaced, Placed
    <3> QED
      BY <1>3, <1>10, <1>12, <3>1, <3>2, <3>3 DEF CallsPlaced, Placed, Object
  <2> QED BY <2>1, <2>2
<1>14. LocksPlaced'
  <2> SUFFICES ASSUME NEW m \in Lanes, lock'[m] # NoCall
               PROVE  OnObject(lock[m])' /\ Held(lock[m])' = m
    BY DEF LocksPlaced
  <2>1. CASE m = l
    BY <1>3, <1>4, <1>5, <1>6, <1>10, <1>11, <2>1 DEF OnObject, Held
  <2>2. CASE m # l
    <3>1. lock'[m] = lock[m] /\ lock[m] \in Calls
      BY <1>10, <2>2 DEF TypeOK
    <3>2. OnObject(lock[m]) /\ Held(lock[m]) = m BY <3>1 DEF LocksPlaced
    <3>3. lock[m] # c BY <1>3, <3>2 DEF OnObject
    <3> QED BY <1>3, <1>4, <1>6, <3>1, <3>2, <3>3 DEF OnObject, Held
  <2> QED BY <2>1, <2>2
<1>15. DistinctProxies' BY <1>3, KeepsProxies
<1>16. Resting' BY <1>3, KeepsResting
<1> QED BY <1>9, <1>13, <1>14, <1>15, <1>16

LEMMA FreesRotation ==
  ASSUME TypeOK, FreeRotation(NoCall) \/ \E c \in Calls : FreeRotation(c)
  PROVE  rotating' \in Calls \cup {NoCall}
BY DEF TypeOK, FreeRotation

\* RefuseAll, Curl and DirectEnds: a call returns that is on no lane.
LEMMA AwayReturns ==
  ASSUME EepInv, NEW c \in Calls, Away(c), Return(c),
         UNCHANGED <<network, laneVars, loaded, row, draft, budget>>
  PROVE  EepInv'
<1> USE DEF EepInv
<1>1. at[c] = NoLane BY DEF CallsPlaced, Placed
<1>2. \A l \in Lanes : at[c] # Object(l)
  BY <1>1, LanesInUse DEF Object, NoLane
<1>3. lock' = lock BY DEF laneVars
<1>4. Release(c)
  <2>1. lock = [l \in Lanes |-> lock[l]] BY DEF TypeOK
  <2> QED BY <1>2, <1>3, <2>1 DEF Release
<1>5. TypeOK' BY Returns DEF TypeOK, laneVars, PcLabels
<1>6. CallsPlaced' /\ LocksPlaced' BY <1>4, Returns, LeavesLane DEF laneVars
<1>7. DistinctProxies' BY KeepsProxies DEF laneVars
<1>8. Resting' BY KeepsResting DEF laneVars
<1> QED BY <1>5, <1>6, <1>7, <1>8

LEMMA DirectFailsKeeps ==
  ASSUME EepInv, NEW c \in Calls, DirectFails(c)
  PROVE  EepInv'
<1> USE DEF EepInv
<1>1. /\ network = "direct" /\ pc[c] = "sent"
      /\ UNCHANGED <<network, laneVars, loaded, row, at, outcome, draft>>
      /\ attempts' = [attempts EXCEPT ![c] = @ + 1]
  BY DEF DirectFails, OnDirect
<1>2. PICK label \in {"sent", "curl"} : Goes(c, label) BY DEF DirectFails
<1>3. /\ pc' \in [Calls -> PcLabels] /\ pc'[c] = label
      /\ \A d \in Calls \ {c} : pc'[d] = pc[d]
  BY <1>2, GoesOn DEF PcLabels
<1>4. budget' \in [LaneEvents -> Nat]
  BY SpendBudget DEF DirectFails, LaneEvents
<1>5. attempts' \in [Calls -> Nat] BY <1>1, SMT DEF TypeOK
<1>6. TypeOK' BY <1>1, <1>3, <1>4, <1>5 DEF TypeOK, laneVars, PcLabels
<1>7. CallsPlaced' /\ LocksPlaced'
  BY <1>1, <1>3, StaysPlaced DEF laneVars, OnObject, Closing, Away, Rotates
<1>8. DistinctProxies' BY <1>1, KeepsProxies DEF laneVars
<1>9. Resting' BY <1>1, KeepsResting DEF laneVars
<1> QED BY <1>6, <1>7, <1>8, <1>9

\* Succeed, Block, Lose and ProviderLost.
LEMMA AnsweredKeeps ==
  ASSUME EepInv, NEW c \in Calls, OnObject(c), NEW b \in Breaker,
         NEW result \in {"ok", "blocked", "lost"}, Answered(c, b, result),
         Sound(b),
         rotating' \in Calls \cup {NoCall}, budget' \in [LaneEvents -> Nat]
  PROVE  EepInv'
<1> USE DEF EepInv
<1>1. /\ breaker' = [breaker EXCEPT ![Held(c)] = b]
      /\ outcome' = [outcome EXCEPT ![c] = result]
      /\ UNCHANGED <<network, proxy, gen, lock, nextLane, cursor, bad, loaded,
                     row, at, attempts, draft>>
  BY DEF Answered
<1>2. /\ pc' \in [Calls -> PcLabels] /\ pc'[c] = "save"
      /\ \A d \in Calls \ {c} : pc'[d] = pc[d]
  BY GoesOn DEF Answered, PcLabels
<1>3. Held(c) \in InUse /\ Held(c) \in Lanes /\ network # "direct" /\ loaded
  BY LanesInUse DEF CallsPlaced, Placed, OnObject
<1>4. TypeOK'
  <2>1. breaker' \in [Lanes -> Breaker] BY <1>1, <1>3 DEF TypeOK
  <2>2. outcome' \in [Calls -> {"none", "ok", "blocked", "lost"}]
    BY <1>1 DEF TypeOK
  <2> QED BY <1>1, <1>2, <2>1, <2>2 DEF TypeOK, PcLabels
<1>5. CallsPlaced' /\ LocksPlaced'
  BY <1>1, <1>2, <1>3, StaysPlaced DEF OnObject, Closing, Away
<1>6. DistinctProxies' BY <1>1, KeepsProxies
<1>7. Resting'
  <2>1. \A l \in Lanes : breaker'[l] = IF l = Held(c) THEN b ELSE breaker[l]
    BY <1>1 DEF TypeOK
  <2> QED BY <1>1, <2>1 DEF Resting
<1> QED BY <1>4, <1>5, <1>6, <1>7

LEMMA AnswerKeeps ==
  ASSUME EepInv, NEW c \in Calls, Succeed(c) \/ Block(c) \/ Lose(c) \/ ProviderLost(c)
  PROVE  EepInv'
<1>0. TypeOK BY DEF EepInv
<1> DEFINE b == breaker[Held(c)]
<1>1. OnObject(c)
  BY
  DEF Succeed, Block, Lose, ProviderLost, OnLane, OnObject, EepInv,
      CallsPlaced, Placed
<1>2. Held(c) \in Lanes BY <1>1, LanesInUse DEF EepInv, CallsPlaced, Placed
<1>3. b \in Breaker /\ Sound(b)
  BY <1>0, <1>2 DEF TypeOK, EepInv, Resting
<1> HIDE DEF b
<1>4. /\ Succeeded(b) \in Breaker /\ Sound(Succeeded(b))
      /\ Failed(b, Threshold) \in Breaker /\ Sound(Failed(b, Threshold))
  BY <1>3, LaneBreakers, LaneCooldowns
<1>5. budget' \in [LaneEvents -> Nat]
  <2>1. CASE Succeed(c) BY <1>0, <2>1 DEF Succeed, TypeOK
  <2>2. CASE ~Succeed(c)
    BY <1>0, <2>2, SpendBudget DEF Block, Lose, ProviderLost, LaneEvents
  <2> QED BY <2>1, <2>2
<1>6. rotating' \in Calls \cup {NoCall}
  BY <1>0, FreesRotation DEF Succeed, Block, Lose, ProviderLost, TypeOK
<1>7. \/ Answered(c, Succeeded(b), "ok")
      \/ Answered(c, Failed(b, Threshold), "blocked")
      \/ Answered(c, Failed(b, Threshold), "lost")
  BY DEF Succeed, Block, Lose, ProviderLost, b
<1>8. CASE Answered(c, Succeeded(b), "ok")
  BY <1>1, <1>4, <1>5, <1>6, <1>8, AnsweredKeeps DEF b
<1>9. CASE Answered(c, Failed(b, Threshold), "blocked")
           \/ Answered(c, Failed(b, Threshold), "lost")
  BY <1>1, <1>4, <1>5, <1>6, <1>9, AnsweredKeeps DEF b
<1> QED BY <1>7, <1>8, <1>9

\* Raise, ProviderRefuses and SaveFails.
LEMMA FailedReturnKeeps ==
  ASSUME EepInv, NEW c \in Calls, Raise(c) \/ ProviderRefuses(c) \/ SaveFails(c)
  PROVE  EepInv'
<1> USE DEF EepInv
<1>1. /\ Release(c) /\ Return(c)
      /\ UNCHANGED <<network, breaker, proxy, gen, nextLane, cursor, bad, loaded,
                     row>>
  BY DEF Raise, ProviderRefuses, SaveFails
<1>2. /\ draft' \in [Calls -> Breaker]
      /\ \A d \in Calls : Sound(draft'[d])
  <2>1. draft' = draft \/ draft' = [draft EXCEPT ![c] = Fresh]
    BY DEF Raise, ProviderRefuses, SaveFails
  <2>2. Fresh \in Breaker /\ Sound(Fresh)
    BY DEF Breaker, BreakerStates, Fresh, Sound
  <2> QED BY <2>1, <2>2 DEF TypeOK, Resting
<1>3. budget' \in [LaneEvents -> Nat]
  BY SpendBudget DEF Raise, ProviderRefuses, SaveFails, LaneEvents
<1>4. rotating' \in Calls \cup {NoCall}
  BY FreesRotation DEF Raise, ProviderRefuses, SaveFails, TypeOK
<1>5. TypeOK' BY <1>1, <1>2, <1>3, <1>4, Returns, Releases DEF TypeOK, PcLabels
<1>6. CallsPlaced' /\ LocksPlaced' BY <1>1, Returns, LeavesLane
<1>7. DistinctProxies' BY <1>1, KeepsProxies
<1>8. Resting' BY <1>1, <1>2 DEF Resting
<1> QED BY <1>5, <1>6, <1>7, <1>8

LEMMA SaveKeeps ==
  ASSUME EepInv, NEW c \in Calls, Save(c)
  PROVE  EepInv'
<1> USE DEF EepInv
<1>1. /\ pc[c] = "save"
      /\ row' = [row EXCEPT ![LaneId(Held(c))] = breaker[Held(c)]]
      /\ UNCHANGED <<network, breaker, proxy, gen, nextLane, cursor, bad,
                     rotating, loaded, draft, budget>>
  BY DEF Save
<1>2. /\ OnObject(c) /\ Held(c) \in InUse /\ Held(c) \in Lanes /\ loaded
      /\ network # "direct" /\ at[c] = Object(Held(c)) /\ lock[Held(c)] = c
  BY <1>1, LanesInUse DEF CallsPlaced, Placed, OnObject
<1>3. row' \in [Lanes \X Proxies -> Breaker \cup {NoRow}]
  BY <1>1, <1>2 DEF TypeOK, LaneId
<1>4. DistinctProxies' /\ Resting'
  <2>1. LaneId(Held(c)) \in Lanes \X Proxies BY <1>2 DEF LaneId, TypeOK
  <2>2. \A i \in Lanes \X Proxies :
          row'[i] = IF i = LaneId(Held(c)) THEN breaker[Held(c)] ELSE row[i]
    BY <1>1, <2>1 DEF TypeOK
  <2>3. Resting' BY <1>1, <1>2, <2>2 DEF Resting
  <2> QED BY <1>1, <2>3, KeepsProxies
<1>5. CASE Release(c) /\ (Return(c) \/ Retry(c))
  <2>1. TypeOK'
    BY <1>1, <1>3, <1>5, Returns, Retries, Releases DEF TypeOK, PcLabels
  <2>2. CallsPlaced' /\ LocksPlaced'
    BY <1>1, <1>2, <1>5, Returns, Retries, LeavesLane
  <2> QED BY <1>4, <2>1, <2>2
<1>6. CASE Rotates /\ Goes(c, "rotate") /\ UNCHANGED <<at, attempts, outcome, lock>>
  <2>1. /\ pc' \in [Calls -> PcLabels] /\ pc'[c] = "rotate"
        /\ \A d \in Calls \ {c} : pc'[d] = pc[d]
    BY <1>6, GoesOn DEF PcLabels
  <2>2. TypeOK' BY <1>1, <1>3, <1>6, <2>1 DEF TypeOK, PcLabels
  <2>3. CallsPlaced' /\ LocksPlaced'
    BY <1>1, <1>2, <1>6, <2>1, StaysPlaced DEF OnObject, Closing, Away
  <2> QED BY <1>4, <2>2, <2>3
<1> QED BY <1>5, <1>6 DEF Save

LEMMA InstallKeeps ==
  ASSUME EepInv, NEW c \in Calls, pc[c] \in {"rotate", "ask"},
         NEW url \in Proxies, Install(c, Held(c), url),
         network = "pool" => \A m \in Lanes \ {Held(c)} : url # proxy[m],
         UNCHANGED <<network, nextLane, loaded, row, at, attempts, outcome, draft,
                     budget>>,
         cursor' \in DOMAIN Urls, bad' \subseteq Proxies
  PROVE  EepInv'
<1> USE DEF EepInv
<1> DEFINE l == Held(c)
<1>1. /\ OnObject(c) /\ l \in InUse /\ l \in Lanes /\ loaded /\ Rotates
      /\ network # "direct" /\ at[c] = Object(l) /\ lock[l] = c
  BY LanesInUse DEF CallsPlaced, Placed, OnObject
<1>2. /\ breaker' = [breaker EXCEPT ![l] = Fresh]
      /\ proxy' = [proxy EXCEPT ![l] = url]
      /\ gen' = [gen EXCEPT ![l] = @ + 1]
      /\ lock' = [lock EXCEPT ![l] = NoCall]
      /\ rotating' = c
  BY DEF Install
<1>3. /\ pc' \in [Calls -> PcLabels] /\ pc'[c] = "close"
      /\ \A d \in Calls \ {c} : pc'[d] = pc[d]
  BY GoesOn DEF Install, PcLabels
<1>4. at[c][2] = gen[l] /\ gen[l] \in Nat BY <1>1 DEF Object, TypeOK
<1> HIDE DEF l
<1>5. TypeOK'
  <2>1. /\ breaker' \in [Lanes -> Breaker]
    BY <1>1, <1>2 DEF TypeOK, Breaker, BreakerStates, Fresh
  <2>2. proxy' \in [Lanes -> Proxies] /\ lock' \in [Lanes -> Calls \cup {NoCall}]
    BY <1>1, <1>2 DEF TypeOK
  <2>3. gen' \in [Lanes -> Nat] BY <1>1, <1>2, <1>4 DEF TypeOK
  <2> QED BY <1>2, <1>3, <2>1, <2>2, <2>3 DEF TypeOK, PcLabels
<1>6. \A m \in Lanes : /\ gen'[m] = IF m = l THEN gen[l] + 1 ELSE gen[m]
                       /\ lock'[m] = IF m = l THEN NoCall ELSE lock[m]
                       /\ proxy'[m] = IF m = l THEN url ELSE proxy[m]
  BY <1>2 DEF TypeOK
<1>7. InUse' = InUse /\ (Rotates' <=> Rotates) BY DEF InUse, Rotates
<1>8. CallsPlaced'
  <2> SUFFICES ASSUME NEW d \in Calls PROVE Placed(d)'
    BY DEF CallsPlaced
  <2> USE DEF Placed
  <2>1. CASE d = c
    <3>1. Held(d)' = l /\ at'[d] = at[d] BY <2>1 DEF Held, l
    <3>2. at'[d][2] < gen'[Held(d)'] BY <1>1, <1>4, <1>6, <2>1, <3>1
    <3> QED
      BY <1>1, <1>3, <1>7, <2>1, <3>1, <3>2 DEF OnObject, Closing, Away
  <2>2. CASE d # c
    <3>1. Held(d)' = Held(d) BY DEF Held
    <3>2. /\ OnObject(d)' <=> OnObject(d)
          /\ Closing(d)' <=> Closing(d)
          /\ Away(d)' <=> Away(d)
          /\ pc'[d] = pc[d] /\ at'[d] = at[d]
      BY <1>3, <2>2 DEF OnObject, Closing, Away
    <3>3. OnObject(d) => Held(d) \in Lanes /\ Held(d) # l
      BY <1>1, <2>2, LanesInUse DEF CallsPlaced, Placed
    <3>4. Closing(d) => at[d][2] < gen'[Held(d)]
      <4> SUFFICES ASSUME Closing(d) PROVE at[d][2] < gen'[Held(d)]
        OBVIOUS
      <4>1. Held(d) \in Lanes /\ at[d][2] < gen[Held(d)]
        BY LanesInUse DEF CallsPlaced, Placed
      <4>2. at[d] \in Lanes \X Nat
        BY <4>1, LanesInUse DEF TypeOK, Held, NoLane
      <4>3. at[d][2] \in Nat /\ gen[Held(d)] \in Nat BY <4>1, <4>2 DEF TypeOK
      <4> QED BY <1>6, <4>1, <4>3
    <3> QED
      BY <1>6, <1>7, <3>1, <3>2, <3>3, <3>4 DEF CallsPlaced, Placed, Object
  <2> QED BY <2>1, <2>2
<1>9. LocksPlaced'
  <2> SUFFICES ASSUME NEW m \in Lanes, lock'[m] # NoCall
               PROVE  OnObject(lock[m])' /\ Held(lock[m])' = m
    BY DEF LocksPlaced
  <2>1. m # l /\ lock'[m] = lock[m] BY <1>6
  <2>2. OnObject(lock[m]) /\ Held(lock[m]) = m BY <2>1 DEF LocksPlaced
  <2>3. lock[m] \in Calls /\ lock[m] # c BY <2>1, <2>2 DEF TypeOK, l
  <2> QED BY <1>3, <2>1, <2>2, <2>3 DEF OnObject, Held
<1>10. DistinctProxies'
  <2>1. CASE network = "pool"
    <3> SUFFICES ASSUME NEW m \in Lanes, NEW n \in Lanes, proxy'[m] = proxy'[n]
                 PROVE  m = n
      BY <1>7, LanesInUse DEF DistinctProxies
    <3>1. \A k \in Lanes : k # l => url # proxy[k] BY <2>1 DEF l
    <3>2. proxy[m] = proxy[n] => m = n BY <2>1 DEF DistinctProxies, InUse
    <3> QED BY <1>6, <3>1, <3>2
  <2>2. CASE network # "pool" BY <2>2 DEF DistinctProxies, InUse
  <2> QED BY <2>1, <2>2
<1>11. Resting'
  <2>1. \A m \in Lanes : breaker'[m] = IF m = l THEN Fresh ELSE breaker[m]
    BY <1>2 DEF TypeOK
  <2>2. Sound(Fresh) BY DEF Fresh, Sound
  <2> QED BY <1>1, <2>1, <2>2 DEF Resting
<1> QED BY <1>5, <1>8, <1>9, <1>10, <1>11

LEMMA RotateKeeps ==
  ASSUME EepInv, NEW c \in Calls, RotateInPool(c)
  PROVE  EepInv'
<1> USE DEF EepInv
<1> DEFINE l == Held(c)
           excluded == ActiveProxies(l) \cup bad
<1>1. /\ pc[c] = "rotate" /\ network = "pool"
      /\ bad' = bad \cup {proxy[l]}
      /\ UNCHANGED <<network, nextLane, loaded, row, draft, budget>>
  BY DEF RotateInPool
<1>2. l \in Lanes BY <1>1, LanesInUse DEF CallsPlaced, Placed, OnObject
<1>3. bad' \subseteq Proxies BY <1>1, <1>2 DEF TypeOK
<1>4. CASE Found(Urls, cursor, excluded) = {}
  <2>1. /\ Release(c) /\ Retry(c)
        /\ UNCHANGED <<breaker, proxy, gen, cursor, rotating>>
    BY <1>4 DEF RotateInPool
  <2>2. TypeOK' BY <1>1, <1>3, <2>1, Retries, Releases DEF TypeOK, PcLabels
  <2>3. loaded BY <1>1 DEF CallsPlaced, Placed
  <2>4. CallsPlaced' /\ LocksPlaced'
    BY <1>1, <2>1, <2>3, Retries, LeavesLane
  <2>5. DistinctProxies' BY <1>1, <2>1, KeepsProxies
  <2>6. Resting' BY <1>1, <2>1, KeepsResting
  <2> QED BY <2>2, <2>4, <2>5, <2>6
<1>5. CASE Found(Urls, cursor, excluded) # {}
  <2> DEFINE url == NextUrl(Urls, cursor, excluded)
  <2>1. /\ Install(c, Held(c), url)
        /\ cursor' = NextCursor(Urls, cursor, excluded)
        /\ UNCHANGED <<at, attempts, outcome>>
    BY <1>5 DEF RotateInPool
  <2>2. url \in Proxies \ excluded /\ cursor' \in DOMAIN Urls
    BY <1>5, <2>1, NextUrlIsFree DEF TypeOK
  <2>3. \A m \in Lanes : url # proxy[m] BY <2>2 DEF ActiveProxies
  <2> HIDE DEF url
  <2> QED BY <1>1, <1>3, <2>1, <2>2, <2>3, InstallKeeps
<1> QED BY <1>4, <1>5

LEMMA ProviderRotatesKeeps ==
  ASSUME EepInv, NEW c \in Calls, ProviderRotates(c)
  PROVE  EepInv'
<1>1. /\ pc[c] = "ask" /\ Install(c, Held(c), proxy[Held(c)])
      /\ UNCHANGED <<network, nextLane, cursor, bad, loaded, row, at, attempts,
                     outcome, draft, budget>>
  BY DEF ProviderRotates
<1>2. Held(c) \in InUse /\ Held(c) \in Lanes
  BY <1>1, LanesInUse DEF EepInv, CallsPlaced, Placed, OnObject
<1>3. /\ proxy[Held(c)] \in Proxies /\ cursor' \in DOMAIN Urls
      /\ bad' \subseteq Proxies
  BY <1>1, <1>2 DEF EepInv, TypeOK
<1>4. network = "pool" =>
        \A m \in Lanes \ {Held(c)} : proxy[Held(c)] # proxy[m]
  BY <1>2 DEF EepInv, DistinctProxies, InUse
<1> QED BY <1>1, <1>3, <1>4, InstallKeeps

\* AskProvider and CloseOld.
LEMMA RotationGoesOnKeeps ==
  ASSUME EepInv, NEW c \in Calls, AskProvider(c) \/ CloseOld(c)
  PROVE  EepInv'
<1> USE DEF EepInv
<1>1. UNCHANGED <<network, breaker, proxy, gen, lock, nextLane, cursor, bad,
                  loaded, row, at, attempts, outcome, budget>>
  BY DEF AskProvider, CloseOld, laneVars
<1>2. PICK label \in {"ask", "keep"} :
        /\ Goes(c, label)
        /\ label = "ask" => pc[c] = "rotate"
        /\ label = "keep" => pc[c] = "close"
  BY DEF AskProvider, CloseOld
<1>3. /\ pc' \in [Calls -> PcLabels] /\ pc'[c] = label
      /\ \A d \in Calls \ {c} : pc'[d] = pc[d]
  BY <1>2, GoesOn DEF PcLabels
<1>4. rotating' \in Calls \cup {NoCall}
  BY DEF AskProvider, CloseOld, TypeOK, laneVars
<1>5. /\ draft' \in [Calls -> Breaker]
      /\ \A d \in Calls : Sound(draft'[d])
  <2>1. CASE AskProvider(c) BY <2>1 DEF AskProvider, TypeOK, Resting
  <2>2. CASE CloseOld(c)
    <3>1. Closing(c) BY <2>2 DEF CloseOld, Closing
    <3>2. Held(c) \in Lanes BY <3>1, LanesInUse DEF CallsPlaced, Placed
    <3>3. breaker[Held(c)] \in Breaker /\ Sound(breaker[Held(c)])
      BY <3>2 DEF TypeOK, Resting
    <3>4. draft' = [draft EXCEPT ![c] = breaker[Held(c)]]
      BY <2>2 DEF CloseOld
    <3> QED BY <3>3, <3>4 DEF TypeOK, Resting
  <2> QED BY <2>1, <2>2
<1>6. TypeOK' BY <1>1, <1>3, <1>4, <1>5 DEF TypeOK, PcLabels
<1>7. Rotates /\ network # "direct" /\ loaded
  BY <1>2 DEF CallsPlaced, Placed, Rotates
<1>8. CallsPlaced' /\ LocksPlaced'
  BY <1>1, <1>2, <1>3, <1>7, StaysPlaced DEF OnObject, Closing, Away
<1>9. DistinctProxies' BY <1>1, KeepsProxies
<1>10. Resting' BY <1>1, <1>5 DEF Resting
<1> QED BY <1>6, <1>8, <1>9, <1>10

LEMMA SaveReplacementKeeps ==
  ASSUME EepInv, NEW c \in Calls, SaveReplacement(c)
  PROVE  EepInv'
<1> USE DEF EepInv
<1>1. /\ pc[c] = "keep" /\ row' = [row EXCEPT ![LaneId(Held(c))] = draft[c]]
      /\ draft' = [draft EXCEPT ![c] = Fresh]
      /\ FreeRotation(c) /\ Release(c) /\ Retry(c)
      /\ UNCHANGED <<network, breaker, proxy, gen, nextLane, cursor, bad, loaded,
                     budget>>
  BY DEF SaveReplacement
<1>2. Closing(c) /\ Rotates /\ network # "direct" /\ loaded
  BY <1>1 DEF Closing, CallsPlaced, Placed, Rotates
<1>3. Fresh \in Breaker /\ draft[c] \in Breaker
  BY DEF TypeOK, Breaker, BreakerStates, Fresh
<1>4. draft' \in [Calls -> Breaker] BY <1>1, <1>3 DEF TypeOK
<1>5. row' \in [Lanes \X Proxies -> Breaker \cup {NoRow}]
  BY <1>1, <1>3 DEF TypeOK
<1>6. rotating' \in Calls \cup {NoCall} BY <1>1, FreesRotation
<1>7. TypeOK'
  BY <1>1, <1>4, <1>5, <1>6, Retries, Releases DEF TypeOK, PcLabels
<1>8. CallsPlaced' /\ LocksPlaced' BY <1>1, <1>2, Retries, LeavesLane
<1>9. DistinctProxies' BY <1>1, KeepsProxies
<1>10. Resting'
  <2>1. Sound(Fresh) BY DEF Fresh, Sound
  <2>2. \A d \in Calls : Sound(draft'[d]) BY <1>1, <2>1 DEF TypeOK, Resting
  <2>3. \A i \in Lanes \X Proxies : row'[i] = row[i] \/ row'[i] = draft[c]
    BY <1>1 DEF TypeOK
  <2> QED BY <1>1, <2>2, <2>3 DEF Resting
<1> QED BY <1>7, <1>8, <1>9, <1>10

-----------------------------------------------------------------------------
\* And by a kill and by time.

\* What __init__ sets up: no call is anywhere and every lane is free.
Blank ==
  /\ network \in Networks
  /\ breaker = [l \in Lanes |-> Fresh] /\ proxy = [l \in Lanes |-> Urls[l]]
  /\ gen = [l \in Lanes |-> 0] /\ lock = [l \in Lanes |-> NoCall]
  /\ nextLane = 1 /\ cursor = (LaneCount % Len(Urls)) + 1
  /\ bad = {} /\ rotating = NoCall /\ loaded = FALSE
  /\ pc = [c \in Calls |-> "idle"] /\ at = [c \in Calls |-> NoLane]
  /\ attempts = [c \in Calls |-> 0] /\ outcome = [c \in Calls |-> "none"]
  /\ draft = [c \in Calls |-> Fresh]
  /\ row \in [Lanes \X Proxies -> Breaker \cup {NoRow}]
  /\ \A i \in Lanes \X Proxies : Sound(row[i])
  /\ budget \in [LaneEvents -> Nat]

LEMMA NothingPlaced ==
  Blank => EepInv
<1> SUFFICES ASSUME Blank PROVE EepInv
  OBVIOUS
<1> USE DEF Blank
<1>1. Fresh \in Breaker /\ ~Fresh.cooling BY DEF Breaker, BreakerStates, Fresh
<1>2. TypeOK BY <1>1, LanesInUse DEF TypeOK
<1>3. CallsPlaced BY DEF CallsPlaced, Placed, OnObject, Closing, Away
<1>4. LocksPlaced BY DEF LocksPlaced
<1>5. DistinctProxies
  BY LanesInUse, EepAssumption DEF DistinctProxies
<1>6. Resting BY <1>1 DEF Resting, Sound
<1> QED BY <1>2, <1>3, <1>4, <1>5, <1>6 DEF EepInv

LEMMA KillKeeps ==
  EepInv /\ Kill => EepInv'
<1>1. EepInv /\ Kill => Blank'
  <2> SUFFICES ASSUME EepInv, Kill PROVE Blank'
    OBVIOUS
  <2>1. budget' \in [LaneEvents -> Nat]
    BY SpendBudget DEF Kill, EepInv, LaneEvents
  <2>2. network' = network /\ row' = row BY DEF Kill
  <2>3. /\ network \in Networks
        /\ row \in [Lanes \X Proxies -> Breaker \cup {NoRow}]
        /\ \A i \in Lanes \X Proxies : Sound(row[i])
    BY DEF EepInv, TypeOK, Resting
  <2> QED BY <2>1, <2>2, <2>3 DEF Kill, Blank
<1> QED BY <1>1, NothingPlaced, PTL

\* CoolLane, CoolRow, CoolProxy and OtherSaves: they change what cools, and no
\* more.
LEMMA OutsideKeeps ==
  ASSUME EepInv,
         \/ \E l \in Lanes : CoolLane(l)
         \/ \E i \in Lanes \X Proxies : CoolRow(i) \/ OtherSaves(i)
         \/ \E p \in Proxies : CoolProxy(p)
  PROVE  EepInv'
<1> USE DEF EepInv
<1>0. UNCHANGED <<network, proxy, gen, lock, nextLane, cursor, rotating, loaded,
                  callVars>>
  BY DEF CoolLane, CoolRow, CoolProxy, OtherSaves, laneVars
<1>1. CallsPlaced' /\ LocksPlaced'
  BY <1>0
  DEF CallsPlaced, Placed, LocksPlaced, OnObject, Closing, Away, Held, Object,
      InUse, Rotates, callVars
<1>2. DistinctProxies' BY <1>0, KeepsProxies
<1>3. ASSUME NEW i \in Lanes \X Proxies
      PROVE  Cooled(row[i]) \in Breaker \cup {NoRow} /\ Sound(Cooled(row[i]))
  <2>1. CASE row[i] = NoRow BY <2>1, NoRowRests
  <2>2. CASE row[i] # NoRow
    <3>1. row[i] \in Breaker BY <2>2 DEF TypeOK
    <3> QED BY <3>1, LaneBreakers, LaneCooldowns
  <2> QED BY <2>1, <2>2
<1>4. bad' \subseteq Proxies
  BY DEF CoolLane, CoolRow, CoolProxy, OtherSaves, laneVars, TypeOK
<1>5. budget' \in [LaneEvents -> Nat]
  <2>1. budget' = budget \/ Spend("other")
    BY DEF CoolLane, CoolRow, CoolProxy, OtherSaves
  <2> QED BY <2>1, SpendBudget DEF TypeOK, LaneEvents
<1>6. \/ row' = row
      \/ \E i \in Lanes \X Proxies, b \in Breaker \cup {NoRow} :
           Sound(b) /\ row' = [row EXCEPT ![i] = b]
  <2>1. CASE \E l \in Lanes : CoolLane(l)
    <3>1. PICK l \in Lanes :
            row' = row \/ row' = [row EXCEPT ![LaneId(l)] = Cooled(row[LaneId(l)])]
      BY <2>1 DEF CoolLane
    <3>2. LaneId(l) \in Lanes \X Proxies BY DEF LaneId, TypeOK
    <3> QED BY <1>3, <3>1, <3>2
  <2>2. CASE \E i \in Lanes \X Proxies : CoolRow(i) \/ OtherSaves(i)
    <3>1. PICK i \in Lanes \X Proxies :
            \/ row' = [row EXCEPT ![i] = Cooled(row[i])]
            \/ \E b \in OtherBreakers : row' = [row EXCEPT ![i] = b]
      BY <2>2 DEF CoolRow, OtherSaves
    <3> QED BY <1>3, <3>1, OthersAreSound
  <2>3. CASE \E p \in Proxies : CoolProxy(p) BY <2>3 DEF CoolProxy
  <2> QED BY <2>1, <2>2, <2>3
<1>7. /\ row' \in [Lanes \X Proxies -> Breaker \cup {NoRow}]
      /\ \A i \in Lanes \X Proxies : Sound(row'[i])
  BY <1>6 DEF TypeOK, Resting
<1>8. /\ breaker' \in [Lanes -> Breaker]
      /\ \A l \in Lanes : Sound(breaker'[l])
  <2>1. CASE breaker' = breaker BY <2>1 DEF TypeOK, Resting
  <2>2. CASE \E l \in Lanes : CoolLane(l)
    <3>1. PICK l \in Lanes : breaker' = [breaker EXCEPT ![l] = Cooled(breaker[l])]
      BY <2>2 DEF CoolLane
    <3>2. Cooled(breaker[l]) \in Breaker /\ Sound(Cooled(breaker[l]))
      BY LaneBreakers, LaneCooldowns DEF TypeOK
    <3> QED BY <3>1, <3>2 DEF TypeOK, Resting
  <2> QED BY <2>1, <2>2 DEF CoolRow, CoolProxy, OtherSaves, laneVars
<1>9. TypeOK' BY <1>0, <1>4, <1>5, <1>7, <1>8 DEF TypeOK, callVars
<1>10. Resting' BY <1>0, <1>7, <1>8 DEF Resting, callVars
<1> QED BY <1>1, <1>2, <1>9, <1>10

\* The inductive invariant: a call that works on a lane object holds the lock of
\* the lane as it is now; an older object belongs to a call that is closing it.
THEOREM EepInvariant == Spec => []EepInv
<1>1. Init => EepInv
  <2>1. Init => Blank
    <3> SUFFICES ASSUME Init PROVE Blank
      OBVIOUS
    <3> USE DEF Init, InitWith
    <3>1. \A i \in Lanes \X Proxies : row[i] = NoRow /\ Sound(row[i])
      BY NoRowRests
    <3> QED BY <3>1, EepAssumption DEF Blank
  <2> QED BY <2>1, NothingPlaced
<1>2. EepInv /\ [Next]_vars => EepInv'
  <2> SUFFICES ASSUME EepInv, [Next]_vars PROVE EepInv'
    OBVIOUS
  <2>1. CASE UNCHANGED vars
    BY <2>1
    DEF EepInv, TypeOK, CallsPlaced, Placed, LocksPlaced, DistinctProxies,
        Resting, OnObject, Closing, Away, Held, Object, InUse, Rotates, vars,
        laneVars, callVars
  <2>2. ASSUME NEW c \in Calls, Begin(c) \/ Proceed(c) PROVE EepInv'
    <3>1. CASE RefuseAll(c) \/ Curl(c) \/ DirectEnds(c)
      BY <3>1, AwayReturns DEF RefuseAll, Curl, DirectEnds, OnDirect, Away
    <3>2. CASE ~(RefuseAll(c) \/ Curl(c) \/ DirectEnds(c))
      BY <2>2, <3>2, BeginKeeps, LoadRowsKeeps, SaveRowsKeeps, AcquireKeeps,
         AnswerKeeps,
         FailedReturnKeeps, SaveKeeps, RotateKeeps, ProviderRotatesKeeps,
         RotationGoesOnKeeps, SaveReplacementKeeps, DirectFailsKeeps
      DEF Proceed, Answer
    <3> QED BY <3>1, <3>2
  <2>3. CASE Kill BY <2>3, KillKeeps
  <2> QED BY <2>1, <2>2, <2>3, OutsideKeeps DEF Next
<1> QED BY <1>1, <1>2, PTL DEF Spec

\* Every reachable state of the EEP lanes is well typed.
THEOREM TypeCorrect == Spec => []TypeOK
BY EepInvariant, PTL DEF EepInv

\* No client is closed under a request and no lane lost: who works on a lane
\* object has the lock of the lane as it is now, alone.
THEOREM HeldByOne == Spec => []LaneHeldByOne
<1>1. EepInv => LaneHeldByOne
  BY DEF EepInv, CallsPlaced, Placed, LocksPlaced, LaneHeldByOne
<1> QED BY <1>1, EepInvariant, PTL

\* No two lanes of a pool share an address.
THEOREM ProxiesDiffer == Spec => []DistinctProxies
BY EepInvariant, PTL DEF EepInv

\* How a cooldown goes on: a step that starts or ends no start, and is of
\* another lane.
LEMMA StartsOn ==
  ASSUME NEW c \in Calls, loaded' = loaded,
         pc[c] # "persist", pc'[c] # "persist",
         \A d \in Calls \ {c} : pc'[d] = pc[d]
  PROVE  Started' <=> Started
BY DEF Started

LEMMA CoolsOn ==
  ASSUME NEW l \in Lanes, Cools(l), Started' <=> Started,
         breaker'[l] = breaker[l], proxy'[l] = proxy[l],
         loaded \/ row'[LaneId(l)] = row[LaneId(l)]
  PROVE  Cools(l)'
<1>1. LaneId(l)' = LaneId(l) BY DEF LaneId
<1>2. CASE Started BY <1>2 DEF Cools
<1>3. CASE ~Started BY <1>1, <1>3 DEF Cools, Started
<1> QED BY <1>2, <1>3

\* What a step owes a lane that cools and is not locked.
Spared(l) ==
  /\ lock'[l] = NoCall
  /\ Cools(l)' \/ (Started /\ ~Started')
  /\ network = "proxy" /\ row[LaneId(l)].cooling => row'[LaneId(l)].cooling

LEMMA LoadRowsSpares ==
  ASSUME EepInv, NEW c \in Calls, LoadRows(c),
         NEW l \in InUse, Cools(l), lock[l] = NoCall
  PROVE  Spared(l)
<1> USE DEF EepInv
<1>1. /\ pc[c] = "load"
      /\ UNCHANGED <<network, proxy, lock, loaded, row>>
  BY DEF LoadRows
<1>2. l \in Lanes BY LanesInUse
<1>3. CASE loaded /\ Goes(c, "acquire") /\ UNCHANGED breaker
  <2>1. Started /\ Started' BY <1>1, <1>3 DEF Started
  <2> QED BY <1>1, <1>2, <1>3, <2>1, CoolsOn DEF Spared
<1>4. CASE /\ ~Started /\ Goes(c, "persist")
           /\ breaker' = [m \in Lanes |->
                            IF m \notin InUse \/ row[LaneId(m)] = NoRow
                            THEN breaker[m] ELSE Restored(row[LaneId(m)])]
  <2>1. pc'[c] = "persist" BY <1>4, GoesOn DEF PcLabels
  <2>2. Started' BY <2>1 DEF Started
  <2>3. row[LaneId(l)].cooling BY <1>4 DEF Cools
  <2>4. LaneId(l) \in Lanes \X Proxies BY <1>2 DEF LaneId, TypeOK
  <2>5. row[LaneId(l)] # NoRow BY <2>3, NoRowRests
  <2>6. row[LaneId(l)] \in Breaker BY <2>4, <2>5 DEF TypeOK
  <2>7. breaker'[l] = Restored(row[LaneId(l)]) BY <1>2, <1>4, <2>5
  <2>8. breaker'[l].cooling BY <2>3, <2>6, <2>7, LaneCooldowns
  <2> QED BY <1>1, <2>2, <2>8 DEF Spared, Cools
<1> QED BY <1>3, <1>4 DEF LoadRows

LEMMA SaveRowsSpares ==
  ASSUME EepInv, NEW c \in Calls, SaveRows(c),
         NEW l \in InUse, Cools(l), lock[l] = NoCall
  PROVE  Spared(l)
<1> USE DEF EepInv
<1>1. /\ pc[c] = "persist" /\ loaded' = TRUE
      /\ row' = [i \in Lanes \X Proxies |->
                   IF i[1] \in InUse /\ i = LaneId(i[1])
                   THEN breaker[i[1]] ELSE row[i]]
      /\ UNCHANGED <<network, laneVars>>
  BY DEF SaveRows
<1>2. l \in Lanes BY LanesInUse
<1>3. Started /\ Started' BY <1>1 DEF Started
<1>4. breaker[l].cooling BY <1>3 DEF Cools
<1>5. Cools(l)' BY <1>1, <1>3, <1>4 DEF Cools, laneVars
<1>6. row'[LaneId(l)] = breaker[l]
  <2>1. LaneId(l) \in Lanes \X Proxies /\ LaneId(l)[1] = l
    BY <1>2 DEF LaneId, TypeOK
  <2> QED BY <1>1, <2>1
<1> QED BY <1>1, <1>4, <1>5, <1>6 DEF Spared, laneVars

LEMMA AcquireSpares ==
  ASSUME EepInv, NEW c \in Calls, AcquireLane(c),
         NEW l \in InUse, Cools(l), lock[l] = NoCall
  PROVE  Spared(l)
<1> USE DEF EepInv
<1>1. PICK m \in InUse : Turns(m) /\ lock' = [lock EXCEPT ![m] = c]
  BY DEF AcquireLane
<1>2. /\ pc[c] = "acquire"
      /\ UNCHANGED <<network, breaker, proxy, loaded, row>>
  BY DEF AcquireLane
<1>3. l \in Lanes BY LanesInUse
<1>4. loaded BY <1>2 DEF CallsPlaced, Placed
<1>5. Started /\ Started' BY <1>2, <1>4 DEF Started
<1>6. breaker[l].cooling /\ breaker[l].state = "open"
  BY <1>3, <1>5 DEF Cools, Resting, Sound
<1>7. m # l BY <1>1, <1>6, TurnIsUsable DEF Usable, Available
<1>8. lock'[l] = NoCall BY <1>1, <1>3, <1>7 DEF TypeOK
<1>9. Cools(l)' BY <1>2, <1>3, <1>5, CoolsOn
<1> QED BY <1>2, <1>8, <1>9 DEF Spared

\* Succeed, Block, Lose, ProviderLost and Save: the steps of another lane.
LEMMA OtherLaneSpares ==
  ASSUME EepInv, NEW c \in Calls,
         Succeed(c) \/ Block(c) \/ Lose(c) \/ ProviderLost(c) \/ Save(c),
         NEW l \in InUse, Cools(l), lock[l] = NoCall
  PROVE  Spared(l)
<1> USE DEF EepInv
<1>1. OnObject(c) /\ pc[c] # "persist"
  BY DEF Succeed, Block, Lose, ProviderLost, Save, OnLane, OnObject,
         CallsPlaced, Placed
<1>2. Held(c) \in Lanes /\ lock[Held(c)] = c /\ l \in Lanes
  BY <1>1, LanesInUse DEF CallsPlaced, Placed
<1>3. Held(c) # l BY <1>2, EepAssumption
<1>4. /\ UNCHANGED <<network, proxy, loaded>>
      /\ \/ breaker' = breaker
         \/ \E b : breaker' = [breaker EXCEPT ![Held(c)] = b]
      /\ \/ row' = row
         \/ row' = [row EXCEPT ![LaneId(Held(c))] = breaker[Held(c)]]
      /\ lock' = lock \/ Release(c)
  BY DEF Succeed, Block, Lose, ProviderLost, Answered, Save
<1>5. breaker'[l] = breaker[l] BY <1>2, <1>3, <1>4 DEF TypeOK
<1>6. row'[LaneId(l)] = row[LaneId(l)]
  <2>1. /\ LaneId(l) \in Lanes \X Proxies
        /\ LaneId(l) # LaneId(Held(c))
    BY <1>2, <1>3 DEF LaneId, TypeOK
  <2> QED BY <1>4, <2>1 DEF TypeOK
<1>7. lock'[l] = NoCall BY <1>2, <1>4 DEF Release
<1>8. /\ pc'[c] # "persist" /\ \A d \in Calls \ {c} : pc'[d] = pc[d]
  <2>1. \/ Goes(c, "save") \/ Goes(c, "rotate")
        \/ Return(c) \/ Retry(c)
    BY DEF Succeed, Block, Lose, ProviderLost, Answered, Save
  <2> QED BY <2>1, GoesOn, Returns, Retries DEF PcLabels
<1>9. Started' <=> Started BY <1>1, <1>4, <1>8, StartsOn
<1>10. Cools(l)' BY <1>2, <1>4, <1>5, <1>6, <1>9, CoolsOn
<1> QED BY <1>6, <1>7, <1>10 DEF Spared

\* Raise, ProviderRefuses and SaveFails.
LEMMA FailedReturnSpares ==
  ASSUME EepInv, NEW c \in Calls,
         Raise(c) \/ ProviderRefuses(c) \/ SaveFails(c),
         NEW l \in InUse, Cools(l), lock[l] = NoCall
  PROVE  Spared(l)
<1> USE DEF EepInv
<1>1. /\ Release(c) /\ Return(c)
      /\ UNCHANGED <<network, breaker, proxy, loaded, row>>
  BY DEF Raise, ProviderRefuses, SaveFails
<1>2. l \in Lanes BY LanesInUse
<1>3. lock'[l] = NoCall BY <1>1, <1>2 DEF Release
<1>4. Started' => Started BY <1>1, Returns DEF Started
<1>5. Cools(l)' \/ (Started /\ ~Started')
  BY <1>1, <1>2, <1>4, CoolsOn
<1> QED BY <1>1, <1>3, <1>5 DEF Spared

\* RotateInPool, ProviderRotates, AskProvider, CloseOld and SaveReplacement.
LEMMA RotationSpares ==
  ASSUME EepInv, NEW c \in Calls,
         \/ RotateInPool(c) \/ ProviderRotates(c)
         \/ AskProvider(c) \/ CloseOld(c) \/ SaveReplacement(c),
         NEW l \in InUse, Cools(l), lock[l] = NoCall
  PROVE  Spared(l)
<1> USE DEF EepInv
<1>1. /\ pc[c] \in {"rotate", "ask", "close", "keep"}
      /\ UNCHANGED <<network, loaded>>
  BY DEF RotateInPool, ProviderRotates, AskProvider, CloseOld, SaveReplacement,
         laneVars
<1>2. l \in Lanes BY LanesInUse
<1>3. Rotates /\ loaded /\ network # "proxy"
  BY <1>1 DEF CallsPlaced, Placed, Rotates
<1>4. \/ UNCHANGED <<breaker, proxy>> /\ (lock' = lock \/ Release(c))
      \/ pc[c] \in {"rotate", "ask"} /\ \E url : Install(c, Held(c), url)
  BY DEF RotateInPool, ProviderRotates, AskProvider, CloseOld, SaveReplacement,
         laneVars
<1>5. ASSUME pc[c] \in {"rotate", "ask"}, NEW url, Install(c, Held(c), url)
      PROVE  /\ breaker'[l] = breaker[l] /\ proxy'[l] = proxy[l]
             /\ lock'[l] = NoCall
  <2>1. lock[Held(c)] = c
    BY <1>3, <1>5 DEF CallsPlaced, Placed, OnObject
  <2>2. Held(c) # l BY <2>1, EepAssumption
  <2> QED BY <1>2, <1>5, <2>2 DEF Install, TypeOK
<1>6. /\ breaker'[l] = breaker[l] /\ proxy'[l] = proxy[l]
      /\ lock'[l] = NoCall
  BY <1>2, <1>4, <1>5 DEF Release
<1>7. Started /\ Started' BY <1>1, <1>3 DEF Started
<1>8. Cools(l)' BY <1>2, <1>3, <1>6, <1>7, CoolsOn
<1> QED BY <1>3, <1>6, <1>8 DEF Spared

\* Begin, RefuseAll, Curl, DirectEnds and DirectFails.
LEMMA OffLanesSpares ==
  ASSUME EepInv, NEW c \in Calls,
         \/ Begin(c) \/ RefuseAll(c) \/ Curl(c)
         \/ DirectEnds(c) \/ DirectFails(c),
         NEW l \in InUse, Cools(l), lock[l] = NoCall
  PROVE  Spared(l)
<1> USE DEF EepInv
<1>1. pc[c] # "persist" /\ UNCHANGED <<network, laneVars, loaded, row>>
  BY DEF Begin, RefuseAll, Curl, DirectEnds, DirectFails, OnDirect
<1>2. l \in Lanes BY LanesInUse
<1>3. pc'[c] # "persist" /\ \A d \in Calls \ {c} : pc'[d] = pc[d]
  <2>1. \/ Return(c) \/ Goes(c, "sent") \/ Goes(c, "load") \/ Goes(c, "curl")
    BY DEF Begin, RefuseAll, Curl, DirectEnds, DirectFails
  <2> QED BY <2>1, GoesOn, Returns DEF PcLabels
<1>4. Started' <=> Started BY <1>1, <1>3, StartsOn
<1>5. Cools(l)' BY <1>1, <1>2, <1>4, CoolsOn DEF laneVars
<1> QED BY <1>1, <1>5 DEF Spared, laneVars

\* What is not started is as __init__ left it, so that after a kill a lane reads
\* the row it would have read before.
LEMMA KillSpares ==
  ASSUME EepInv, Kill, NEW l \in InUse, Cools(l), lock[l] = NoCall
  PROVE  Spared(l)
<1>1. l \in Lanes BY LanesInUse
<1>2. lock'[l] = NoCall /\ row' = row BY <1>1 DEF Kill
<1>3. ~Started' BY DEF Kill, Started
<1>4. CASE ~Started
  <2>1. proxy'[l] = proxy[l]
    BY <1>1, <1>4 DEF Kill, Started, EepInv, Resting
  <2>2. LaneId(l)' = LaneId(l) BY <2>1 DEF LaneId
  <2>3. Cools(l)' BY <1>2, <1>3, <1>4, <2>2 DEF Cools
  <2> QED BY <1>2, <2>3 DEF Spared
<1> QED BY <1>2, <1>3, <1>4 DEF Spared

\* A client that starts takes over the stored cooldowns of its lanes; from then
\* on none of them is acquired and none dropped but by time, in every
\* configuration and whatever other clients save; with one proxy the client
\* keeps the row too.
THEOREM CooldownsOutlive == Spec => CooldownOutlivesRestart
<1>1. ASSUME EepInv, Next, NEW l \in InUse, Cools(l), lock[l] = NoCall
      PROVE  Spared(l) \/ UNCHANGED <<loaded, callVars>>
  <2>1. ASSUME NEW c \in Calls, Begin(c) \/ Proceed(c)
        PROVE  Spared(l)
    BY <1>1, <2>1, LoadRowsSpares, SaveRowsSpares, AcquireSpares,
       OtherLaneSpares, FailedReturnSpares, RotationSpares, OffLanesSpares
    DEF Proceed, Answer
  <2>2. CASE Kill BY <1>1, <2>2, KillSpares
  <2>3. CASE \/ \E m \in Lanes : CoolLane(m)
             \/ \E i \in Lanes \X Proxies : CoolRow(i) \/ OtherSaves(i)
             \/ \E p \in Proxies : CoolProxy(p)
    BY <2>3 DEF CoolLane, CoolRow, OtherSaves, CoolProxy
  <2> QED BY <1>1, <2>1, <2>2, <2>3 DEF Next
<1> DEFINE Outlives ==
      \A l \in InUse : Cools(l) /\ lock[l] = NoCall =>
        \/ UNCHANGED <<loaded, callVars>>
        \/ /\ lock'[l] = NoCall
           /\ Cools(l)' \/ (Started /\ ~Started')
           /\ network = "proxy" /\ row[LaneId(l)].cooling =>
                row'[LaneId(l)].cooling
<1>2. EepInv /\ [Next]_vars => [Outlives]_vars
  BY <1>1 DEF Spared
<1> QED BY <1>2, EepInvariant, PTL DEF Spec, CooldownOutlivesRestart

-----------------------------------------------------------------------------
\* CaptchaSolvers.

Stages == {"idle", "queued", "polling", "checking", "asked", "solved",
           "failed", "lost", "manual", "prompted"}

\* Between the two locks of the solver.
InSolver(c) ==
  stage[c] \in {"polling", "checking", "asked", "solved", "failed", "lost"}

\* A solution that is being bought, or was bought and is not recorded yet.
Buys(c) == stage[c] \in {"asked", "solved"}

\* A challenge that is being solved holds the lock of its lane, and one in the
\* solver the lock of its process.
LocksHeld ==
  \A c \in Challenges :
    /\ Solving(c) => laneLock[LaneOf[c]] = c
    /\ InSolver(c) => solveLock[ProcessOf[c]] = c

LocksInv == CaptchaTypeOK /\ LocksHeld

LEMMA Domains ==
  ASSUME NEW c \in Challenges
  PROVE  /\ LaneOf[c] \in SessionLanes /\ ProcessOf[c] \in Processes
         /\ c # NoChallenge
BY CaptchaAssumption DEF SessionLanes, Processes

LEMMA CaptchaSpendType ==
  ASSUME CaptchaTypeOK, NEW kind \in CaptchaEvents, CaptchaSpend(kind)
  PROVE  captchaBudget' \in [CaptchaEvents -> Nat]
BY SMT DEF CaptchaTypeOK, CaptchaSpend

\* A step of one challenge leaves the stages and the locks of the others alone,
\* and frees locks or takes one that was free.
LEMMA LeavesStep ==
  ASSUME LocksInv, NEW c \in Challenges, NEW s \in {"idle", "manual"},
         Leaves(c, s)
  PROVE  /\ stage' \in [Challenges -> Stages] /\ tries' \in [Challenges -> Nat]
         /\ solveLock' \in [Processes -> Challenges \cup {NoChallenge}]
         /\ laneLock' \in [SessionLanes -> Challenges \cup {NoChallenge}]
         /\ LocksHeld'
<1> USE DEF LocksInv, CaptchaTypeOK, Leaves, Enters, Freed
<1>1. stage' \in [Challenges -> Stages] /\ tries' \in [Challenges -> Nat]
  BY DEF Stages
<1>2. /\ solveLock' \in [Processes -> Challenges \cup {NoChallenge}]
      /\ laneLock' \in [SessionLanes -> Challenges \cup {NoChallenge}]
  OBVIOUS
<1>3. ASSUME NEW d \in Challenges
      PROVE  /\ (Solving(d) => laneLock[LaneOf[d]] = d)'
             /\ (InSolver(d) => solveLock[ProcessOf[d]] = d)'
  <2>1. CASE d = c BY <2>1 DEF Solving, InSolver
  <2>2. CASE d # c
    <3>1. stage'[d] = stage[d] BY <2>2
    <3>2. laneLock[LaneOf[d]] = d => laneLock'[LaneOf[d]] = d
      BY <2>2, Domains
    <3>3. solveLock[ProcessOf[d]] = d => solveLock'[ProcessOf[d]] = d
      BY <2>2, Domains
    <3> QED BY <3>1, <3>2, <3>3 DEF LocksHeld, Solving, InSolver
  <2> QED BY <2>1, <2>2
<1> QED BY <1>1, <1>2, <1>3 DEF LocksHeld

\* A step that leaves the locks alone keeps them held when the challenge goes no
\* further than they allow.
LEMMA EntersStep ==
  ASSUME LocksInv, NEW c \in Challenges, NEW s \in Stages, Enters(c, s),
         UNCHANGED <<solveLock, laneLock>>,
         s \in {"checking", "asked", "solved", "failed", "lost", "prompted"}
           => Solving(c),
         s \in {"polling", "checking", "asked", "solved", "failed", "lost"}
           => InSolver(c)
  PROVE  stage' \in [Challenges -> Stages] /\ LocksHeld'
<1> USE DEF LocksInv, CaptchaTypeOK, Enters
<1>1. stage' \in [Challenges -> Stages] BY DEF Stages
<1>2. \A d \in Challenges : d # c => stage'[d] = stage[d] OBVIOUS
<1>3. stage'[c] = s OBVIOUS
<1>4. Solving(c)' => Solving(c) BY <1>3 DEF Solving
<1>5. InSolver(c)' => InSolver(c) BY <1>3 DEF InSolver
<1> QED BY <1>1, <1>2, <1>4, <1>5 DEF LocksHeld, Solving, InSolver

\* The inductive invariant: a poll takes a lock that is free only, every way out
\* frees the locks of that challenge alone, and a kill those of its process.
THEOREM LocksInvariant == CaptchaSpec => []LocksInv
<1>1. CaptchaInit(CaptchaBudget) => LocksInv
  BY CaptchaAssumption
  DEF CaptchaInit, LocksInv, CaptchaTypeOK, LocksHeld, Solving, InSolver
<1>2. LocksInv /\ [CaptchaNext]_captchaVars => LocksInv'
  <2> SUFFICES ASSUME LocksInv, [CaptchaNext]_captchaVars
               PROVE  LocksInv'
    OBVIOUS
  <2>0. /\ solveLock \in [Processes -> Challenges \cup {NoChallenge}]
        /\ laneLock \in [SessionLanes -> Challenges \cup {NoChallenge}]
        /\ stage \in [Challenges -> Stages]
        /\ tries \in [Challenges -> Nat]
        /\ recorded \in Nat
        /\ captchaBudget \in [CaptchaEvents -> Nat]
    BY DEF LocksInv, CaptchaTypeOK, Stages
  <2>a. ASSUME solveLock' \in [Processes -> Challenges \cup {NoChallenge}],
               laneLock' \in [SessionLanes -> Challenges \cup {NoChallenge}],
               stage' \in [Challenges -> Stages],
               tries' \in [Challenges -> Nat],
               recorded' \in Nat,
               captchaBudget' \in [CaptchaEvents -> Nat],
               LocksHeld'
        PROVE  LocksInv'
    BY <2>a DEF LocksInv, CaptchaTypeOK, Stages
  <2>b. \A kind \in CaptchaEvents :
          CaptchaSpend(kind) => captchaBudget' \in [CaptchaEvents -> Nat]
    BY CaptchaSpendType DEF LocksInv
  <2>1. ASSUME NEW c \in Challenges, Meet(c)
        PROVE  LocksInv'
    BY <2>0, <2>a, <2>b, <2>1, EntersStep DEF Meet, Stages, CaptchaEvents
  <2>2. ASSUME NEW c \in Challenges, EnterSolver(c)
        PROVE  LocksInv'
    <3>1. stage' \in [Challenges -> Stages]
      BY <2>0, <2>2 DEF EnterSolver, Enters, Stages
    <3>2. solveLock' \in [Processes -> Challenges \cup {NoChallenge}]
      BY <2>0, <2>2 DEF EnterSolver
    <3>3. ASSUME NEW d \in Challenges
          PROVE  /\ (Solving(d) => laneLock[LaneOf[d]] = d)'
                 /\ (InSolver(d) => solveLock[ProcessOf[d]] = d)'
      <4>1. CASE d = c
        BY <2>0, <2>2, <4>1, Domains DEF EnterSolver, Enters, Solving, InSolver
      <4>2. CASE d # c
        <5>1. stage'[d] = stage[d] BY <2>0, <2>2, <4>2 DEF EnterSolver, Enters
        <5>2. solveLock[ProcessOf[d]] = d => solveLock'[ProcessOf[d]] = d
          BY <2>0, <2>2, Domains DEF EnterSolver
        <5> QED
          BY <2>2, <5>1, <5>2
          DEF EnterSolver, LocksInv, LocksHeld, Solving, InSolver
      <4> QED BY <4>1, <4>2
    <3> QED BY <2>0, <2>a, <2>2, <3>1, <3>2, <3>3 DEF EnterSolver, LocksHeld
  <2>3. ASSUME NEW c \in Challenges, LockLane(c)
        PROVE  LocksInv'
    <3>1. stage' \in [Challenges -> Stages]
      BY <2>0, <2>3 DEF LockLane, Enters, Stages
    <3>2. laneLock' \in [SessionLanes -> Challenges \cup {NoChallenge}]
      BY <2>0, <2>3 DEF LockLane
    <3>3. ASSUME NEW d \in Challenges
          PROVE  /\ (Solving(d) => laneLock[LaneOf[d]] = d)'
                 /\ (InSolver(d) => solveLock[ProcessOf[d]] = d)'
      <4>1. CASE d = c
        <5>1. laneLock'[LaneOf[c]] = c BY <2>0, <2>3, Domains DEF LockLane
        <5>2. InSolver(c)' => InSolver(c)
          BY <2>0, <2>3 DEF LockLane, Enters, InSolver
        <5> QED
          BY <2>3, <4>1, <5>1, <5>2 DEF LockLane, LocksInv, LocksHeld
      <4>2. CASE d # c
        <5>1. stage'[d] = stage[d] BY <2>0, <2>3, <4>2 DEF LockLane, Enters
        <5>2. laneLock[LaneOf[d]] = d => laneLock'[LaneOf[d]] = d
          BY <2>0, <2>3, Domains DEF LockLane, Grants
        <5> QED
          BY <2>3, <5>1, <5>2
          DEF LockLane, LocksInv, LocksHeld, Solving, InSolver
      <4> QED BY <4>1, <4>2
    <3> QED BY <2>0, <2>a, <2>3, <3>1, <3>2, <3>3 DEF LockLane, LocksHeld
  <2>4. ASSUME NEW c \in Challenges, CheckBudget(c)
        PROVE  LocksInv'
    <3>1. CASE Exhausted
      <4>1. PICK s \in {"idle", "manual"} : Leaves(c, s)
        BY <2>4, <3>1 DEF CheckBudget, FallsBack
      <4> QED BY <2>0, <2>a, <2>4, <4>1, LeavesStep DEF CheckBudget
    <3>2. CASE ~Exhausted
      BY <2>0, <2>a, <2>4, <3>2, EntersStep
      DEF CheckBudget, Stages, Solving, InSolver
    <3> QED BY <3>1, <3>2
  <2>5. ASSUME NEW c \in Challenges, Solve(c)
        PROVE  LocksInv'
    BY <2>0, <2>a, <2>5, EntersStep DEF Solve, Stages, Solving, InSolver
  <2>6. ASSUME NEW c \in Challenges, SolveFails(c)
        PROVE  LocksInv'
    <3>1. captchaBudget' \in [CaptchaEvents -> Nat]
      BY <2>b, <2>6 DEF SolveFails, CaptchaEvents
    <3> QED
      BY <2>0, <2>a, <2>6, <3>1, EntersStep
      DEF SolveFails, Stages, Solving, InSolver
  <2>7. ASSUME NEW c \in Challenges, SolveRaises(c)
        PROVE  LocksInv'
    <3>1. captchaBudget' \in [CaptchaEvents -> Nat]
      BY <2>b, <2>7 DEF SolveRaises, CaptchaEvents
    <3> QED BY <2>0, <2>a, <2>7, <3>1, LeavesStep DEF SolveRaises
  <2>8. ASSUME NEW c \in Challenges, RecordSuccess(c)
        PROVE  LocksInv'
    <3>1. recorded' \in Nat BY <2>0, <2>8 DEF RecordSuccess
    <3> QED BY <2>0, <2>a, <2>8, <3>1, LeavesStep DEF RecordSuccess
  <2>9. ASSUME NEW c \in Challenges, RecordError(c)
        PROVE  LocksInv'
    <3>1. CASE tries[c] + 1 < MaxTries
      <4>1. tries' \in [Challenges -> Nat]
        BY <2>0, <2>9, <3>1 DEF RecordError
      <4> QED
        BY <2>0, <2>a, <2>9, <3>1, <4>1, EntersStep
        DEF RecordError, Stages, Solving, InSolver
    <3>2. CASE ~(tries[c] + 1 < MaxTries)
      <4>1. PICK s \in {"idle", "manual"} : Leaves(c, s)
        BY <2>9, <3>2 DEF RecordError, FallsBack
      <4> QED BY <2>0, <2>a, <2>9, <4>1, LeavesStep DEF RecordError
    <3> QED BY <3>1, <3>2
  <2>10. ASSUME NEW c \in Challenges, RecordFails(c)
         PROVE  LocksInv'
    <3>1. captchaBudget' \in [CaptchaEvents -> Nat]
      BY <2>b, <2>10 DEF RecordFails, CaptchaEvents
    <3> QED BY <2>0, <2>a, <2>10, <3>1, LeavesStep DEF RecordFails
  <2>11. ASSUME NEW c \in Challenges, AnswerPrompt(c)
         PROVE  LocksInv'
    BY <2>0, <2>a, <2>11, LeavesStep DEF AnswerPrompt
  <2>12. ASSUME NEW p \in Processes, KillSolver(p)
         PROVE  LocksInv'
    <3> DEFINE gone == {c \in Challenges : ProcessOf[c] = p}
    <3>1. /\ stage' = [c \in Challenges |->
                         IF c \in gone THEN "idle" ELSE stage[c]]
          /\ tries' = [c \in Challenges |-> IF c \in gone THEN 0 ELSE tries[c]]
          /\ laneLock' = [l \in SessionLanes |->
                            IF laneLock[l] \in gone THEN NoChallenge
                            ELSE laneLock[l]]
          /\ solveLock' = [solveLock EXCEPT ![p] = NoChallenge]
          /\ recorded' = recorded
      BY <2>12 DEF KillSolver
    <3>2. captchaBudget' \in [CaptchaEvents -> Nat]
      BY <2>b, <2>12 DEF KillSolver, CaptchaEvents
    <3>3. /\ stage' \in [Challenges -> Stages]
          /\ tries' \in [Challenges -> Nat]
          /\ laneLock' \in [SessionLanes -> Challenges \cup {NoChallenge}]
          /\ solveLock' \in [Processes -> Challenges \cup {NoChallenge}]
      BY <2>0, <3>1 DEF Stages
    <3>4. ASSUME NEW d \in Challenges
          PROVE  /\ (Solving(d) => laneLock[LaneOf[d]] = d)'
                 /\ (InSolver(d) => solveLock[ProcessOf[d]] = d)'
      <4>1. CASE d \in gone BY <3>1, <4>1 DEF Solving, InSolver
      <4>2. CASE d \notin gone
        <5>1. stage'[d] = stage[d] BY <3>1, <4>2
        <5>2. laneLock[LaneOf[d]] = d => laneLock'[LaneOf[d]] = d
          BY <3>1, <4>2, Domains
        <5>3. solveLock'[ProcessOf[d]] = solveLock[ProcessOf[d]]
          BY <2>0, <3>1, <4>2, Domains
        <5> QED
          BY <5>1, <5>2, <5>3 DEF LocksInv, LocksHeld, Solving, InSolver
      <4> QED BY <4>1, <4>2
    <3> HIDE DEF gone
    <3> QED BY <2>0, <2>a, <3>1, <3>2, <3>3, <3>4 DEF LocksHeld
  <2>13. CASE UNCHANGED captchaVars
    BY <2>13
    DEF captchaVars, LocksInv, CaptchaTypeOK, LocksHeld, Solving, InSolver
  <2> QED
    BY <2>1, <2>2, <2>3, <2>4, <2>5, <2>6, <2>7, <2>8, <2>9, <2>10, <2>11,
       <2>12, <2>13
    DEF CaptchaNext, CaptchaStep
<1> QED BY <1>1, <1>2, PTL DEF CaptchaSpec

\* However many browsers use a lane, from however many processes, one of them
\* solves its challenge at a time.
THEOREM SolvedAlone == CaptchaSpec => []CaptchaSolvedAlone
<1>1. LocksInv => CaptchaSolvedAlone
  BY DEF LocksInv, LocksHeld, CaptchaSolvedAlone
<1> QED BY <1>1, LocksInvariant, PTL

-----------------------------------------------------------------------------

\* The lock of a process is held by a challenge of that process that is in its
\* solver, the lock of a lane by a challenge of that lane that is being solved,
\* and neither by anybody else: none is left behind by what failed or was
\* killed.  Who waits for a process therefore waits for one that waits for a
\* lane at most, and who waits for a lane for one that waits for nobody.
LocksUsed ==
  /\ \A p \in Processes :
       solveLock[p] # NoChallenge =>
         InSolver(solveLock[p]) /\ ProcessOf[solveLock[p]] = p
  /\ \A l \in SessionLanes :
       laneLock[l] # NoChallenge =>
         Solving(laneLock[l]) /\ LaneOf[laneLock[l]] = l

\* Nobody takes a lock, and who had one is where it was or has freed it.
LEMMA NoLockTaken ==
  ASSUME LocksUsed,
         \A p \in Processes :
           \/ solveLock'[p] = NoChallenge
           \/ /\ solveLock'[p] = solveLock[p]
              /\ InSolver(solveLock[p]) => InSolver(solveLock[p])',
         \A l \in SessionLanes :
           \/ laneLock'[l] = NoChallenge
           \/ /\ laneLock'[l] = laneLock[l]
              /\ Solving(laneLock[l]) => Solving(laneLock[l])'
  PROVE  LocksUsed'
<1>1. ASSUME NEW p \in Processes, solveLock'[p] # NoChallenge
      PROVE  InSolver(solveLock[p])' /\ ProcessOf[solveLock'[p]] = p
  <2>1. /\ solveLock'[p] = solveLock[p]
        /\ InSolver(solveLock[p]) => InSolver(solveLock[p])'
    BY <1>1
  <2>2. InSolver(solveLock[p]) /\ ProcessOf[solveLock[p]] = p
    BY <1>1, <2>1 DEF LocksUsed
  <2> QED BY <2>1, <2>2
<1>2. ASSUME NEW l \in SessionLanes, laneLock'[l] # NoChallenge
      PROVE  Solving(laneLock[l])' /\ LaneOf[laneLock'[l]] = l
  <2>1. /\ laneLock'[l] = laneLock[l]
        /\ Solving(laneLock[l]) => Solving(laneLock[l])'
    BY <1>2
  <2>2. Solving(laneLock[l]) /\ LaneOf[laneLock[l]] = l
    BY <1>2, <2>1 DEF LocksUsed
  <2> QED BY <2>1, <2>2
<1> QED BY <1>1, <1>2 DEF LocksUsed

\* A challenge leaves the solver: its locks are free, those of others as before.
LEMMA LeavesUnlocks ==
  ASSUME LocksInv, LocksUsed, NEW c \in Challenges, NEW s, Leaves(c, s)
  PROVE  LocksUsed'
<1> USE DEF LocksInv, CaptchaTypeOK, Leaves, Enters, Freed
<1>1. \A d \in Challenges : d # c => stage'[d] = stage[d] OBVIOUS
<1>2. \A p \in Processes :
        \/ solveLock'[p] = NoChallenge
        \/ /\ solveLock'[p] = solveLock[p] /\ solveLock[p] # c
           /\ solveLock[p] \in Challenges
  OBVIOUS
<1>3. \A l \in SessionLanes :
        \/ laneLock'[l] = NoChallenge
        \/ /\ laneLock'[l] = laneLock[l] /\ laneLock[l] # c
           /\ laneLock[l] \in Challenges
  OBVIOUS
<1>4. \A p \in Processes :
        \/ solveLock'[p] = NoChallenge
        \/ /\ solveLock'[p] = solveLock[p]
           /\ InSolver(solveLock[p]) => InSolver(solveLock[p])'
  BY <1>1, <1>2 DEF InSolver
<1>5. \A l \in SessionLanes :
        \/ laneLock'[l] = NoChallenge
        \/ /\ laneLock'[l] = laneLock[l]
           /\ Solving(laneLock[l]) => Solving(laneLock[l])'
  BY <1>1, <1>3 DEF Solving
<1> QED BY <1>4, <1>5, NoLockTaken

\* A challenge goes on under the locks it holds.
LEMMA EntersUnderLocks ==
  ASSUME LocksInv, LocksUsed, NEW c \in Challenges, NEW s, Enters(c, s),
         UNCHANGED <<solveLock, laneLock>>,
         InSolver(c) =>
           s \in {"polling", "checking", "asked", "solved", "failed", "lost"},
         Solving(c) =>
           s \in {"checking", "asked", "solved", "failed", "lost", "prompted"}
  PROVE  LocksUsed'
<1>1. /\ stage'[c] = s
      /\ \A d : d \in Challenges /\ d # c => stage'[d] = stage[d]
  BY DEF LocksInv, CaptchaTypeOK, Enters
<1>2. /\ \A d \in Challenges : InSolver(d) => InSolver(d)'
      /\ \A d \in Challenges : Solving(d) => Solving(d)'
  BY <1>1 DEF InSolver, Solving
<1>3. \A p \in Processes :
        solveLock[p] = NoChallenge \/ solveLock[p] \in Challenges
  BY DEF LocksInv, CaptchaTypeOK
<1>4. \A l \in SessionLanes :
        laneLock[l] = NoChallenge \/ laneLock[l] \in Challenges
  BY DEF LocksInv, CaptchaTypeOK
<1>5. \A p \in Processes :
        \/ solveLock'[p] = NoChallenge
        \/ /\ solveLock'[p] = solveLock[p]
           /\ InSolver(solveLock[p]) => InSolver(solveLock[p])'
  BY <1>1, <1>3 DEF InSolver
<1>6. \A l \in SessionLanes :
        \/ laneLock'[l] = NoChallenge
        \/ /\ laneLock'[l] = laneLock[l]
           /\ Solving(laneLock[l]) => Solving(laneLock[l])'
  BY <1>1, <1>4 DEF Solving
<1> QED BY <1>5, <1>6, NoLockTaken

LEMMA UsedStep ==
  LocksInv /\ LocksUsed /\ [CaptchaNext]_captchaVars => LocksUsed'
<1> SUFFICES ASSUME LocksInv, LocksUsed, [CaptchaNext]_captchaVars
             PROVE  LocksUsed'
  OBVIOUS
<1>0. /\ solveLock \in [Processes -> Challenges \cup {NoChallenge}]
      /\ laneLock \in [SessionLanes -> Challenges \cup {NoChallenge}]
      /\ stage \in [Challenges -> Stages]
  BY DEF LocksInv, CaptchaTypeOK, Stages
<1>1. ASSUME NEW c \in Challenges,
             \/ SolveRaises(c) \/ RecordSuccess(c) \/ RecordFails(c)
             \/ AnswerPrompt(c)
             \/ CheckBudget(c) /\ Exhausted
             \/ RecordError(c) /\ ~(tries[c] + 1 < MaxTries)
      PROVE  LocksUsed'
  <2>1. PICK s : Leaves(c, s)
    BY <1>1
    DEF SolveRaises, RecordSuccess, RecordFails, AnswerPrompt, CheckBudget,
        RecordError, FallsBack
  <2> QED BY <2>1, LeavesUnlocks
<1>2. ASSUME NEW c \in Challenges,
             \/ Meet(c) \/ Solve(c) \/ SolveFails(c)
             \/ CheckBudget(c) /\ ~Exhausted
             \/ RecordError(c) /\ tries[c] + 1 < MaxTries
      PROVE  LocksUsed'
  <2>1. PICK s : /\ Enters(c, s) /\ UNCHANGED <<solveLock, laneLock>>
                 /\ InSolver(c) => s \in {"polling", "checking", "asked",
                                          "solved", "failed", "lost"}
                 /\ Solving(c) => s \in {"checking", "asked", "solved",
                                         "failed", "lost", "prompted"}
    BY <1>2
    DEF Meet, Solve, SolveFails, CheckBudget, RecordError, InSolver, Solving
  <2> QED BY <2>1, EntersUnderLocks
<1>3. ASSUME NEW c \in Challenges, EnterSolver(c)
      PROVE  LocksUsed'
  <2>1. /\ stage[c] = "queued" /\ stage' = [stage EXCEPT ![c] = "polling"]
        /\ solveLock' = [solveLock EXCEPT ![ProcessOf[c]] = c]
        /\ laneLock' = laneLock
    BY <1>3 DEF EnterSolver, Enters
  <2>2. /\ \A d \in Challenges : InSolver(d) => InSolver(d)'
        /\ \A d \in Challenges : Solving(d) => Solving(d)'
        /\ InSolver(c)'
    BY <1>0, <2>1 DEF InSolver, Solving
  <2>3. ASSUME NEW p \in Processes, solveLock'[p] # NoChallenge
        PROVE  InSolver(solveLock[p])' /\ ProcessOf[solveLock'[p]] = p
    <3>1. CASE p = ProcessOf[c]
      <4>1. solveLock'[p] = c BY <1>0, <2>1, <3>1
      <4> QED BY <2>2, <3>1, <4>1 DEF InSolver
    <3>2. CASE p # ProcessOf[c]
      <4>1. solveLock'[p] = solveLock[p] /\ solveLock[p] \in Challenges
        BY <1>0, <2>1, <2>3, <3>2
      <4>2. InSolver(solveLock[p]) /\ ProcessOf[solveLock[p]] = p
        BY <2>3, <4>1 DEF LocksUsed
      <4> QED BY <2>2, <4>1, <4>2 DEF InSolver
    <3> QED BY <3>1, <3>2
  <2>4. ASSUME NEW l \in SessionLanes, laneLock'[l] # NoChallenge
        PROVE  Solving(laneLock[l])' /\ LaneOf[laneLock'[l]] = l
    <3>1. laneLock[l] \in Challenges BY <1>0, <2>1, <2>4
    <3>2. Solving(laneLock[l]) /\ LaneOf[laneLock[l]] = l
      BY <2>1, <2>4 DEF LocksUsed
    <3> QED BY <2>1, <2>2, <3>1, <3>2 DEF Solving
  <2> QED BY <2>3, <2>4 DEF LocksUsed
<1>4. ASSUME NEW c \in Challenges, LockLane(c)
      PROVE  LocksUsed'
  <2>1. /\ laneLock' = [laneLock EXCEPT ![LaneOf[c]] = c]
        /\ solveLock' = solveLock
        /\ \/ /\ stage[c] = "polling"
              /\ stage' = [stage EXCEPT ![c] = "checking"]
           \/ /\ stage[c] = "manual"
              /\ stage' = [stage EXCEPT ![c] = "prompted"]
    BY <1>4 DEF LockLane, Enters
  <2>2. /\ \A d \in Challenges : InSolver(d) => InSolver(d)'
        /\ \A d \in Challenges : Solving(d) => Solving(d)'
        /\ Solving(c)'
    BY <1>0, <2>1 DEF InSolver, Solving
  <2>3. ASSUME NEW p \in Processes, solveLock'[p] # NoChallenge
        PROVE  InSolver(solveLock[p])' /\ ProcessOf[solveLock'[p]] = p
    <3>1. solveLock[p] \in Challenges BY <1>0, <2>1, <2>3
    <3>2. InSolver(solveLock[p]) /\ ProcessOf[solveLock[p]] = p
      BY <2>1, <2>3 DEF LocksUsed
    <3> QED BY <2>1, <2>2, <3>1, <3>2 DEF InSolver
  <2>4. ASSUME NEW l \in SessionLanes, laneLock'[l] # NoChallenge
        PROVE  Solving(laneLock[l])' /\ LaneOf[laneLock'[l]] = l
    <3>1. CASE l = LaneOf[c]
      <4>1. laneLock'[l] = c BY <1>0, <2>1, <3>1
      <4> QED BY <2>2, <3>1, <4>1 DEF Solving
    <3>2. CASE l # LaneOf[c]
      <4>1. laneLock'[l] = laneLock[l] /\ laneLock[l] \in Challenges
        BY <1>0, <2>1, <2>4, <3>2
      <4>2. Solving(laneLock[l]) /\ LaneOf[laneLock[l]] = l
        BY <2>4, <4>1 DEF LocksUsed
      <4> QED BY <2>2, <4>1, <4>2 DEF Solving
    <3> QED BY <3>1, <3>2
  <2> QED BY <2>3, <2>4 DEF LocksUsed
<1>5. ASSUME NEW p \in Processes, KillSolver(p)
      PROVE  LocksUsed'
  <2> DEFINE gone == {c \in Challenges : ProcessOf[c] = p}
  <2>1. /\ stage' = [c \in Challenges |->
                       IF c \in gone THEN "idle" ELSE stage[c]]
        /\ laneLock' = [l \in SessionLanes |->
                          IF laneLock[l] \in gone THEN NoChallenge
                          ELSE laneLock[l]]
        /\ solveLock' = [solveLock EXCEPT ![p] = NoChallenge]
    BY <1>5 DEF KillSolver
  <2>2. \A d \in Challenges : d \notin gone => stage'[d] = stage[d] BY <2>1
  <2>3. ASSUME NEW q \in Processes, solveLock'[q] # NoChallenge
        PROVE  InSolver(solveLock[q])' /\ ProcessOf[solveLock'[q]] = q
    <3>1. q # p /\ solveLock'[q] = solveLock[q] /\ solveLock[q] \in Challenges
      BY <1>0, <2>1, <2>3
    <3>2. InSolver(solveLock[q]) /\ ProcessOf[solveLock[q]] = q
      BY <2>3, <3>1 DEF LocksUsed
    <3>3. stage'[solveLock[q]] = stage[solveLock[q]] BY <2>2, <3>1, <3>2
    <3> QED BY <3>1, <3>2, <3>3 DEF InSolver
  <2>4. ASSUME NEW l \in SessionLanes, laneLock'[l] # NoChallenge
        PROVE  Solving(laneLock[l])' /\ LaneOf[laneLock'[l]] = l
    <3>1. /\ laneLock'[l] = laneLock[l] /\ laneLock[l] \in Challenges
          /\ laneLock[l] \notin gone
      BY <1>0, <2>1, <2>4
    <3>2. Solving(laneLock[l]) /\ LaneOf[laneLock[l]] = l
      BY <2>4, <3>1 DEF LocksUsed
    <3>3. stage'[laneLock[l]] = stage[laneLock[l]] BY <2>2, <3>1
    <3> QED BY <3>1, <3>2, <3>3 DEF Solving
  <2> QED BY <2>3, <2>4 DEF LocksUsed
<1>6. CASE UNCHANGED captchaVars
  BY <1>6 DEF captchaVars, LocksUsed, InSolver, Solving
<1>7. ASSUME NEW c \in Challenges, Meet(c) \/ CaptchaStep(c)
      PROVE  LocksUsed'
  BY <1>1, <1>2, <1>3, <1>4, <1>7 DEF CaptchaStep
<1> QED BY <1>5, <1>6, <1>7 DEF CaptchaNext

\* Whatever fails, falls back to a person or is killed, no lock of a process or
\* of a lane outlives the challenge it was taken for.
THEOREM NoLockIsLeft == CaptchaSpec => []LocksUsed
<1>1. CaptchaInit(CaptchaBudget) => LocksUsed
  BY DEF CaptchaInit, LocksUsed
<1> QED BY <1>1, UsedStep, LocksInvariant, PTL DEF CaptchaSpec

-----------------------------------------------------------------------------

\* The processes of which a solver is buying a solution.
Buying == {p \in Processes : \E c \in Challenges : ProcessOf[c] = p /\ Buys(c)}

SpendInv ==
  recorded + Cardinality(Buying) <= SpendLimit - 1 + Cardinality(Processes)

LEMMA BuyingCounts ==
  /\ IsFiniteSet(Processes) /\ Cardinality(Processes) \in Nat
  /\ IsFiniteSet(Buying) /\ Cardinality(Buying) \in Nat
  /\ Cardinality(Buying) <= Cardinality(Processes)
<1>1. IsFiniteSet(Processes) BY CaptchaAssumption
<1>2. Buying \subseteq Processes BY DEF Buying
<1> QED BY <1>1, <1>2, FS_Subset, FS_CardinalityType

\* Nobody begins to buy and nothing is recorded.
LEMMA NothingBought ==
  ASSUME LocksInv, SpendInv, UNCHANGED recorded,
         \A c \in Challenges : Buys(c)' => Buys(c)
  PROVE  SpendInv'
<1>1. IsFiniteSet(Buying) /\ Cardinality(Buying) \in Nat BY BuyingCounts
<1>2. Buying' \subseteq Buying BY DEF Buying
<1>3. Cardinality(Buying') \in Nat /\ Cardinality(Buying') <= Cardinality(Buying)
  BY <1>1, <1>2, FS_Subset, FS_CardinalityType
<1>4. Cardinality(Buying)' = Cardinality(Buying') OBVIOUS
<1>5. recorded \in Nat /\ SpendLimit \in Nat /\ Cardinality(Processes) \in Nat
  BY CaptchaAssumption, BuyingCounts DEF LocksInv, CaptchaTypeOK
<1> QED BY <1>1, <1>3, <1>4, <1>5 DEF SpendInv

\* Of several processes that see the budget not yet exhausted each may buy one
\* solution, but none a second one before it has recorded the first: what is
\* recorded goes beyond the limit by less than the number of processes.
THEOREM SpendBounded == CaptchaSpec => []SpendStaysBounded
<1>1. CaptchaInit(CaptchaBudget) => SpendInv
  <2> SUFFICES ASSUME CaptchaInit(CaptchaBudget) PROVE SpendInv
    OBVIOUS
  <2>1. Buying = {} BY DEF CaptchaInit, Buying, Buys
  <2>2. Cardinality(Buying) = 0 BY <2>1, FS_EmptySet
  <2> QED
    BY <2>2, BuyingCounts, CaptchaAssumption DEF CaptchaInit, SpendInv
<1>2. LocksInv /\ SpendInv /\ [CaptchaNext]_captchaVars => SpendInv'
  <2> SUFFICES ASSUME LocksInv, SpendInv, [CaptchaNext]_captchaVars
               PROVE  SpendInv'
    OBVIOUS
  <2>0. /\ stage \in [Challenges -> Stages] /\ recorded \in Nat
        /\ SpendLimit \in Nat
    BY CaptchaAssumption DEF LocksInv, CaptchaTypeOK, Stages
  <2>1. ASSUME NEW c \in Challenges, CheckBudget(c), ~Exhausted
        PROVE  SpendInv'
    <3>1. recorded' = recorded /\ recorded <= SpendLimit - 1
      BY <2>0, <2>1 DEF CheckBudget, Exhausted
    <3>2. /\ Cardinality(Buying') \in Nat /\ Cardinality(Processes) \in Nat
          /\ Cardinality(Buying') <= Cardinality(Processes)
      <4>1. IsFiniteSet(Processes) BY CaptchaAssumption
      <4>2. Buying' \subseteq Processes BY DEF Buying
      <4> QED BY <4>1, <4>2, FS_Subset, FS_CardinalityType
    <3>3. Cardinality(Buying)' = Cardinality(Buying') OBVIOUS
    <3> QED BY <2>0, <3>1, <3>2, <3>3 DEF SpendInv
  <2>2. ASSUME NEW c \in Challenges, RecordSuccess(c)
        PROVE  SpendInv'
    <3>1. recorded' = recorded + 1 /\ stage[c] = "solved" /\ stage'[c] = "idle"
      BY <2>0, <2>2 DEF RecordSuccess, Leaves, Enters
    <3>2. \A d \in Challenges : d # c => stage'[d] = stage[d]
      BY <2>0, <2>2 DEF RecordSuccess, Leaves, Enters
    <3>3. ProcessOf[c] \in Buying
      BY <3>1, Domains DEF Buying, Buys
    <3>4. Buying' \subseteq Buying \ {ProcessOf[c]}
      <4> SUFFICES ASSUME NEW d \in Challenges, Buys(d)'
                   PROVE  Buys(d) /\ ProcessOf[d] # ProcessOf[c]
        BY DEF Buying
      <4>1. d # c /\ Buys(d) BY <3>1, <3>2 DEF Buys
      <4>2. solveLock[ProcessOf[d]] = d
        BY <4>1 DEF LocksInv, LocksHeld, Buys, InSolver
      <4>3. solveLock[ProcessOf[c]] = c
        BY <3>1 DEF LocksInv, LocksHeld, InSolver
      <4> QED BY <4>1, <4>2, <4>3
    <3>5. /\ Cardinality(Buying') \in Nat
          /\ Cardinality(Buying') <= Cardinality(Buying) - 1
      <4>1. /\ IsFiniteSet(Buying \ {ProcessOf[c]})
            /\ Cardinality(Buying \ {ProcessOf[c]}) = Cardinality(Buying) - 1
        BY <3>3, BuyingCounts, FS_RemoveElement
      <4> QED BY <3>4, <4>1, FS_Subset, FS_CardinalityType
    <3>6. Cardinality(Buying)' = Cardinality(Buying') OBVIOUS
    <3> QED BY <2>0, <3>1, <3>5, <3>6, BuyingCounts DEF SpendInv
  <2>3. ASSUME NEW c \in Challenges, NEW s \in {"idle", "manual"}, Leaves(c, s),
               UNCHANGED recorded
        PROVE  SpendInv'
    <3>1. \A d \in Challenges : Buys(d)' => Buys(d)
      BY <2>0, <2>3 DEF Leaves, Enters, Buys
    <3> QED BY <2>3, <3>1, NothingBought
  <2>4. ASSUME NEW c \in Challenges, NEW s, Enters(c, s), s # "asked",
               s = "solved" => stage[c] = "asked", UNCHANGED recorded
        PROVE  SpendInv'
    <3>1. \A d \in Challenges : Buys(d)' => Buys(d)
      BY <2>0, <2>4 DEF Enters, Buys
    <3> QED BY <2>4, <3>1, NothingBought
  <2>5. ASSUME NEW c \in Challenges, Meet(c) \/ EnterSolver(c) \/ LockLane(c)
        PROVE  SpendInv'
    BY <2>4, <2>5 DEF Meet, EnterSolver, LockLane
  <2>6. ASSUME NEW c \in Challenges, Solve(c) \/ SolveFails(c)
        PROVE  SpendInv'
    BY <2>4, <2>6 DEF Solve, SolveFails
  <2>7. ASSUME NEW c \in Challenges,
               SolveRaises(c) \/ RecordFails(c) \/ AnswerPrompt(c)
        PROVE  SpendInv'
    BY <2>3, <2>7 DEF SolveRaises, RecordFails, AnswerPrompt
  <2>8. ASSUME NEW c \in Challenges, RecordError(c)
        PROVE  SpendInv'
    BY <2>3, <2>4, <2>8 DEF RecordError, FallsBack
  <2>9. ASSUME NEW c \in Challenges, CheckBudget(c), Exhausted
        PROVE  SpendInv'
    BY <2>3, <2>9 DEF CheckBudget, FallsBack
  <2>10. ASSUME NEW p \in Processes, KillSolver(p)
         PROVE  SpendInv'
    <3>1. \A d \in Challenges : Buys(d)' => Buys(d)
      BY <2>0, <2>10 DEF KillSolver, Buys
    <3> QED BY <2>10, <3>1, NothingBought DEF KillSolver
  <2>11. CASE UNCHANGED captchaVars
    <3>1. \A d \in Challenges : Buys(d)' => Buys(d)
      BY <2>11 DEF captchaVars, Buys
    <3> QED BY <2>11, <3>1, NothingBought DEF captchaVars
  <2> QED
    BY <2>1, <2>2, <2>5, <2>6, <2>7, <2>8, <2>9, <2>10, <2>11
    DEF CaptchaNext, CaptchaStep
<1>3. LocksInv /\ SpendInv => SpendStaysBounded
  <2> SUFFICES ASSUME LocksInv, SpendInv PROVE SpendStaysBounded
    OBVIOUS
  <2>1. recorded \in Nat /\ SpendLimit \in Nat
    BY CaptchaAssumption DEF LocksInv, CaptchaTypeOK
  <2> QED BY <2>1, BuyingCounts DEF SpendInv, SpendStaysBounded
<1> QED BY <1>1, <1>2, <1>3, LocksInvariant, PTL DEF CaptchaSpec

-----------------------------------------------------------------------------
\* BundleCache.

\* What stale_after is to make sure of: no lock file is removed as an old one
\* whose owner works on the part file.
UnlinksAbandoned ==
  \A l \in Loaders :
    UnlinkStale(l) => lockFile = NoLoader \/ load[lockFile] \notin Holding

\* One loader at a time works, and its lock file is there.
LoaderIsAlone == \A l \in Loaders : load[l] \in Holding => lockFile = l

\* The first n ranges of the bundle.
FirstRanges(n) == [i \in 1..n |-> i]

\* What the files hold at every point of a download.
BundleFiles ==
  /\ bundle \in {<<>>, Whole}
  /\ Len(part) \in 0..Ranges /\ part = FirstRanges(Len(part))
  /\ \A l \in Loaders :
       /\ load[l] \in {"fetch", "append"} =>
            offset[l] = Len(part) /\ Len(part) < Ranges
       /\ load[l] = "publish" => Len(part) = Ranges
       /\ load[l] \in {"done", "serve"} => bundle = Whole

LoadTypes ==
  /\ lockFile \in Loaders \cup {NoLoader} /\ lockIsOld \in BOOLEAN
  /\ load \in [Loaders -> {"idle", "check", "lock", "stale", "recheck",
                           "measure", "fetch", "append", "publish", "done",
                           "failed", "serve", "dead"}]
  /\ offset \in [Loaders -> Nat]
  /\ bundleBudget \in [BundleEvents -> Nat]

BundleInv == LoadTypes /\ LoaderIsAlone /\ BundleFiles

LEMMA RangeFacts ==
  /\ Ranges \in Nat \ {0} /\ Whole = FirstRanges(Ranges)
  /\ FirstRanges(0) = <<>> /\ Whole # <<>>
  /\ \A n \in Nat : /\ FirstRanges(n) \in Seq(1..n) /\ Len(FirstRanges(n)) = n
                    /\ Append(FirstRanges(n), n + 1) = FirstRanges(n + 1)
<1>1. Ranges \in Nat \ {0} BY BundleAssumption
<1>2. ASSUME NEW n \in Nat
      PROVE  /\ FirstRanges(n) \in Seq(1..n) /\ Len(FirstRanges(n)) = n
             /\ Append(FirstRanges(n), n + 1) = FirstRanges(n + 1)
  <2>1. FirstRanges(n) \in Seq(1..n) /\ Len(FirstRanges(n)) = n
    BY DEF FirstRanges
  <2>2. Append(FirstRanges(n), n + 1) = FirstRanges(n + 1)
    BY <2>1 DEF FirstRanges
  <2> QED BY <2>1, <2>2
<1>3. FirstRanges(0) = <<>> BY DEF FirstRanges
<1>4. Whole # <<>>
  <2>1. Len(FirstRanges(Ranges)) = Ranges BY <1>1, <1>2
  <2>2. Len(<<>>) = 0 OBVIOUS
  <2> QED BY <1>1, <2>1, <2>2 DEF Whole, FirstRanges
<1> QED BY <1>1, <1>2, <1>3, <1>4 DEF Whole, FirstRanges

LEMMA BundleStart == BundleInit(BundleBudget) => BundleInv
<1> SUFFICES ASSUME BundleInit(BundleBudget) PROVE BundleInv
  OBVIOUS
<1>1. LoadTypes BY BundleAssumption DEF BundleInit, LoadTypes
<1>2. LoaderIsAlone BY DEF BundleInit, LoaderIsAlone, Holding
<1>3. BundleFiles
  <2>1. Len(<<>>) = 0 OBVIOUS
  <2> QED BY <2>1, RangeFacts DEF BundleInit, BundleFiles
<1> QED BY <1>1, <1>2, <1>3 DEF BundleInv

LEMMA BundleSpends ==
  ASSUME LoadTypes, NEW kind \in BundleEvents, BundleSpend(kind)
  PROVE  bundleBudget' \in [BundleEvents -> Nat]
BY SMT DEF LoadTypes, BundleSpend

LEMMA OneGoes ==
  ASSUME LoadTypes, NEW l \in Loaders, NEW s, LoadGoes(l, s)
  PROVE  /\ load'[l] = s
         /\ \A m \in Loaders : m # l => load'[m] = load[m]
BY DEF LoadTypes, LoadGoes

\* While nobody created a lock file, or its owner does not work, nobody works.
LEMMA NobodyWorks ==
  ASSUME LoaderIsAlone, lockFile = NoLoader \/ load[lockFile] \notin Holding
  PROVE  \A l \in Loaders : load[l] \notin Holding
BY BundleAssumption DEF LoaderIsAlone

LEMMA OneWorks ==
  ASSUME LoaderIsAlone, NEW l \in Loaders, load[l] \in Holding
  PROVE  \A m \in Loaders : m # l => load[m] \notin Holding
BY DEF LoaderIsAlone

LEMMA CachedIsWhole ==
  ASSUME BundleFiles
  PROVE  /\ Cached => bundle = Whole
         /\ bundle # <<>> => bundle = Whole
<1>1. Len(<<>>) = 0 OBVIOUS
<1> QED BY <1>1, RangeFacts DEF BundleFiles, Cached

\* A step of one loader that leaves the files and the lock file alone.
LEMMA LoaderMoves ==
  ASSUME BundleInv, NEW l \in Loaders, NEW s, LoadGoes(l, s),
         UNCHANGED <<bundle, part, lockFile, lockIsOld>>,
         s \in {"idle", "check", "lock", "stale", "measure", "fetch", "append",
                "publish", "done", "failed", "serve", "dead"},
         s \in Holding => load[l] \in Holding,
         offset' \in [Loaders -> Nat],
         \A m \in Loaders : m # l => offset'[m] = offset[m],
         bundleBudget' \in [BundleEvents -> Nat],
         s \in {"fetch", "append"} =>
           offset'[l] = Len(part) /\ Len(part) < Ranges,
         s = "publish" => Len(part) = Ranges,
         s \in {"done", "serve"} => bundle = Whole
  PROVE  BundleInv'
<1>1. /\ load'[l] = s /\ \A m \in Loaders : m # l => load'[m] = load[m]
  BY OneGoes DEF BundleInv
<1>2. LoadTypes' BY DEF BundleInv, LoadTypes, LoadGoes
<1>3. LoaderIsAlone'
  BY <1>1 DEF BundleInv, LoaderIsAlone
<1>4. BundleFiles'
  <2>1. ASSUME NEW m \in Loaders
        PROVE  /\ load'[m] \in {"fetch", "append"} =>
                    offset'[m] = Len(part) /\ Len(part) < Ranges
               /\ load'[m] = "publish" => Len(part) = Ranges
               /\ load'[m] \in {"done", "serve"} => bundle = Whole
    <3>1. CASE m = l BY <1>1, <3>1
    <3>2. CASE m # l BY <1>1, <3>2 DEF BundleInv, BundleFiles
    <3> QED BY <3>1, <3>2
  <2> QED BY <2>1 DEF BundleInv, BundleFiles
<1> QED BY <1>2, <1>3, <1>4 DEF BundleInv

LEMMA SettledMoves ==
  ASSUME BundleInv, NEW l \in Loaders,
         StartBrowser(l) \/ CheckCache(l) \/ FindStale(l) \/ Recheck(l)
           \/ KillLoader(l) \/ Restart(l)
  PROVE  BundleInv'
<1>1. LoadTypes /\ BundleFiles BY DEF BundleInv
<1>2. /\ bundleBudget' \in [BundleEvents -> Nat]
      /\ UNCHANGED <<bundle, part, lockFile, lockIsOld>>
  <2>1. {"load", "kill", "restart"} \subseteq BundleEvents BY DEF BundleEvents
  <2>2. CASE UNCHANGED bundleBudget
    BY <1>1, <2>2 DEF LoadTypes, StartBrowser, CheckCache, FindStale, Recheck,
                      KillLoader, Restart
  <2>3. CASE \/ BundleSpend("load") \/ BundleSpend("kill")
             \/ BundleSpend("restart")
    BY <1>1, <2>1, <2>3, BundleSpends
       DEF StartBrowser, CheckCache, FindStale, Recheck, KillLoader, Restart
  <2> QED BY <2>2, <2>3 DEF StartBrowser, CheckCache, FindStale, Recheck,
                            KillLoader, Restart
<1>3. /\ offset' \in [Loaders -> Nat]
      /\ \A m \in Loaders : m # l => offset'[m] = offset[m]
  BY <1>1 DEF LoadTypes, StartBrowser, CheckCache, FindStale, Recheck,
              KillLoader, Restart
<1>4. PICK s \in {"idle", "check", "lock", "stale", "measure", "done", "serve",
                  "dead"} :
        /\ LoadGoes(l, s)
        /\ s \in {"done", "measure"} => load[l] = "recheck"
        /\ s \in {"done", "serve"} => bundle = Whole
  BY <1>1, CachedIsWhole DEF StartBrowser, CheckCache, FindStale, Recheck,
                             KillLoader, Restart
<1>5. s \in Holding => load[l] \in Holding BY <1>4 DEF Holding
<1> QED BY <1>2, <1>3, <1>4, <1>5, LoaderMoves

LEMMA TryLockKeeps ==
  ASSUME BundleInv, NEW l \in Loaders, TryLock(l)
  PROVE  BundleInv'
<1>1. /\ LoadTypes /\ LoaderIsAlone /\ BundleFiles
      /\ lockFile = NoLoader /\ LoadGoes(l, "recheck")
      /\ lockFile' = l /\ lockIsOld' = FALSE
      /\ UNCHANGED <<bundle, part, offset, bundleBudget>>
  BY DEF BundleInv, TryLock, Creates
<1>2. /\ load'[l] = "recheck"
      /\ \A m \in Loaders : m # l => load'[m] = load[m]
  BY <1>1, OneGoes
<1>3. LoadTypes' BY <1>1 DEF LoadTypes, LoadGoes
<1>4. LoaderIsAlone' BY <1>1, <1>2, NobodyWorks DEF LoaderIsAlone
<1>5. BundleFiles'
  <2>1. ASSUME NEW m \in Loaders
        PROVE  /\ load'[m] \in {"fetch", "append"} =>
                    offset[m] = Len(part) /\ Len(part) < Ranges
               /\ load'[m] = "publish" => Len(part) = Ranges
               /\ load'[m] \in {"done", "serve"} => bundle = Whole
    BY <1>1, <1>2 DEF BundleFiles
  <2> QED BY <1>1, <2>1 DEF BundleFiles
<1> QED BY <1>3, <1>4, <1>5 DEF BundleInv

LEMMA UnlinkKeeps ==
  ASSUME BundleInv, UnlinksAbandoned, NEW l \in Loaders, UnlinkStale(l)
  PROVE  BundleInv'
<1>1. /\ LoadTypes /\ LoaderIsAlone /\ BundleFiles
      /\ lockFile = NoLoader \/ load[lockFile] \notin Holding
      /\ LoadGoes(l, "lock") /\ lockFile' = NoLoader /\ lockIsOld' = FALSE
      /\ UNCHANGED <<bundle, part, offset, bundleBudget>>
  BY DEF BundleInv, UnlinkStale, UnlinksAbandoned
<1>2. /\ load'[l] = "lock"
      /\ \A m \in Loaders : m # l => load'[m] = load[m]
  BY <1>1, OneGoes
<1>3. LoadTypes' BY <1>1 DEF LoadTypes, LoadGoes
<1>4. LoaderIsAlone'
  <2>1. \A m \in Loaders : load[m] \notin Holding BY <1>1, NobodyWorks
  <2>2. \A m \in Loaders : load'[m] \notin Holding BY <1>2, <2>1 DEF Holding
  <2> QED BY <2>2 DEF LoaderIsAlone
<1>5. BundleFiles'
  <2>1. ASSUME NEW m \in Loaders
        PROVE  /\ load'[m] \in {"fetch", "append"} =>
                    offset[m] = Len(part) /\ Len(part) < Ranges
               /\ load'[m] = "publish" => Len(part) = Ranges
               /\ load'[m] \in {"done", "serve"} => bundle = Whole
    BY <1>1, <1>2 DEF BundleFiles
  <2> QED BY <1>1, <2>1 DEF BundleFiles
<1> QED BY <1>3, <1>4, <1>5 DEF BundleInv

\* The loader that works is the only one, and its lock file goes with it.
LEMMA LeaveKeeps ==
  ASSUME BundleInv, NEW l \in Loaders, Leave(l)
  PROVE  BundleInv'
<1>1. /\ LoadTypes /\ LoaderIsAlone /\ BundleFiles
      /\ load[l] \in {"done", "failed"} /\ load[l] \in Holding
      /\ LoadGoes(l, IF load[l] = "done" THEN "serve" ELSE "idle")
      /\ lockFile' = NoLoader /\ lockIsOld' = FALSE
      /\ UNCHANGED <<bundle, part, offset, bundleBudget>>
  BY DEF BundleInv, Leave, Unlock, Holding
<1>2. /\ load'[l] = (IF load[l] = "done" THEN "serve" ELSE "idle")
      /\ \A m \in Loaders : m # l => load'[m] = load[m]
  BY <1>1, OneGoes
<1>3. LoadTypes' BY <1>1 DEF LoadTypes, LoadGoes
<1>4. LoaderIsAlone'
  <2>1. \A m \in Loaders : m # l => load'[m] \notin Holding
    BY <1>1, <1>2, OneWorks
  <2>2. load'[l] \notin Holding BY <1>2 DEF Holding
  <2> QED BY <2>1, <2>2 DEF LoaderIsAlone
<1>5. BundleFiles'
  <2>1. ASSUME NEW m \in Loaders
        PROVE  /\ load'[m] \in {"fetch", "append"} =>
                    offset[m] = Len(part) /\ Len(part) < Ranges
               /\ load'[m] = "publish" => Len(part) = Ranges
               /\ load'[m] \in {"done", "serve"} => bundle = Whole
    <3>1. CASE m = l BY <1>1, <1>2, <3>1 DEF BundleFiles
    <3>2. CASE m # l BY <1>1, <1>2, <3>2 DEF BundleFiles
    <3> QED BY <3>1, <3>2
  <2> QED BY <1>1, <2>1 DEF BundleFiles
<1> QED BY <1>3, <1>4, <1>5 DEF BundleInv

LEMMA MeasureKeeps ==
  ASSUME BundleInv, NEW l \in Loaders, Measure(l)
  PROVE  BundleInv'
<1>1. LoadTypes /\ BundleFiles /\ load[l] = "measure"
  BY DEF BundleInv, Measure
<1>2. /\ Ranges \in Nat /\ Len(part) \in Nat /\ Len(part) <= Ranges
      /\ ResumeAt = Len(part)
  BY <1>1, RangeFacts DEF BundleFiles, ResumeAt
<1>3. /\ part' = part /\ UNCHANGED <<bundle, lockFile, lockIsOld, bundleBudget>>
      /\ offset' = [offset EXCEPT ![l] = Len(part)]
      /\ LoadGoes(l, IF Len(part) < Ranges THEN "fetch" ELSE "publish")
  BY <1>2 DEF Measure
<1>4. /\ offset' \in [Loaders -> Nat] /\ offset'[l] = Len(part)
      /\ \A m \in Loaders : m # l => offset'[m] = offset[m]
  BY <1>1, <1>2, <1>3 DEF LoadTypes
<1>5. load[l] \in Holding BY <1>1 DEF Holding
<1>6. bundleBudget' \in [BundleEvents -> Nat] BY <1>1, <1>3 DEF LoadTypes
<1>7. CASE Len(part) < Ranges
  <2>1. LoadGoes(l, "fetch") BY <1>3, <1>7
  <2> QED BY <1>3, <1>4, <1>5, <1>6, <1>7, <2>1, LoaderMoves
<1>8. CASE ~(Len(part) < Ranges)
  <2>1. LoadGoes(l, "publish") /\ Len(part) = Ranges BY <1>2, <1>3, <1>8
  <2> QED BY <1>3, <1>4, <1>5, <1>6, <2>1, LoaderMoves
<1> QED BY <1>7, <1>8

LEMMA FetchKeeps ==
  ASSUME BundleInv, NEW l \in Loaders, FetchRange(l)
  PROVE  BundleInv'
<1>1. /\ LoadTypes /\ load[l] = "fetch" /\ load[l] \in Holding
      /\ offset[l] = Len(part) /\ Len(part) < Ranges
      /\ UNCHANGED <<bundle, part, lockFile, lockIsOld>>
  BY DEF BundleInv, BundleFiles, FetchRange, Holding
<1>2. CASE LoadGoes(l, "append") /\ UNCHANGED <<offset, bundleBudget>>
  <2>1. /\ offset' \in [Loaders -> Nat] /\ offset'[l] = Len(part)
        /\ \A m \in Loaders : m # l => offset'[m] = offset[m]
        /\ bundleBudget' \in [BundleEvents -> Nat]
    BY <1>1, <1>2 DEF LoadTypes
  <2> QED BY <1>1, <1>2, <2>1, LoaderMoves
<1>3. CASE /\ BundleSpend("fail") /\ LoadGoes(l, "failed")
           /\ offset' = [offset EXCEPT ![l] = 0]
  <2>1. /\ offset' \in [Loaders -> Nat]
        /\ \A m \in Loaders : m # l => offset'[m] = offset[m]
    BY <1>1, <1>3 DEF LoadTypes
  <2>2. bundleBudget' \in [BundleEvents -> Nat]
    BY <1>1, <1>3, BundleSpends DEF BundleEvents
  <2> QED BY <1>1, <1>3, <2>1, <2>2, LoaderMoves
<1> QED BY <1>2, <1>3 DEF FetchRange

LEMMA AppendKeeps ==
  ASSUME BundleInv, NEW l \in Loaders, AppendRange(l)
  PROVE  BundleInv'
<1> DEFINE n == Len(part)
<1>1. /\ LoadTypes /\ LoaderIsAlone /\ BundleFiles
      /\ load[l] = "append" /\ load[l] \in Holding
  BY DEF BundleInv, AppendRange, Holding
<1>2. n \in Nat /\ n < Ranges /\ offset[l] = n /\ Ranges \in Nat
  <2>1. Ranges \in Nat BY BundleAssumption
  <2> QED BY <1>1, <2>1 DEF BundleFiles
<1>3. /\ part' = Append(part, n + 1)
      /\ offset' = [offset EXCEPT ![l] = n + 1]
      /\ LoadGoes(l, IF n + 1 < Ranges THEN "fetch" ELSE "publish")
      /\ UNCHANGED <<bundle, lockFile, lockIsOld, bundleBudget>>
  BY <1>1, <1>2 DEF AppendRange, LoadTypes
<1>4. part = FirstRanges(n) BY <1>1 DEF BundleFiles
<1> HIDE DEF n
<1>5. part' = FirstRanges(n + 1) /\ Len(part') = n + 1
  <2>1. n + 1 \in Nat BY <1>2
  <2> QED BY <1>2, <1>3, <1>4, <2>1, RangeFacts
<1>6. /\ load'[l] = (IF n + 1 < Ranges THEN "fetch" ELSE "publish")
      /\ \A m \in Loaders : m # l => load'[m] = load[m]
  BY <1>1, <1>3, OneGoes
<1>7. LoadTypes'
  <2>1. n + 1 \in Nat BY <1>2
  <2> QED BY <1>1, <1>3, <2>1 DEF LoadTypes, LoadGoes
<1>8. \A m \in Loaders : m # l => load'[m] \notin Holding
  BY <1>1, <1>6, OneWorks
<1>9. LoaderIsAlone'
  <2>1. lockFile' = l BY <1>1, <1>3 DEF LoaderIsAlone
  <2> QED BY <1>8, <2>1 DEF LoaderIsAlone
<1>10. BundleFiles'
  <2>1. offset'[l] = n + 1 BY <1>1, <1>3 DEF LoadTypes
  <2>2. n + 1 \in 0..Ranges /\ (n + 1 < Ranges \/ n + 1 = Ranges) BY <1>2
  <2>3. ASSUME NEW m \in Loaders
        PROVE  /\ load'[m] \in {"fetch", "append"} =>
                    offset'[m] = n + 1 /\ n + 1 < Ranges
               /\ load'[m] = "publish" => n + 1 = Ranges
               /\ load'[m] \in {"done", "serve"} => bundle = Whole
    <3>1. CASE m = l BY <1>6, <2>1, <2>2, <3>1
    <3>2. CASE m # l
      <4>1. load'[m] \notin {"fetch", "append", "publish", "done"}
        BY <1>8, <3>2 DEF Holding
      <4> QED BY <1>1, <1>6, <3>2, <4>1 DEF BundleFiles
    <3> QED BY <3>1, <3>2
  <2> QED BY <1>1, <1>3, <1>5, <2>2, <2>3 DEF BundleFiles
<1> QED BY <1>7, <1>9, <1>10 DEF BundleInv

LEMMA PublishKeeps ==
  ASSUME BundleInv, NEW l \in Loaders, Publish(l)
  PROVE  BundleInv'
<1>1. /\ LoadTypes /\ LoaderIsAlone /\ BundleFiles
      /\ load[l] = "publish" /\ load[l] \in Holding
  BY DEF BundleInv, Publish, Holding
<1>2. part = Whole /\ part # <<>>
  BY <1>1, RangeFacts DEF BundleFiles
<1>3. /\ bundle' = Whole /\ part' = <<>> /\ LoadGoes(l, "done")
      /\ offset' = [offset EXCEPT ![l] = 0]
      /\ UNCHANGED <<lockFile, lockIsOld, bundleBudget>>
  BY <1>2 DEF Publish
<1>4. /\ load'[l] = "done"
      /\ \A m \in Loaders : m # l => load'[m] = load[m]
  BY <1>1, <1>3, OneGoes
<1>5. LoadTypes' BY <1>1, <1>3 DEF LoadTypes, LoadGoes
<1>6. \A m \in Loaders : m # l => load'[m] \notin Holding
  BY <1>1, <1>4, OneWorks
<1>7. LoaderIsAlone'
  <2>1. lockFile' = l BY <1>1, <1>3 DEF LoaderIsAlone
  <2> QED BY <1>6, <2>1 DEF LoaderIsAlone
<1>8. BundleFiles'
  <2>1. Len(part') = 0 /\ 0 \in 0..Ranges /\ part' = FirstRanges(0)
    BY <1>3, RangeFacts
  <2>2. \A m \in Loaders : load'[m] \notin {"fetch", "append", "publish"}
    <3>1. \A m \in Loaders :
            m # l => load'[m] \notin {"fetch", "append", "publish"}
      BY <1>6 DEF Holding
    <3> QED BY <1>4, <3>1
  <2> QED BY <1>3, <2>1, <2>2 DEF BundleFiles
<1> QED BY <1>5, <1>7, <1>8 DEF BundleInv

LEMMA AgesKeeps ==
  ASSUME BundleInv, LockAges
  PROVE  BundleInv'
<1>1. /\ LoadTypes /\ lockIsOld' = TRUE
      /\ UNCHANGED <<bundle, part, lockFile, load, offset>>
      /\ bundleBudget' \in [BundleEvents -> Nat]
  <2>1. LoadTypes /\ "slow" \in BundleEvents BY DEF BundleInv, BundleEvents
  <2>2. CASE UNCHANGED bundleBudget BY <2>1, <2>2 DEF LoadTypes, LockAges
  <2>3. CASE BundleSpend("slow") BY <2>1, <2>3, BundleSpends DEF LockAges
  <2> QED BY <2>2, <2>3 DEF LockAges
<1> QED BY <1>1 DEF BundleInv, LoadTypes, LoaderIsAlone, BundleFiles

LEMMA BundleStep ==
  BundleInv /\ [BundleNext]_bundleVars /\ [UnlinksAbandoned]_bundleVars
    => BundleInv'
<1> SUFFICES ASSUME BundleInv, [BundleNext]_bundleVars,
                    [UnlinksAbandoned]_bundleVars
             PROVE  BundleInv'
  OBVIOUS
<1>1. CASE UNCHANGED bundleVars
  BY <1>1 DEF bundleVars, BundleInv, LoadTypes, LoaderIsAlone, BundleFiles
<1>2. CASE LockAges BY <1>2, AgesKeeps
<1>3. ASSUME NEW l \in Loaders,
             StartBrowser(l) \/ LoadStep(l) \/ KillLoader(l) \/ Restart(l),
             UnlinksAbandoned
      PROVE  BundleInv'
  <2>1. CASE StartBrowser(l) \/ CheckCache(l) \/ FindStale(l) \/ Recheck(l)
               \/ KillLoader(l) \/ Restart(l)
    BY <2>1, SettledMoves
  <2>2. CASE TryLock(l) BY <2>2, TryLockKeeps
  <2>3. CASE UnlinkStale(l) BY <1>3, <2>3, UnlinkKeeps
  <2>4. CASE Measure(l) BY <2>4, MeasureKeeps
  <2>5. CASE FetchRange(l) BY <2>5, FetchKeeps
  <2>6. CASE AppendRange(l) BY <2>6, AppendKeeps
  <2>7. CASE Publish(l) BY <2>7, PublishKeeps
  <2>8. CASE Leave(l) BY <2>8, LeaveKeeps
  <2> QED BY <1>3, <2>1, <2>2, <2>3, <2>4, <2>5, <2>6, <2>7, <2>8 DEF LoadStep
<1> QED BY <1>1, <1>2, <1>3 DEF BundleNext

\* The inductive invariant: one loader at a time works on the part file, behind
\* its own lock file, and the part file holds the first ranges of the bundle, as
\* many as its loader goes on from.
THEOREM BundleInvariant ==
  BundleSpec /\ [][UnlinksAbandoned]_bundleVars => []BundleInv
BY BundleStart, BundleStep, PTL DEF BundleSpec

LEMMA InvServesWhole == BundleInv => ServedBundleIsWhole
BY DEF BundleInv, BundleFiles, ServedBundleIsWhole

\* Any number of browsers, ranges, failures, kills and restarts: as long as no
\* lock file is removed as an old one whose owner works on, what a browser is
\* given is the whole bundle.
THEOREM ServedWholeUnlessLockIsTaken ==
  BundleSpec /\ [][UnlinksAbandoned]_bundleVars => []ServedBundleIsWhole
BY BundleInvariant, InvServesWhole, PTL

-----------------------------------------------------------------------------

\* No download outlives stale_after, and either no process is killed, or there
\* are two and a killed one stays away.
Patient ==
  /\ BundleBudget["slow"] = 0
  /\ \/ BundleBudget["kill"] = 0
     \/ BundleBudget["restart"] = 0 /\ \E a, b : Loaders = {a, b}

\* Then a lock file is old only when its owner is dead and stays so.
Aging ==
  /\ bundleBudget["slow"] = 0
  /\ \/ bundleBudget["kill"] = 0 /\ \A l \in Loaders : load[l] # "dead"
     \/ bundleBudget["restart"] = 0 /\ \E a, b : Loaders = {a, b}
  /\ lockIsOld => lockFile \in Loaders /\ load[lockFile] = "dead"
  /\ lockFile # NoLoader => load[lockFile] \in Holding \cup {"dead"}
  /\ \A l \in Loaders :
       load[l] = "stale" => \E d \in Loaders : load[d] = "dead"

LEMMA NothingSpent ==
  ASSUME LoadTypes, NEW kind \in BundleEvents, BundleSpend(kind),
         NEW other \in BundleEvents, bundleBudget[other] = 0
  PROVE  bundleBudget'[other] = 0 /\ other # kind
BY DEF LoadTypes, BundleSpend

LEMMA AgingAbandons ==
  ASSUME LoadTypes, Aging
  PROVE  UnlinksAbandoned
<1> SUFFICES ASSUME NEW l \in Loaders, load[l] = "stale"
             PROVE  lockFile = NoLoader \/ load[lockFile] \notin Holding
  BY DEF UnlinksAbandoned, UnlinkStale
<1>1. PICK d \in Loaders : load[d] = "dead" BY DEF Aging
<1>2. PICK a, b : Loaders = {a, b} BY <1>1 DEF Aging
<1>3. lockFile \in {NoLoader, l, d} BY <1>1, <1>2 DEF LoadTypes
<1> QED BY <1>1, <1>3 DEF Holding

LEMMA AgingStart == Patient /\ BundleInit(BundleBudget) => Aging
BY BundleAssumption DEF Patient, BundleInit, Aging

\* Whoever is dead stays so, because without deaths nobody is.
LEMMA DeadStay ==
  ASSUME LoadTypes, Aging, BundleNext, NEW d \in Loaders, load[d] = "dead"
  PROVE  load'[d] = "dead"
<1>1. bundleBudget["restart"] = 0 BY DEF Aging
<1>2. CASE LockAges BY <1>2 DEF LockAges
<1>3. ASSUME NEW l \in Loaders, Restart(l) PROVE FALSE
  <2>1. bundleBudget["restart"] > 0 BY <1>3 DEF Restart, BundleSpend
  <2> QED BY <1>1, <2>1
<1>4. ASSUME NEW l \in Loaders, StartBrowser(l) \/ LoadStep(l) \/ KillLoader(l)
      PROVE  load'[d] = "dead"
  <2>1. l # d
    BY <1>4 DEF StartBrowser, LoadStep, KillLoader, CheckCache, TryLock,
                FindStale, UnlinkStale, Recheck, Measure, FetchRange,
                AppendRange, Publish, Leave, Unlock
  <2>2. PICK s : LoadGoes(l, s)
    BY <1>4 DEF StartBrowser, LoadStep, KillLoader, CheckCache, TryLock,
                FindStale, UnlinkStale, Recheck, Measure, FetchRange,
                AppendRange, Publish, Leave, Unlock
  <2> QED BY <2>1, <2>2, OneGoes
<1> QED BY <1>2, <1>3, <1>4 DEF BundleNext

\* No step spends what there is nothing of.
LEMMA NothingIsSpent ==
  ASSUME LoadTypes, BundleNext, NEW kind \in BundleEvents,
         bundleBudget[kind] = 0
  PROVE  bundleBudget'[kind] = 0
<1>1. \/ UNCHANGED bundleBudget
      \/ \E other \in BundleEvents : BundleSpend(other)
  BY DEF BundleNext, LockAges, StartBrowser, LoadStep, KillLoader, Restart,
         CheckCache, TryLock, FindStale, UnlinkStale, Recheck, Measure,
         FetchRange, AppendRange, Publish, Leave, BundleEvents
<1> QED BY <1>1, NothingSpent

LEMMA AgingStep ==
  LoadTypes /\ Aging /\ [BundleNext]_bundleVars => Aging'
<1> SUFFICES ASSUME LoadTypes, Aging, [BundleNext]_bundleVars PROVE Aging'
  OBVIOUS
<1>1. CASE UNCHANGED bundleVars BY <1>1 DEF bundleVars, Aging
<1>2. CASE BundleNext
  <2>1. bundleBudget'["slow"] = 0
    BY <1>2, NothingIsSpent DEF Aging, BundleEvents
  <2>2. \/ bundleBudget'["kill"] = 0 /\ \A l \in Loaders : load'[l] # "dead"
        \/ bundleBudget'["restart"] = 0 /\ \E a, b : Loaders = {a, b}
    <3>1. CASE bundleBudget["restart"] = 0 /\ \E a, b : Loaders = {a, b}
      BY <1>2, <3>1, NothingIsSpent DEF BundleEvents
    <3>2. CASE /\ bundleBudget["kill"] = 0
               /\ \A l \in Loaders : load[l] # "dead"
      <4>1. bundleBudget'["kill"] = 0
        BY <1>2, <3>2, NothingIsSpent DEF BundleEvents
      <4>2. ASSUME NEW l \in Loaders, load'[l] = "dead" PROVE FALSE
        <5>1. CASE LockAges BY <3>2, <4>2, <5>1 DEF LockAges
        <5>2. ASSUME NEW m \in Loaders, KillLoader(m) PROVE FALSE
          <6>1. bundleBudget["kill"] > 0 BY <5>2 DEF KillLoader, BundleSpend
          <6> QED BY <3>2, <6>1
        <5>3. ASSUME NEW m \in Loaders,
                     StartBrowser(m) \/ LoadStep(m) \/ Restart(m)
              PROVE  FALSE
          <6>1. PICK s : LoadGoes(m, s) /\ s # "dead"
            BY <5>3 DEF StartBrowser, LoadStep, Restart, CheckCache, TryLock,
                        FindStale, UnlinkStale, Recheck, Measure, FetchRange,
                        AppendRange, Publish, Leave, Unlock
          <6> QED BY <3>2, <4>2, <6>1, OneGoes
        <5> QED BY <1>2, <5>1, <5>2, <5>3 DEF BundleNext
      <4> QED BY <4>1, <4>2
    <3> QED BY <3>1, <3>2 DEF Aging
  <2>3. lockIsOld' => lockFile' \in Loaders /\ load'[lockFile'] = "dead"
    <3> SUFFICES ASSUME lockIsOld'
                 PROVE  lockFile' \in Loaders /\ load'[lockFile'] = "dead"
      OBVIOUS
    <3>1. CASE LockAges
      <4>1. load[lockFile] = "dead"
        <5> SUFFICES ASSUME BundleSpend("slow") PROVE FALSE
          BY <3>1 DEF LockAges, Aging
        <5>1. bundleBudget["slow"] > 0 BY DEF BundleSpend
        <5> QED BY <5>1 DEF Aging
      <4> QED BY <3>1, <4>1 DEF LockAges, LoadTypes
    <3>2. ASSUME NEW l \in Loaders,
                 StartBrowser(l) \/ LoadStep(l) \/ KillLoader(l) \/ Restart(l)
          PROVE  lockIsOld /\ lockFile' = lockFile
      BY <3>2 DEF StartBrowser, LoadStep, KillLoader, Restart, CheckCache,
                  TryLock, FindStale, UnlinkStale, Recheck, Measure,
                  FetchRange, AppendRange, Publish, Leave, Unlock
    <3> QED BY <1>2, <3>1, <3>2, DeadStay DEF BundleNext, Aging
  <2>4. ASSUME NEW l \in Loaders, load'[l] = "stale"
        PROVE  \E d \in Loaders : load'[d] = "dead"
    <3>1. CASE load[l] = "stale"
      BY <1>2, <3>1, DeadStay DEF Aging
    <3>2. CASE load[l] # "stale"
      <4>1. lockIsOld
        <5>1. CASE LockAges BY <2>4, <3>2, <5>1 DEF LockAges
        <5>2. ASSUME NEW m \in Loaders, FindStale(m) PROVE lockIsOld
          BY <5>2 DEF FindStale
        <5>3. ASSUME NEW m \in Loaders,
                     \/ StartBrowser(m) \/ KillLoader(m) \/ Restart(m)
                     \/ LoadStep(m) /\ ~FindStale(m)
              PROVE  FALSE
          <6>1. PICK s : LoadGoes(m, s) /\ s # "stale"
            BY <5>3 DEF StartBrowser, KillLoader, LoadStep, Restart, CheckCache,
                        TryLock, UnlinkStale, Recheck, Measure, FetchRange,
                        AppendRange, Publish, Leave, Unlock
          <6> QED BY <2>4, <3>2, <6>1, OneGoes
        <5> QED BY <1>2, <5>1, <5>2, <5>3 DEF BundleNext
      <4> QED BY <1>2, <4>1, DeadStay DEF Aging
    <3> QED BY <3>1, <3>2
  <2>5. lockFile' # NoLoader => load'[lockFile'] \in Holding \cup {"dead"}
    <3> SUFFICES ASSUME lockFile' # NoLoader
                 PROVE  load'[lockFile'] \in Holding \cup {"dead"}
      OBVIOUS
    <3>1. ASSUME NEW l \in Loaders, TryLock(l)
          PROVE  load'[lockFile'] \in Holding \cup {"dead"}
      <4>1. lockFile' = l /\ LoadGoes(l, "recheck") BY <3>1 DEF TryLock
      <4> QED BY <4>1, OneGoes DEF Holding
    <3>2. CASE LockAges BY <3>2 DEF LockAges, Aging
    <3>3. ASSUME NEW l \in Loaders,
                 \/ StartBrowser(l) \/ KillLoader(l) \/ Restart(l)
                 \/ LoadStep(l) /\ ~TryLock(l)
          PROVE  load'[lockFile'] \in Holding \cup {"dead"}
      <4>1. lockFile' = lockFile /\ lockFile \in Loaders
        BY <3>3 DEF LoadTypes, StartBrowser, KillLoader, LoadStep, Restart,
                    CheckCache, FindStale, UnlinkStale, Recheck, Measure,
                    FetchRange, AppendRange, Publish, Leave, Unlock
      <4>2. load[lockFile] \in Holding \cup {"dead"} BY <4>1 DEF Aging, LoadTypes
      <4>3. load[lockFile] = "dead" => load'[lockFile] = "dead"
        BY <1>2, <4>1, DeadStay
      <4>4. load[lockFile] \in Holding =>
              load'[lockFile] \in Holding \cup {"dead"}
        <5>1. CASE lockFile = l /\ load[l] \in Holding
          <6>1. PICK s \in Holding \cup {"dead"} : LoadGoes(l, s)
            BY <3>3, <5>1
            DEF Holding, StartBrowser, KillLoader, LoadStep, Restart,
                CheckCache, FindStale, UnlinkStale, Recheck, Measure,
                FetchRange, AppendRange, Publish, Leave, Unlock
          <6> QED BY <5>1, <6>1, OneGoes
        <5>2. CASE lockFile # l
          <6>1. PICK s : LoadGoes(l, s)
            BY <3>3 DEF StartBrowser, KillLoader, LoadStep, Restart,
                        CheckCache, FindStale, UnlinkStale, Recheck, Measure,
                        FetchRange, AppendRange, Publish, Leave, Unlock
          <6> QED BY <4>1, <5>2, <6>1, OneGoes
        <5> QED BY <5>1, <5>2
      <4> QED BY <4>1, <4>2, <4>3, <4>4
    <3> QED BY <1>2, <3>1, <3>2, <3>3 DEF BundleNext, LoadStep
  <2> QED BY <2>1, <2>2, <2>3, <2>4, <2>5 DEF Aging
<1> QED BY <1>1, <1>2

LEMMA PatientAbandons ==
  BundleInv /\ Aging /\ [BundleNext]_bundleVars => BundleInv' /\ Aging'
<1> SUFFICES ASSUME BundleInv, Aging, [BundleNext]_bundleVars
             PROVE  BundleInv' /\ Aging'
  OBVIOUS
<1>1. LoadTypes BY DEF BundleInv
<1>2. UnlinksAbandoned BY <1>1, AgingAbandons
<1> QED BY <1>1, <1>2, BundleStep, AgingStep

\* Any number of browsers, of ranges and of failures: a browser is given the
\* whole bundle when no download outlives stale_after and no process is killed;
\* of two browsers also when one of them is killed and stays away.
THEOREM ServedWhole == Patient => (BundleSpec => []ServedBundleIsWhole)
<1> SUFFICES ASSUME Patient PROVE BundleSpec => []ServedBundleIsWhole
  OBVIOUS
<1>1. BundleInit(BundleBudget) => BundleInv /\ Aging
  BY BundleStart, AgingStart
<1> QED BY <1>1, PatientAbandons, InvServesWhole, PTL DEF BundleSpec

-----------------------------------------------------------------------------

\* A download asks for ranges of the bundle only, whatever others append to the
\* part file.
RangesInBundle ==
  \A l \in Loaders : load[l] \in {"fetch", "append"} => offset[l] < Ranges

LEMMA SpendsTyped ==
  ASSUME BundleTypeOK, BundleNext
  PROVE  bundleBudget' \in [BundleEvents -> Nat]
<1>1. \/ UNCHANGED bundleBudget
      \/ \E kind \in BundleEvents : BundleSpend(kind)
  BY DEF BundleNext, LockAges, StartBrowser, LoadStep, KillLoader, Restart,
         CheckCache, TryLock, FindStale, UnlinkStale, Recheck, Measure,
         FetchRange, AppendRange, Publish, Leave, BundleEvents
<1>2. ASSUME NEW kind \in BundleEvents, BundleSpend(kind)
      PROVE  bundleBudget' \in [BundleEvents -> Nat]
  BY <1>2 DEF BundleSpend, BundleTypeOK
<1> QED BY <1>1, <1>2 DEF BundleTypeOK

LEMMA GoesTyped ==
  ASSUME BundleTypeOK, NEW l \in Loaders, BundleNext,
         StartBrowser(l) \/ LoadStep(l) \/ KillLoader(l) \/ Restart(l)
  PROVE  load' \in [Loaders -> {"idle", "check", "lock", "stale", "recheck",
                                "measure", "fetch", "append", "publish",
                                "done", "failed", "serve", "dead"}]
<1> DEFINE Points == {"idle", "check", "lock", "stale", "recheck", "measure",
                      "fetch", "append", "publish", "done", "failed", "serve",
                      "dead"}
<1>1. PICK s \in Points : LoadGoes(l, s)
  BY DEF StartBrowser, LoadStep, KillLoader, Restart, CheckCache, TryLock,
         FindStale, UnlinkStale, Recheck, Measure, FetchRange, AppendRange,
         Publish, Leave, Unlock
<1>2. load \in [Loaders -> Points] BY DEF BundleTypeOK
<1> HIDE DEF Points
<1>3. load' \in [Loaders -> Points] BY <1>1, <1>2 DEF LoadGoes
<1> QED BY <1>3 DEF Points

\* Every step of a download, of those that wait for its lock and of those that
\* take it from them, kills and restarts included, is well typed.
THEOREM BundleTypes == BundleSpec => [](BundleTypeOK /\ RangesInBundle)
<1>1. BundleInit(BundleBudget) => BundleTypeOK /\ RangesInBundle
  <2> SUFFICES ASSUME BundleInit(BundleBudget)
               PROVE  BundleTypeOK /\ RangesInBundle
    OBVIOUS
  <2>1. <<>> \in Seq(1..Ranges) OBVIOUS
  <2> QED
    BY <2>1, BundleAssumption DEF BundleInit, BundleTypeOK, RangesInBundle
<1>2. BundleTypeOK /\ RangesInBundle /\ [BundleNext]_bundleVars
        => BundleTypeOK' /\ RangesInBundle'
  <2> SUFFICES ASSUME BundleTypeOK, RangesInBundle, [BundleNext]_bundleVars
               PROVE  BundleTypeOK' /\ RangesInBundle'
    OBVIOUS
  <2>1. CASE UNCHANGED bundleVars
    BY <2>1 DEF bundleVars, BundleTypeOK, RangesInBundle
  <2>2. CASE LockAges
    <3>1. bundleBudget' \in [BundleEvents -> Nat]
      BY <2>2, SpendsTyped DEF BundleNext
    <3> QED BY <2>2, <3>1 DEF LockAges, BundleTypeOK, RangesInBundle
  <2>3. ASSUME NEW l \in Loaders,
               StartBrowser(l) \/ LoadStep(l) \/ KillLoader(l) \/ Restart(l)
        PROVE  BundleTypeOK' /\ RangesInBundle'
    <3>0. BundleNext BY <2>3 DEF BundleNext
    <3>1. bundleBudget' \in [BundleEvents -> Nat] BY <3>0, SpendsTyped
    <3>2. load' \in [Loaders -> {"idle", "check", "lock", "stale", "recheck",
                                 "measure", "fetch", "append", "publish",
                                 "done", "failed", "serve", "dead"}]
      BY <2>3, <3>0, GoesTyped
    <3>3. /\ bundle \in Seq(1..Ranges) /\ part \in Seq(1..Ranges)
          /\ offset \in [Loaders -> Nat] /\ Ranges \in Nat \ {0}
          /\ <<>> \in Seq(1..Ranges)
          /\ Len(part) \in Nat /\ ResumeAt \in Nat
      BY BundleAssumption DEF BundleTypeOK, ResumeAt
    <3>4. lockFile' \in Loaders \cup {NoLoader} /\ lockIsOld' \in BOOLEAN
      BY <2>3
      DEF BundleTypeOK, StartBrowser, LoadStep, KillLoader, Restart, CheckCache,
          TryLock, FindStale, UnlinkStale, Recheck, Measure, FetchRange,
          AppendRange, Publish, Leave, Unlock
    <3>5. CASE AppendRange(l)
      <4>1. offset[l] \in Nat /\ offset[l] < Ranges
        BY <3>3, <3>5 DEF AppendRange, RangesInBundle
      <4>2. part' \in Seq(1..Ranges) /\ bundle' = bundle
        <5>1. offset[l] + 1 \in 1..Ranges BY <3>3, <4>1
        <5> QED BY <3>3, <3>5, <5>1 DEF AppendRange
      <4>3. offset' \in [Loaders -> Nat] BY <3>3, <3>5 DEF AppendRange
      <4>4. RangesInBundle'
        BY <3>3, <3>5, <4>1
        DEF AppendRange, RangesInBundle, LoadGoes, BundleTypeOK
      <4> QED BY <3>1, <3>2, <3>3, <3>4, <4>2, <4>3, <4>4 DEF BundleTypeOK
    <3>6. CASE Measure(l)
      <4>1. part' \in Seq(1..Ranges) /\ bundle' = bundle
        BY <3>3, <3>6 DEF Measure
      <4>2. offset' = [offset EXCEPT ![l] = ResumeAt] BY <3>6 DEF Measure
      <4>3. LoadGoes(l, IF ResumeAt < Ranges THEN "fetch" ELSE "publish")
        BY <3>6 DEF Measure
      <4>4. offset' \in [Loaders -> Nat] BY <3>3, <4>2
      <4>5. RangesInBundle'
        BY <3>3, <4>2, <4>3 DEF RangesInBundle, LoadGoes, BundleTypeOK
      <4> QED BY <3>1, <3>2, <3>3, <3>4, <4>1, <4>4, <4>5 DEF BundleTypeOK
    <3>7. CASE ~AppendRange(l) /\ ~Measure(l)
      <4>1. part' \in Seq(1..Ranges) /\ bundle' \in Seq(1..Ranges)
        BY <2>3, <3>3, <3>7
        DEF StartBrowser, LoadStep, KillLoader, Restart, CheckCache, TryLock,
            FindStale, UnlinkStale, Recheck, FetchRange, Publish, Leave
      <4>2. offset' = offset \/ offset' = [offset EXCEPT ![l] = 0]
        BY <2>3, <3>7
        DEF StartBrowser, LoadStep, KillLoader, Restart, CheckCache, TryLock,
            FindStale, UnlinkStale, Recheck, FetchRange, Publish, Leave
      <4>3. offset' \in [Loaders -> Nat]
        <5>1. CASE offset' = offset BY <3>3, <5>1
        <5>2. CASE offset' = [offset EXCEPT ![l] = 0] BY <3>3, <5>2
        <5> QED BY <4>2, <5>1, <5>2
      <4>4. PICK s : LoadGoes(l, s) /\ s # "fetch"
                     /\ (s = "append" => load[l] = "fetch" /\ offset' = offset)
        BY <2>3, <3>7
        DEF StartBrowser, LoadStep, KillLoader, Restart, CheckCache, TryLock,
            FindStale, UnlinkStale, Recheck, FetchRange, Publish, Leave, Unlock
      <4>5. RangesInBundle'
        BY <3>3, <4>2, <4>4 DEF RangesInBundle, LoadGoes, BundleTypeOK
      <4> QED BY <3>1, <3>2, <3>4, <4>1, <4>3, <4>5 DEF BundleTypeOK
    <3> QED BY <3>5, <3>6, <3>7
  <2> QED BY <2>1, <2>2, <2>3 DEF BundleNext
<1> QED BY <1>1, <1>2, PTL DEF BundleSpec

=============================================================================
