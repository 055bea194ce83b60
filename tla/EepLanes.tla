------------------------------ MODULE EepLanes ------------------------------
(***************************************************************************)
(* EepHttpClient.get: concurrent calls share HTTP lanes, one per proxy,    *)
(* each with a lock and a breaker whose state is kept in session_lanes.  A *)
(* lane that fails is replaced under the rotation lock by one on another   *)
(* proxy of the pool, or on the same proxy once the provider has changed   *)
(* its address.  One client in one process, which may be killed and        *)
(* started again, and the saves of the other clients of the source: the    *)
(* worker, the scheduler and each of its jobs have one of their own, and   *)
(* those on one proxy write the same rows.                                 *)
(***************************************************************************)
EXTENDS Integers, Sequences, CircuitBreaker, ProxyPool

CONSTANTS
  Calls, NoCall,   \* coroutines that may call get
  Networks,        \* configurations to start with
  Urls,            \* proxy_pool_urls; without a pool its first is proxy_url
  LaneCount,       \* min(max_lanes, len(pool_urls))
  Threshold,       \* block_threshold
  MaxAttempts,
  LaneBudget       \* bounds

\* Calls of get, blocked answers, other errors, transport errors, failed
\* statements, failed rotation requests, kills, saves of other clients.
LaneEvents == {"get", "block", "error", "lost", "save", "rotate", "kill",
               "other"}

ASSUME EepAssumption ==
  /\ NoCall \notin Calls
  /\ Networks \subseteq {"direct", "proxy", "provider", "pool"}
  /\ LaneCount \in Nat \ {0} /\ LaneCount <= Len(Urls)
  /\ Len(Urls) \in Nat /\ DOMAIN Urls = 1..Len(Urls)
  /\ \A i, j \in DOMAIN Urls : Urls[i] = Urls[j] => i = j
  /\ Threshold \in Nat \ {0} /\ MaxAttempts \in Nat \ {0}
  /\ LaneBudget \in [LaneEvents -> Nat]

VARIABLES
  network,    \* direct, one proxy, one proxy with rotate_url, a proxy pool
  breaker,    \* of each lane
  proxy,      \* proxy_url of each lane
  gen,        \* generation: <<l, gen>> is the identity of a lane object
  lock,       \* the call that holds the lock of a lane
  nextLane,   \* _next_lane
  cursor,     \* _proxy_pool.cursor
  bad,        \* proxies in its cooldown_until
  rotating,   \* the call that holds _rotation_lock
  loaded,     \* _runtime_state_loaded
  row,        \* session_lanes, by lane and proxy
  pc, at,     \* where each call is, and its lane object
  attempts,
  outcome,    \* of the request on its lane
  draft,      \* what it is about to save of a replacement
  budget

laneVars == <<breaker, proxy, gen, lock, nextLane, cursor, bad, rotating>>
callVars == <<pc, at, attempts, outcome, draft>>
vars == <<network, laneVars, loaded, row, callVars, budget>>

Lanes == 1..LaneCount
Proxies == {Urls[i] : i \in DOMAIN Urls}
NoLane == <<0, 0>>
NoRow == [Fresh EXCEPT !.state = "none"]

\* What another client may have in a breaker that it saves.
Opened == [state |-> "open", blocks |-> Threshold, cooling |-> TRUE,
           probe |-> FALSE]
OtherBreakers ==
  {[Fresh EXCEPT !.blocks = n] : n \in 0..(Threshold - 1)}
    \cup {Opened, Cooled(Opened)}

\* The lanes there are.
InUse == IF network = "pool" THEN Lanes ELSE {1}
Rotates == network \in {"provider", "pool"}

TypeOK ==
  /\ network \in Networks
  /\ breaker \in [Lanes -> Breaker] /\ proxy \in [Lanes -> Proxies]
  /\ gen \in [Lanes -> Nat] /\ lock \in [Lanes -> Calls \cup {NoCall}]
  /\ nextLane \in Lanes /\ cursor \in DOMAIN Urls
  /\ bad \subseteq Proxies /\ rotating \in Calls \cup {NoCall}
  /\ loaded \in BOOLEAN
  /\ row \in [Lanes \X Proxies -> Breaker \cup {NoRow}]
  /\ pc \in [Calls -> {"idle", "load", "persist", "acquire", "sent", "save",
                       "rotate", "ask", "close", "keep", "curl"}]
  /\ at \in [Calls -> (Lanes \X Nat) \cup {NoLane}]
  /\ attempts \in [Calls -> Nat]
  /\ outcome \in [Calls -> {"none", "ok", "blocked", "lost"}]
  /\ draft \in [Calls -> Breaker]
  /\ budget \in [LaneEvents -> Nat]

\* __init__.
InitWith(events) ==
  /\ network \in Networks
  /\ breaker = [l \in Lanes |-> Fresh]
  /\ proxy = [l \in Lanes |-> Urls[l]]
  /\ gen = [l \in Lanes |-> 0]
  /\ lock = [l \in Lanes |-> NoCall]
  /\ nextLane = 1 /\ cursor = (LaneCount % Len(Urls)) + 1
  /\ bad = {} /\ rotating = NoCall
  /\ loaded = FALSE
  /\ pc = [c \in Calls |-> "idle"] /\ at = [c \in Calls |-> NoLane]
  /\ attempts = [c \in Calls |-> 0] /\ outcome = [c \in Calls |-> "none"]
  /\ draft = [c \in Calls |-> Fresh]
  /\ row = [i \in Lanes \X Proxies |-> NoRow]
  /\ budget = events

Init == InitWith(LaneBudget)

Spend(kind) ==
  /\ budget[kind] > 0
  /\ budget' = [budget EXCEPT ![kind] = @ - 1]

Goes(c, label) == pc' = [pc EXCEPT ![c] = label]
LaneId(l) == <<l, proxy[l]>>
Object(l) == <<l, gen[l]>>
Held(c) == at[c][1]

\* The lanes have the state of their rows.
Started == loaded \/ \E c \in Calls : pc[c] = "persist"

\* The call lets go of its lane object; a replacement has a lock of its own.
\* (Broken: only after an answer that is no error.)
ReleaseOkOnly(c) ==
  lock' = [l \in Lanes |-> IF at[c] = Object(l) /\ outcome[c] = "ok"
                           THEN NoCall ELSE lock[l]]
Release(c) ==
  lock' = [l \in Lanes |-> IF at[c] = Object(l) THEN NoCall ELSE lock[l]]

\* get returns or raises.
Return(c) ==
  /\ Goes(c, "idle") /\ at' = [at EXCEPT ![c] = NoLane]
  /\ attempts' = [attempts EXCEPT ![c] = 0]
  /\ outcome' = [outcome EXCEPT ![c] = "none"]

\* (Broken: the rotation lock is kept.)
KeepRotation(c) == UNCHANGED rotating
FreeRotation(c) == rotating' = IF rotating = c THEN NoCall ELSE rotating

\* The next attempt, or the fallback through the last proxy.
Retry(c) ==
  /\ Goes(c, IF attempts[c] < MaxAttempts THEN "acquire" ELSE "curl")
  /\ at' = [at EXCEPT ![c] = NoLane]
  /\ outcome' = [outcome EXCEPT ![c] = "none"]
  /\ UNCHANGED attempts

-----------------------------------------------------------------------------
\* get.

Begin(c) ==
  /\ pc[c] = "idle" /\ Spend("get")
  /\ Goes(c, IF network = "direct" THEN "sent" ELSE "load")
  /\ UNCHANGED <<network, laneVars, loaded, row, at, attempts, outcome, draft>>

\* _ensure_runtime_state, under its lock: the lanes of __init__ take over the
\* state of their rows ...
LoadRows(c) ==
  /\ pc[c] = "load"
  /\ \/ loaded /\ Goes(c, "acquire") /\ UNCHANGED breaker
     \/ /\ ~Started
        /\ breaker' = [l \in Lanes |->
                          IF l \notin InUse \/ row[LaneId(l)] = NoRow
                          THEN breaker[l] ELSE Restored(row[LaneId(l)])]
        /\ Goes(c, "persist")
  /\ UNCHANGED <<network, proxy, gen, lock, nextLane, cursor, bad, rotating,
                 loaded, row, at, attempts, outcome, draft, budget>>

\* ... and save it again, over what another client has saved meanwhile.
SaveRows(c) ==
  /\ pc[c] = "persist"
  /\ row' = [i \in Lanes \X Proxies |->
               IF i[1] \in InUse /\ i = LaneId(i[1]) THEN breaker[i[1]] ELSE row[i]]
  /\ loaded' = TRUE
  /\ Goes(c, "acquire")
  /\ UNCHANGED <<network, laneVars, at, attempts, outcome, draft, budget>>

\* A lane that _acquire_lane may take.  (Broken: whoever holds it.)
UsableToo(l) == Available(breaker[l])
Usable(l) == lock[l] = NoCall /\ Available(breaker[l])

\* The round of _acquire_lane stops at lane l.
Turns(l) ==
  LET n == IF network = "pool" THEN LaneCount ELSE 1
      hits == {i \in 0..(n - 1) : Usable(Ring(nextLane, i, n))}
  IN  hits # {} /\ l = Ring(nextLane, Least(hits), n)

\* _next_lane behind lane l.  (Broken: past the last lane.)
PastLane(l) == l + 1
AfterLane(l) == IF network = "pool" THEN Ring(l, 1, LaneCount) ELSE 1

AcquireLane(c) ==
  /\ pc[c] = "acquire"
  /\ \E l \in InUse :
       /\ Turns(l)
       /\ lock' = [lock EXCEPT ![l] = c]
       /\ at' = [at EXCEPT ![c] = Object(l)]
       /\ nextLane' = AfterLane(l)
  /\ attempts' = [attempts EXCEPT ![c] = @ + 1]
  /\ Goes(c, "sent")
  /\ UNCHANGED <<network, breaker, proxy, gen, cursor, bad, rotating, loaded,
                 row, outcome, draft, budget>>

\* Every lane cools and none is locked: CircuitOpenError.  As long as one is
\* locked the call sleeps and looks again.
RefuseAll(c) ==
  /\ pc[c] = "acquire"
  /\ \A l \in InUse : lock[l] = NoCall /\ ~Available(breaker[l])
  /\ Return(c)
  /\ UNCHANGED <<network, laneVars, loaded, row, draft, budget>>

\* The answer of the lane's proxy, and what it leaves in the breaker.
Answered(c, b, result) ==
  /\ breaker' = [breaker EXCEPT ![Held(c)] = b]
  /\ outcome' = [outcome EXCEPT ![c] = result]
  /\ Goes(c, "save")
  /\ UNCHANGED <<network, proxy, gen, lock, nextLane, cursor, bad, loaded, row,
                 at, attempts, draft>>

OnLane(c) == pc[c] = "sent" /\ network # "direct"

Succeed(c) ==
  /\ OnLane(c)
  /\ Answered(c, Succeeded(breaker[Held(c)]), "ok")
  /\ UNCHANGED <<rotating, budget>>

\* 403, 407, 418, 429, 502, 503 or 504.
Block(c) ==
  /\ OnLane(c) /\ Spend("block")
  /\ Answered(c, Failed(breaker[Held(c)], Threshold), "blocked")
  /\ UNCHANGED rotating

\* httpx.TransportError.
Lose(c) ==
  /\ OnLane(c) /\ Spend("lost")
  /\ Answered(c, Failed(breaker[Held(c)], Threshold), "lost")
  /\ UNCHANGED rotating

\* Any other status from 400 on is raised and recorded nowhere.
Raise(c) ==
  /\ OnLane(c) /\ Spend("error")
  /\ Release(c) /\ Return(c)
  /\ UNCHANGED <<network, breaker, proxy, gen, nextLane, cursor, bad, rotating,
                 loaded, row, draft>>

\* _persist_lane, and what comes after it.
Save(c) ==
  /\ pc[c] = "save"
  /\ row' = [row EXCEPT ![LaneId(Held(c))] = breaker[Held(c)]]
  /\ \/ outcome[c] = "ok" /\ Return(c) /\ Release(c)
     \/ outcome[c] # "ok" /\ ~Rotates /\ Retry(c) /\ Release(c)
     \/ /\ outcome[c] # "ok" /\ Rotates
        /\ Goes(c, "rotate") /\ UNCHANGED <<at, attempts, outcome, lock>>
  /\ UNCHANGED <<network, breaker, proxy, gen, nextLane, cursor, bad, rotating,
                 loaded, draft, budget>>

-----------------------------------------------------------------------------
\* _replace_lane.

\* active | {lane.proxy_url}.  (Broken: the other lanes' proxies may be chosen.)
OwnProxy(l) == {proxy[l]}
ActiveProxies(l) == {proxy[m] : m \in Lanes}

Install(c, l, url) ==
  /\ breaker' = [breaker EXCEPT ![l] = Fresh]
  /\ proxy' = [proxy EXCEPT ![l] = url]
  /\ gen' = [gen EXCEPT ![l] = @ + 1]
  /\ lock' = [lock EXCEPT ![l] = NoCall]
  /\ rotating' = c
  /\ Goes(c, "close")

RotateInPool(c) ==
  /\ pc[c] = "rotate" /\ network = "pool" /\ rotating = NoCall
  /\ LET l == Held(c)
         excluded == ActiveProxies(l) \cup bad
     IN  /\ bad' = bad \cup {proxy[l]}
         /\ IF Found(Urls, cursor, excluded) = {}
            THEN /\ Release(c) /\ Retry(c)
                 /\ UNCHANGED <<breaker, proxy, gen, cursor, rotating>>
            ELSE /\ Install(c, l, NextUrl(Urls, cursor, excluded))
                 /\ cursor' = NextCursor(Urls, cursor, excluded)
                 /\ UNCHANGED <<at, attempts, outcome>>
  /\ UNCHANGED <<network, nextLane, loaded, row, draft, budget>>

AskProvider(c) ==
  /\ pc[c] = "rotate" /\ network = "provider" /\ rotating = NoCall
  /\ rotating' = c
  /\ Goes(c, "ask")
  /\ UNCHANGED <<network, breaker, proxy, gen, lock, nextLane, cursor, bad,
                 loaded, row, at, attempts, outcome, draft, budget>>

ProviderRotates(c) ==
  /\ pc[c] = "ask"
  /\ Install(c, Held(c), proxy[Held(c)])
  /\ UNCHANGED <<network, nextLane, cursor, bad, loaded, row, at, attempts,
                 outcome, draft, budget>>

\* The rotation request fails: get raises ...
ProviderRefuses(c) ==
  /\ pc[c] = "ask" /\ Spend("rotate")
  /\ Release(c) /\ Return(c) /\ FreeRotation(c)
  /\ UNCHANGED <<network, breaker, proxy, gen, nextLane, cursor, bad, loaded,
                 row, draft>>

\* ... unless it is a transport error behind a blocked answer, which is taken
\* for one of the lane: the failure is counted twice and a rotation tried again.
ProviderLost(c) ==
  /\ pc[c] = "ask" /\ outcome[c] = "blocked" /\ Spend("rotate")
  /\ Answered(c, Failed(breaker[Held(c)], Threshold), "lost")
  /\ FreeRotation(c)

\* The old client is closed, and the replacement's state read to be saved:
\* another call may have used it by then, and may save before this one does.
CloseOld(c) ==
  /\ pc[c] = "close"
  /\ draft' = [draft EXCEPT ![c] = breaker[Held(c)]]
  /\ Goes(c, "keep")
  /\ UNCHANGED <<network, laneVars, loaded, row, at, attempts, outcome, budget>>

SaveReplacement(c) ==
  /\ pc[c] = "keep"
  /\ row' = [row EXCEPT ![LaneId(Held(c))] = draft[c]]
  /\ draft' = [draft EXCEPT ![c] = Fresh]
  /\ FreeRotation(c)
  /\ Release(c) /\ Retry(c)
  /\ UNCHANGED <<network, breaker, proxy, gen, nextLane, cursor, bad, loaded,
                 budget>>

-----------------------------------------------------------------------------
\* A statement on session_lanes fails, and get with it.
SaveFails(c) ==
  /\ \/ pc[c] = "load" /\ ~loaded
     \/ pc[c] \in {"persist", "save", "keep"}
  /\ Spend("save")
  /\ Release(c) /\ Return(c)
  /\ FreeRotation(c)
  /\ draft' = [draft EXCEPT ![c] = Fresh]
  /\ UNCHANGED <<network, breaker, proxy, gen, nextLane, cursor, bad, loaded,
                 row>>

\* _get_curl_fallback returns or raises.
Curl(c) ==
  /\ pc[c] = "curl"
  /\ Return(c)
  /\ UNCHANGED <<network, laneVars, loaded, row, draft, budget>>

\* _get_direct: a transport error is tried again, and after the last attempt
\* left to curl; an answer of the WAF is left to curl at once.
OnDirect(c) == pc[c] = "sent" /\ network = "direct"

DirectEnds(c) ==
  /\ OnDirect(c)
  /\ Return(c)
  /\ UNCHANGED <<network, laneVars, loaded, row, draft, budget>>

DirectFails(c) ==
  /\ OnDirect(c)
  /\ \/ Spend("block") /\ Goes(c, "curl")
     \/ /\ Spend("lost")
        /\ Goes(c, IF attempts[c] + 1 < MaxAttempts THEN "sent" ELSE "curl")
  /\ attempts' = [attempts EXCEPT ![c] = @ + 1]
  /\ UNCHANGED <<network, laneVars, loaded, row, at, outcome, draft>>

\* The process is killed and started again: the rows are what is left.
Kill ==
  /\ Spend("kill")
  /\ breaker' = [l \in Lanes |-> Fresh]
  /\ proxy' = [l \in Lanes |-> Urls[l]]
  /\ gen' = [l \in Lanes |-> 0]
  /\ lock' = [l \in Lanes |-> NoCall]
  /\ nextLane' = 1 /\ cursor' = (LaneCount % Len(Urls)) + 1
  /\ bad' = {} /\ rotating' = NoCall
  /\ loaded' = FALSE
  /\ pc' = [c \in Calls |-> "idle"] /\ at' = [c \in Calls |-> NoLane]
  /\ attempts' = [c \in Calls |-> 0] /\ outcome' = [c \in Calls |-> "none"]
  /\ draft' = [c \in Calls |-> Fresh]
  /\ UNCHANGED <<network, row>>

-----------------------------------------------------------------------------
\* Another client saves its breaker of a lane, whatever the row says.
OtherSaves(i) ==
  /\ network # "direct" /\ Spend("other")
  /\ \E b \in OtherBreakers : row' = [row EXCEPT ![i] = b]
  /\ UNCHANGED <<network, laneVars, loaded, callVars>>

\* Time.  A row that says what its lane does cools with it; another row, or an
\* older one, on its own.  A proxy is marked after its lane's breaker opened.

Saved(l) == row[LaneId(l)] = breaker[l]

CoolLane(l) ==
  /\ breaker[l].cooling
  /\ breaker' = [breaker EXCEPT ![l] = Cooled(@)]
  /\ row' = IF Saved(l) THEN [row EXCEPT ![LaneId(l)] = Cooled(@)] ELSE row
  /\ UNCHANGED <<network, proxy, gen, lock, nextLane, cursor, bad, rotating,
                 loaded, callVars, budget>>

CoolRow(i) ==
  /\ row[i].cooling
  /\ ~(i = LaneId(i[1]) /\ Saved(i[1]))
  /\ row' = [row EXCEPT ![i] = Cooled(@)]
  /\ UNCHANGED <<network, laneVars, loaded, callVars, budget>>

CoolProxy(p) ==
  /\ p \in bad /\ \A l \in Lanes : proxy[l] = p => ~breaker[l].cooling
  /\ bad' = bad \ {p}
  /\ UNCHANGED <<network, breaker, proxy, gen, lock, nextLane, cursor, rotating,
                 loaded, row, callVars, budget>>

-----------------------------------------------------------------------------

Answer(c) == Succeed(c) \/ Block(c) \/ Lose(c) \/ Raise(c)

Proceed(c) ==
  \/ LoadRows(c) \/ SaveRows(c) \/ AcquireLane(c) \/ RefuseAll(c)
  \/ Answer(c) \/ Save(c)
  \/ RotateInPool(c) \/ AskProvider(c) \/ ProviderRotates(c)
  \/ ProviderRefuses(c) \/ ProviderLost(c) \/ CloseOld(c) \/ SaveReplacement(c)
  \/ SaveFails(c) \/ Curl(c) \/ DirectEnds(c) \/ DirectFails(c)

Next ==
  \/ \E c \in Calls : Begin(c) \/ Proceed(c)
  \/ Kill
  \/ \E l \in Lanes : CoolLane(l)
  \/ \E i \in Lanes \X Proxies : CoolRow(i) \/ OtherSaves(i)
  \/ \E p \in Proxies : CoolProxy(p)

Spec == Init /\ [][Next]_vars

\* A runnable coroutine runs, and every request and statement has a timeout.
Fairness == \A c \in Calls : WF_vars(Proceed(c))

FairSpec == Spec /\ Fairness

-----------------------------------------------------------------------------
\* Properties.

OnObject(c) == network # "direct" /\ pc[c] \in {"sent", "save", "rotate", "ask"}

\* No client is closed under a request: a call that works on a lane object has
\* the lock of the lane as it is now, alone, whatever is replaced meanwhile.
LaneHeldByOne ==
  /\ \A c \in Calls : OnObject(c) =>
       \E l \in InUse : at[c] = Object(l) /\ lock[l] = c
  /\ \A l \in Lanes : lock[l] # NoCall =>
       OnObject(lock[l]) /\ Held(lock[l]) = l

\* No two lanes of a pool ever share an address, in whatever order they fail.
DistinctProxies ==
  \A l, m \in InUse : proxy[l] = proxy[m] => l = m

\* Whether a lane cools for this client: until it has started, its row tells.
Cools(l) == IF Started THEN breaker[l].cooling ELSE row[LaneId(l)].cooling

\* A client that starts takes over the cooldowns that are stored for its lanes,
\* and from then on no lane is acquired and no cooldown dropped but by time,
\* whatever is rotated, fails or is saved by other clients; a start that fails
\* or is killed leaves it to the row again.  With one proxy the client's own
\* steps and kills keep the row too.  Said of the lanes alone: the curl fallback
\* takes none.  Not said of the rows: another client may overwrite one, and so
\* may the save of a replacement.
CooldownOutlivesRestart ==
  [][\A l \in InUse : Cools(l) /\ lock[l] = NoCall =>
       \/ UNCHANGED <<loaded, callVars>>
       \/ /\ lock'[l] = NoCall
          /\ Cools(l)' \/ (Started /\ ~Started')
          /\ network = "proxy" /\ row[LaneId(l)].cooling =>
               row'[LaneId(l)].cooling]_vars

\* Every get returns or raises: the lanes it waits for are released on every way
\* out, the rotations that fail included.
GetEnds == \A c \in Calls : pc[c] # "idle" ~> pc[c] = "idle"

=============================================================================
