------------------------------ MODULE Frontier ------------------------------
(***************************************************************************)
(* The durable queue: table crawl_frontier and crawl_task_history, and the *)
(* operations of PostgresFrontierRepository on them.  Each operator below  *)
(* is the effect of one committed transaction, except complete and fail,   *)
(* which read the row without locking it and delete it by primary key      *)
(* afterwards: those are a read (Current) and a separate write (Remove).   *)
(*                                                                         *)
(* The clock is abstracted to what the SQL compares with now():            *)
(*   lease : leased_until is NULL ("none"), >= now ("live"), < now         *)
(*           ("expired")                                                   *)
(*   due   : available_at <= now                                           *)
(* and priority to the one threshold the queries test:                     *)
(*   urgent: priority > 0 (a backfill-only claim takes priority <= 0).     *)
(* A row is unique for its task (source entity, task type); its primary    *)
(* key is the number of the task's insertion, counted by births.           *)
(***************************************************************************)
EXTENDS Integers, FiniteSets

CONSTANTS
  Tasks,       \* the (source entity, task type) pairs that may be queued
  Owners,      \* worker ids, the values of lease_owner
  NoOwner,     \* lease_owner IS NULL
  BatchLimit   \* claim_batch_size

ASSUME FrontierAssumption ==
  /\ NoOwner \notin Owners
  /\ BatchLimit \in Nat \ {0}

VARIABLES
  frontier,    \* the row of each task, NoRow when there is none
  births,      \* how many rows the task has had
  history      \* crawl_task_history

frontierVars == <<frontier, births, history>>

LeaseStates == {"none", "live", "expired"}

Row == [id: Nat, attempt: Nat, owner: Owners \cup {NoOwner},
        lease: LeaseStates, due: BOOLEAN, urgent: BOOLEAN]

NoRow == [id |-> 0, attempt |-> 0, owner |-> NoOwner,
          lease |-> "none", due |-> FALSE, urgent |-> FALSE]

\* FrontierTask as the worker holds it: what complete, fail, retry and
\* extend_lease match a row by.
Token == [task: Tasks, id: Nat, attempt: Nat]

Outcomes == {"success", "failed"}

Record == [task: Tasks, id: Nat, attempt: Nat, outcome: Outcomes]

FrontierType ==
  /\ frontier \in [Tasks -> Row]
  /\ births \in [Tasks -> Nat]
  /\ history \subseteq Record

\* Whatever rows discovery has left in the queue, nobody having claimed them.
FrontierInit ==
  /\ \E S \in SUBSET Tasks, U \in SUBSET Tasks :
       /\ births = [t \in Tasks |-> IF t \in S THEN 1 ELSE 0]
       /\ frontier = [t \in Tasks |->
                        IF t \in S
                        THEN [NoRow EXCEPT !.id = 1, !.due = TRUE,
                                           !.urgent = (t \in U)]
                        ELSE NoRow]
  /\ history = {}

-----------------------------------------------------------------------------

Queued(t) == frontier[t].id # 0

\* The WHERE clause of complete, fail and retry: this id at this attempt.
Current(k) ==
  /\ frontier[k.task].id = k.id
  /\ frontier[k.task].attempt = k.attempt

\* The WHERE clause of extend_lease.  It does not look at leased_until: a
\* lease that ran out and was not taken by anybody can still be extended.
\* (Broken: the row is matched by its id alone.)
HoldsById(w, k) == frontier[k.task].id = k.id
Holds(w, k) == Current(k) /\ frontier[k.task].owner = w

\* enqueue and enqueue_refresh, ON CONFLICT: a row that exists keeps its
\* attempt and its lease, becomes available at once and keeps the greater
\* priority.  (Broken: a row that exists is replaced.)
UpsertReplacing(t, urgent) ==
  [NoRow EXCEPT !.id = births[t] + 1, !.due = TRUE, !.urgent = urgent]
Upserted(t, urgent) ==
  IF Queued(t)
  THEN [frontier[t] EXCEPT !.due = TRUE, !.urgent = @ \/ urgent]
  ELSE [NoRow EXCEPT !.id = births[t] + 1, !.due = TRUE, !.urgent = urgent]

EnqueueAll(S, urgent) ==
  /\ frontier' = [t \in Tasks |->
                    IF t \in S THEN Upserted(t, urgent) ELSE frontier[t]]
  /\ births' = [t \in Tasks |->
                  IF t \in S /\ ~Queued(t) THEN births[t] + 1 ELSE births[t]]
  /\ UNCHANGED history

-----------------------------------------------------------------------------

\* WHERE available_at <= now() AND (leased_until IS NULL OR leased_until <
\* now()).  (Broken: the second half of the disjunction is missing.)
ClaimableUnleased(t, backfillOnly) ==
  /\ Queued(t)
  /\ frontier[t].due
  /\ frontier[t].lease = "none"
  /\ backfillOnly => ~frontier[t].urgent
Claimable(t, backfillOnly) ==
  /\ Queued(t)
  /\ frontier[t].due
  /\ frontier[t].lease # "live"
  /\ backfillOnly => ~frontier[t].urgent

\* What one claim may take: as many rows as the limit allows, the urgent ones
\* first.  Transactions are atomic here, so SKIP LOCKED skips nothing.
Picks(backfillOnly) ==
  LET ready == {t \in Tasks : Claimable(t, backfillOnly)}
  IN  {S \in SUBSET ready :
         /\ Cardinality(S) <= BatchLimit
         /\ S = ready \/ Cardinality(S) = BatchLimit
         /\ \A t \in S, u \in ready \ S :
              frontier[u].urgent => frontier[t].urgent}

\* attempt = q.attempt + 1.  (Broken: the attempt kept, or counted down.)
SameAttempt(t) == frontier[t].attempt
DownAttempt(t) == frontier[t].attempt - 1
NextAttempt(t) == frontier[t].attempt + 1

\* The tokens a claim of the tasks in S returns.
Claimed(S) ==
  {[task |-> t, id |-> frontier[t].id, attempt |-> NextAttempt(t)] : t \in S}

Claim(w, S) ==
  /\ frontier' = [t \in Tasks |->
                    IF t \in S
                    THEN [frontier[t] EXCEPT !.owner = w, !.lease = "live",
                                             !.attempt = NextAttempt(t)]
                    ELSE frontier[t]]
  /\ UNCHANGED <<births, history>>

\* extend_lease once its WHERE clause has matched.
Extend(k) ==
  /\ frontier' = [frontier EXCEPT ![k.task].lease = "live"]
  /\ UNCHANGED <<births, history>>

-----------------------------------------------------------------------------

Unleased(t) == [frontier[t] EXCEPT !.owner = NoOwner, !.lease = "none"]

UnleaseAll(S) ==
  /\ frontier' = [t \in Tasks |->
                    IF t \in S THEN Unleased(t) ELSE frontier[t]]
  /\ UNCHANGED <<births, history>>

OwnedBy(w) == {t \in Tasks : Queued(t) /\ frontier[t].owner = w}

\* release: the rows of these tokens, by id, that this worker owns.  (Broken:
\* RowsOf, without lease_owner = worker_id.)
RowsOf(w, ks) ==
  {t \in Tasks : \E k \in ks : k.task = t /\ k.id = frontier[t].id}
RowsOfOwner(w, ks) == RowsOf(w, ks) \cap OwnedBy(w)

Release(w, ks) == UnleaseAll(RowsOfOwner(w, ks))

ReleaseByOwner(w) == UnleaseAll(OwnedBy(w))

\* retry: one UPDATE, which does nothing when the attempt is not current.
\* Every delay the worker asks for is positive.
Retry(k) ==
  /\ frontier' = [frontier EXCEPT ![k.task] =
                    IF Current(k) THEN [Unleased(k.task) EXCEPT !.due = FALSE]
                                  ELSE @]
  /\ UNCHANGED <<births, history>>

\* The second half of complete and fail, after the SELECT found the row: the
\* history row is inserted and the row deleted by primary key, whatever has
\* happened to it in between.
Remove(k, outcome) ==
  /\ frontier' = [frontier EXCEPT ![k.task] =
                    IF @.id = k.id THEN NoRow ELSE @]
  /\ history' = history \cup {[task |-> k.task, id |-> k.id,
                               attempt |-> k.attempt, outcome |-> outcome]}
  /\ UNCHANGED births

-----------------------------------------------------------------------------
\* The clock and maintenance.

LeaseRunsOut(t) ==
  /\ frontier[t].lease = "live"
  /\ frontier' = [frontier EXCEPT ![t].lease = "expired"]
  /\ UNCHANGED <<births, history>>

BecomeDue(t) ==
  /\ Queued(t)
  /\ ~frontier[t].due
  /\ frontier' = [frontier EXCEPT ![t].due = TRUE]
  /\ UNCHANGED <<births, history>>

\* release_stale_leases
StaleLeases ==
  {t \in Tasks : frontier[t].owner # NoOwner /\ frontier[t].lease = "expired"}

ReleaseStale == StaleLeases # {} /\ UnleaseAll(StaleLeases)

-----------------------------------------------------------------------------

\* The queue by itself: any sequence of its operations, whoever calls them with
\* whatever tokens.
Operation ==
  \/ \E S \in SUBSET Tasks, urgent \in BOOLEAN : EnqueueAll(S, urgent)
  \/ \E w \in Owners, S \in SUBSET Tasks :
       /\ \A t \in S : Claimable(t, FALSE)
       /\ Claim(w, S)
  \/ \E S \in SUBSET Tasks : UnleaseAll(S)
  \/ \E k \in Token : Extend(k) \/ Retry(k)
  \/ \E k \in Token, outcome \in Outcomes : Remove(k, outcome)
  \/ \E t \in Tasks : LeaseRunsOut(t) \/ BecomeDue(t)

FrontierSpec == FrontierInit /\ [][Operation]_frontierVars

\* Zero lost tasks: each row that ever entered the queue is still there or has
\* left it through complete or fail, whatever loops crashed, were cancelled or
\* lost their lease on the way.
NoTaskLost ==
  \A t \in Tasks : \A i \in 1..births[t] :
    \/ frontier[t].id = i
    \/ \E h \in history : h.task = t /\ h.id = i

=============================================================================
