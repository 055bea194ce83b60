--------------------------- MODULE CaptchaSolvers ---------------------------
(***************************************************************************)
(* TwoCaptchaSolver, its manual fallback, and the two locks and the audit  *)
(* rows they share: a lock of the process' solver, a PostgreSQL advisory   *)
(* lock of the session lane, and captcha_challenges, whose costs of the    *)
(* last hour limit what may be bought.  Every solution costs 1.            *)
(***************************************************************************)
EXTENDS Naturals, FiniteSets

CONSTANTS
  Challenges, NoChallenge,  \* challenges that browsers may meet
  ProcessOf,                \* the process whose browser meets it
  LaneOf,                   \* the session lane of that browser
  SpendLimit,               \* max_cost_per_hour
  MaxTries,                 \* max_attempts
  ManualFallback,           \* fallback_provider = "manual"
  CaptchaBudget             \* bounds

\* Calls of solve, errors of the provider, transport errors, other exceptions,
\* failed statements, kills.
CaptchaEvents == {"solve", "error", "lost", "raise", "record", "kill"}

Processes == {ProcessOf[c] : c \in Challenges}
SessionLanes == {LaneOf[c] : c \in Challenges}

ASSUME CaptchaAssumption ==
  /\ NoChallenge \notin Challenges /\ IsFiniteSet(Processes)
  /\ DOMAIN ProcessOf = Challenges /\ DOMAIN LaneOf = Challenges
  /\ SpendLimit \in Nat \ {0} /\ MaxTries \in Nat \ {0}
  /\ ManualFallback \in BOOLEAN
  /\ CaptchaBudget \in [CaptchaEvents -> Nat]

VARIABLES
  solveLock,  \* _solve_lock of each process' solver
  laneLock,   \* the advisory lock of each lane
  stage,      \* where each solve is
  tries,
  recorded,   \* the cost of the last hour's successes in captcha_challenges
  captchaBudget

captchaVars == <<solveLock, laneLock, stage, tries, recorded, captchaBudget>>

CaptchaTypeOK ==
  /\ solveLock \in [Processes -> Challenges \cup {NoChallenge}]
  /\ laneLock \in [SessionLanes -> Challenges \cup {NoChallenge}]
  /\ stage \in [Challenges -> {"idle", "queued", "polling", "checking",
                               "asked", "solved", "failed", "lost",
                               "manual", "prompted"}]
  /\ tries \in [Challenges -> Nat]
  /\ recorded \in Nat
  /\ captchaBudget \in [CaptchaEvents -> Nat]

CaptchaInit(events) ==
  /\ solveLock = [p \in Processes |-> NoChallenge]
  /\ laneLock = [l \in SessionLanes |-> NoChallenge]
  /\ stage = [c \in Challenges |-> "idle"]
  /\ tries = [c \in Challenges |-> 0]
  /\ recorded = 0
  /\ captchaBudget = events

CaptchaSpend(kind) ==
  /\ captchaBudget[kind] > 0
  /\ captchaBudget' = [captchaBudget EXCEPT ![kind] = @ - 1]

Enters(c, s) == stage' = [stage EXCEPT ![c] = s]

\* (Broken: nothing is freed.)
FreedNever(locks, c) == locks
Freed(locks, c) ==
  [k \in DOMAIN locks |-> IF locks[k] = c THEN NoChallenge ELSE locks[k]]

\* TwoCaptchaSolver.solve is over, and with it the locks it holds.
Leaves(c, s) ==
  /\ Enters(c, s)
  /\ solveLock' = Freed(solveLock, c) /\ laneLock' = Freed(laneLock, c)
  /\ tries' = [tries EXCEPT ![c] = 0]

\* It raised CaptchaError: FallbackCaptchaSolver goes on by hand.
FallsBack(c) == Leaves(c, IF ManualFallback THEN "manual" ELSE "idle")

-----------------------------------------------------------------------------

Meet(c) ==
  /\ stage[c] = "idle" /\ CaptchaSpend("solve")
  /\ Enters(c, "queued")
  /\ UNCHANGED <<solveLock, laneLock, tries, recorded>>

EnterSolver(c) ==
  /\ stage[c] = "queued" /\ solveLock[ProcessOf[c]] = NoChallenge
  /\ solveLock' = [solveLock EXCEPT ![ProcessOf[c]] = c]
  /\ Enters(c, "polling")
  /\ UNCHANGED <<laneLock, tries, recorded, captchaBudget>>

\* pg_try_advisory_lock, asked for every second.  (Broken: the answer is not
\* looked at.)
GrantsAny(c) == TRUE
Grants(c) == laneLock[LaneOf[c]] = NoChallenge

LockLane(c) ==
  /\ stage[c] \in {"polling", "manual"} /\ Grants(c)
  /\ laneLock' = [laneLock EXCEPT ![LaneOf[c]] = c]
  /\ Enters(c, IF stage[c] = "polling" THEN "checking" ELSE "prompted")
  /\ UNCHANGED <<solveLock, tries, recorded, captchaBudget>>

\* _check_budget.  (Broken: one more solution may be bought.)
ExhaustedLate == recorded > SpendLimit
Exhausted == recorded >= SpendLimit

CheckBudget(c) ==
  /\ stage[c] = "checking"
  /\ IF Exhausted THEN FallsBack(c)
     ELSE Enters(c, "asked") /\ UNCHANGED <<solveLock, laneLock, tries>>
  /\ UNCHANGED <<recorded, captchaBudget>>

\* _solve_once: a token ...
Solve(c) ==
  /\ stage[c] = "asked"
  /\ Enters(c, "solved")
  /\ UNCHANGED <<solveLock, laneLock, tries, recorded, captchaBudget>>

\* ... a CaptchaError, also of a solution that was paid for and has no token, or
\* an HTTPError ...
SolveFails(c) ==
  /\ stage[c] = "asked"
  /\ \/ CaptchaSpend("error") /\ Enters(c, "failed")
     \/ CaptchaSpend("lost") /\ Enters(c, "lost")
  /\ UNCHANGED <<solveLock, laneLock, tries, recorded>>

\* ... or anything else, of which no row is written.
SolveRaises(c) ==
  /\ stage[c] = "asked" /\ CaptchaSpend("raise")
  /\ Leaves(c, "idle")
  /\ UNCHANGED recorded

\* _record_attempt.  The last try's error is raised; an HTTPError is none the
\* fallback is for.
RecordSuccess(c) ==
  /\ stage[c] = "solved"
  /\ recorded' = recorded + 1
  /\ Leaves(c, "idle")
  /\ UNCHANGED captchaBudget

RecordError(c) ==
  /\ stage[c] \in {"failed", "lost"}
  /\ IF tries[c] + 1 < MaxTries
     THEN /\ Enters(c, "checking") /\ tries' = [tries EXCEPT ![c] = @ + 1]
          /\ UNCHANGED <<solveLock, laneLock>>
     ELSE IF stage[c] = "failed" THEN FallsBack(c) ELSE Leaves(c, "idle")
  /\ UNCHANGED <<recorded, captchaBudget>>

\* A statement fails, and solve with it: of a solution that was paid for, no row
\* is left.
RecordFails(c) ==
  /\ stage[c] \in {"polling", "checking", "solved", "failed", "lost",
                   "manual", "prompted"}
  /\ CaptchaSpend("record")
  /\ Leaves(c, "idle")
  /\ UNCHANGED recorded

\* ManualCaptchaSolver: a person answers, or nobody can.
AnswerPrompt(c) ==
  /\ stage[c] = "prompted"
  /\ Leaves(c, "idle")
  /\ UNCHANGED <<recorded, captchaBudget>>

\* A process is killed; PostgreSQL drops the advisory locks of its connections.
KillSolver(p) ==
  /\ CaptchaSpend("kill")
  /\ LET gone == {c \in Challenges : ProcessOf[c] = p}
     IN  /\ stage' = [c \in Challenges |->
                        IF c \in gone THEN "idle" ELSE stage[c]]
         /\ tries' = [c \in Challenges |-> IF c \in gone THEN 0 ELSE tries[c]]
         /\ laneLock' = [l \in SessionLanes |->
                           IF laneLock[l] \in gone THEN NoChallenge
                           ELSE laneLock[l]]
  /\ solveLock' = [solveLock EXCEPT ![p] = NoChallenge]
  /\ UNCHANGED recorded

-----------------------------------------------------------------------------

CaptchaStep(c) ==
  \/ EnterSolver(c) \/ LockLane(c) \/ CheckBudget(c) \/ Solve(c)
  \/ SolveFails(c) \/ SolveRaises(c) \/ RecordSuccess(c) \/ RecordError(c)
  \/ RecordFails(c) \/ AnswerPrompt(c)

CaptchaNext ==
  \/ \E c \in Challenges : Meet(c) \/ CaptchaStep(c)
  \/ \E p \in Processes : KillSolver(p)

CaptchaSpec == CaptchaInit(CaptchaBudget) /\ [][CaptchaNext]_captchaVars

\* Each request, prompt and statement ends, and the polls go on.
CaptchaFairness == \A c \in Challenges : WF_captchaVars(CaptchaStep(c))

-----------------------------------------------------------------------------
\* Properties.

Solving(c) ==
  stage[c] \in {"checking", "asked", "solved", "failed", "lost", "prompted"}

\* A lane's challenge is solved by one at a time, by hand or not, whichever
\* processes use the lane and are killed meanwhile.
CaptchaSolvedAlone ==
  \A c, d \in Challenges :
    Solving(c) /\ Solving(d) /\ LaneOf[c] = LaneOf[d] => c = d

\* The budget is checked before a solution is bought and recorded after it; the
\* lock of each process keeps the overshoot below one solution for each process
\* but the one that reaches the limit.
SpendStaysBounded == recorded <= SpendLimit + Cardinality(Processes) - 1

\* Every solve ends, whatever fails and whoever else waits for the two locks.
CaptchaSolvesEnd == \A c \in Challenges : stage[c] # "idle" ~> stage[c] = "idle"

=============================================================================
