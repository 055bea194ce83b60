---------------------------- MODULE StackRequest ----------------------------
(***************************************************************************)
(* What ZakupLanes takes a request of a strategy stack for: one await that *)
(* ends as a success or as a block in both breakers, or as an exception in *)
(* neither.                                                                *)
(***************************************************************************)
EXTENDS CircuitBreaker

CONSTANTS LaneLimit, SourceLimit  \* thresholds of the two breakers

VARIABLES sent, laneBreaker, sourceBreaker

requestVars == <<sent, laneBreaker, sourceBreaker>>

RequestInit == sent = FALSE /\ laneBreaker = Fresh /\ sourceBreaker = Fresh

Refuse ==
  /\ ~sent
  /\ Refuses(sourceBreaker) \/ Refuses(laneBreaker)
  /\ sourceBreaker' = IF Refuses(sourceBreaker) THEN sourceBreaker
                      ELSE Allowed(sourceBreaker)
  /\ UNCHANGED <<sent, laneBreaker>>

Send ==
  /\ ~sent /\ ~Refuses(sourceBreaker) /\ ~Refuses(laneBreaker)
  /\ sent' = TRUE
  /\ sourceBreaker' = Allowed(sourceBreaker)
  /\ laneBreaker' = Allowed(laneBreaker)

Succeeds ==
  /\ sent /\ sent' = FALSE
  /\ laneBreaker' = Succeeded(laneBreaker)
  /\ sourceBreaker' = Succeeded(sourceBreaker)

IsBlocked ==
  /\ sent /\ sent' = FALSE
  /\ laneBreaker' = Failed(laneBreaker, LaneLimit)
  /\ sourceBreaker' = Failed(sourceBreaker, SourceLimit)

Raises == sent /\ sent' = FALSE /\ UNCHANGED <<laneBreaker, sourceBreaker>>

Cools ==
  /\ \/ laneBreaker' = Cooled(laneBreaker) /\ UNCHANGED sourceBreaker
     \/ sourceBreaker' = Cooled(sourceBreaker) /\ UNCHANGED laneBreaker
  /\ UNCHANGED sent

RequestNext ==
  Refuse \/ Send \/ Succeeds \/ IsBlocked \/ Raises \/ Cools

RequestSpec == RequestInit /\ [][RequestNext]_requestVars

=============================================================================
