--------------------------- MODULE CircuitBreaker ---------------------------
(***************************************************************************)
(* CircuitBreaker as operators on its state: what each method returns or   *)
(* leaves behind.  No method awaits anything while it holds the breaker's  *)
(* lock, so each is one step.  The clock is abstracted to cooling, whether *)
(* opened_at is less than the cooldown ago.                                *)
(***************************************************************************)
EXTENDS Integers

BreakerStates == {"closed", "open", "half_open"}

Breaker == [state: BreakerStates, blocks: Nat, cooling: BOOLEAN,
            probe: BOOLEAN]

Fresh == [state |-> "closed", blocks |-> 0, cooling |-> FALSE,
          probe |-> FALSE]

\* allow raises CircuitOpenError.
Refuses(b) ==
  \/ b.state = "open" /\ b.cooling
  \/ b.state # "closed" /\ b.probe

\* allow returns: the caller is the half-open probe unless the state is closed.
Allowed(b) ==
  IF b.state = "closed" THEN b
  ELSE [b EXCEPT !.state = "half_open", !.probe = TRUE]

\* is_available.  (Broken: without the cooldown.)
AlwaysAvailable(b) == TRUE
Available(b) == b.state # "open" \/ ~b.cooling

\* record_success, and record_status of a status that is no block.
Succeeded(b) == Fresh

Opens(b, threshold) == b.state = "half_open" \/ b.blocks + 1 >= threshold

\* record_status of a block, and record_transport_failure.  (Broken: the probe
\* flag is not cleared.)
FailedKeepingProbe(b, threshold) ==
  IF Opens(b, threshold)
  THEN [b EXCEPT !.state = "open", !.blocks = @ + 1, !.cooling = TRUE]
  ELSE [b EXCEPT !.blocks = @ + 1]
Failed(b, threshold) ==
  IF Opens(b, threshold)
  THEN [state |-> "open", blocks |-> b.blocks + 1, cooling |-> TRUE,
        probe |-> FALSE]
  ELSE [b EXCEPT !.blocks = @ + 1, !.probe = FALSE]

\* restore, from what save_lane keeps of a breaker: everything but the probe.
\* (Broken: opened_at is not set.)
RestoredCooled(b) == [b EXCEPT !.probe = FALSE, !.cooling = FALSE]
Restored(b) == [b EXCEPT !.probe = FALSE]

\* The cooldown is over.
Cooled(b) == [b EXCEPT !.cooling = FALSE]

=============================================================================
