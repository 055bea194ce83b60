----------------------------- MODULE EntityStore -----------------------------
(***************************************************************************)
(* PostgresEntityRepository.persist, the bulk replay and the row locks of  *)
(* enqueue, statement by statement.  PostgreSQL runs them READ COMMITTED:  *)
(* a statement reads what is committed when it starts, and the row of an   *)
(* entity in source_entities is locked by the upsert that ensures it until *)
(* the transaction ends.  A transaction keeps what it wrote to itself      *)
(* until it commits.                                                       *)
(***************************************************************************)
EXTENDS EntityBatches

CONSTANTS
  Sessions,    \* database sessions, of any processes
  NoSession,
  Budget       \* transactions begun and failed

VARIABLES
  lock,       \* the session that holds an entity's row
  pc,         \* where each transaction is
  batch,      \* what it writes
  todo,       \* entities its loop has not reached yet
  seen,       \* previous_hash, as it was read
  wrote,      \* entities whose content it has written
  previous,   \* and the contents it replaces
  stale,      \* stale_ids, as they were selected
  dropped,    \* relations it has deleted
  budget

txVars == <<lock, pc, batch, todo, seen, wrote, previous, stale, dropped>>
vars == <<storeVars, txVars, budget>>

ASSUME SessionsAssumption ==
  /\ NoSession \notin Sessions
  /\ Budget \in [{"begin", "fail"} -> Nat]

Relation == Entities \X Entities
Unfetched == [e \in Entities |-> NoContent]
NoBatch == [kind |-> "enqueue", listed |-> {}, fetched |-> Unfetched,
            relations |-> {}]

TypeOK ==
  /\ hash \in [Entities -> Versions] /\ children \in [Entities -> Versions]
  /\ revisions \in [Entities -> Seq(Contents)] /\ related \subseteq Relation
  /\ lock \in [Entities -> Sessions \cup {NoSession}]
  /\ pc \in [Sessions -> {"idle", "ensure", "read", "write", "reconcile",
                          "delete", "commit"}]
  /\ batch \in [Sessions -> Batches \cup {NoBatch}]
  /\ todo \in [Sessions -> SUBSET Entities]
  /\ seen \in [Sessions -> Versions]
  /\ wrote \in [Sessions -> SUBSET Entities]
  /\ previous \in [Sessions -> [Entities -> Versions]]
  /\ stale \in [Sessions -> SUBSET Relation]
  /\ dropped \in [Sessions -> SUBSET Relation]
  /\ budget \in [{"begin", "fail"} -> Nat]

InitWith(events) ==
  /\ StoreInit
  /\ lock = [e \in Entities |-> NoSession]
  /\ pc = [s \in Sessions |-> "idle"]
  /\ batch = [s \in Sessions |-> NoBatch]
  /\ todo = [s \in Sessions |-> {}]
  /\ seen = [s \in Sessions |-> NoContent]
  /\ wrote = [s \in Sessions |-> {}]
  /\ previous = [s \in Sessions |-> Unfetched]
  /\ stale = [s \in Sessions |-> {}]
  /\ dropped = [s \in Sessions |-> {}]
  /\ budget = events

Init == InitWith(Budget)

Spend(kind) ==
  /\ budget[kind] > 0
  /\ budget' = [budget EXCEPT ![kind] = @ - 1]

Goes(s, label) == pc' = [pc EXCEPT ![s] = label]
Remaining(s, S) == todo' = [todo EXCEPT ![s] = S]

\* Every identity a batch names: its entities and both ends of its relations.
\* (Broken: the parents of relations are not ensured.)
WithoutParents(b) ==
  b.listed \cup Fetched(b) \cup {r[2] : r \in b.relations}
Identities(b) ==
  b.listed \cup Fetched(b)
    \cup {r[1] : r \in b.relations} \cup {r[2] : r \in b.relations}

\* sorted(identities.values()).  (Broken: in the order of the batch, the
\* envelopes first.)
Lowest(S) == CHOOSE e \in S : \A f \in S : e <= f
InBatchOrder(s, S) ==
  IF S \cap Fetched(batch[s]) = {} THEN Lowest(S)
  ELSE Lowest(S \cap Fetched(batch[s]))
Following(s, S) == Lowest(S)

Item(s) == Following(s, todo[s])

-----------------------------------------------------------------------------

Begin(s, b) ==
  /\ pc[s] = "idle" /\ Spend("begin")
  /\ batch' = [batch EXCEPT ![s] = b]
  /\ Goes(s, "ensure") /\ Remaining(s, Identities(b))
  /\ UNCHANGED <<storeVars, lock, seen, wrote, previous, stale, dropped>>

\* _ensure_source_entity: waits for the row while another session holds it.
Ensure(s) ==
  /\ pc[s] = "ensure" /\ todo[s] # {}
  /\ lock[Item(s)] = NoSession
  /\ lock' = [lock EXCEPT ![Item(s)] = s]
  /\ Remaining(s, todo[s] \ {Item(s)})
  /\ UNCHANGED <<storeVars, pc, batch, seen, wrote, previous, stale, dropped,
                 budget>>

\* A loop is over.
Ensured(s) ==
  /\ pc[s] = "ensure" /\ todo[s] = {}
  /\ IF batch[s].kind = "persist"
     THEN Goes(s, "read") /\ Remaining(s, Fetched(batch[s]))
     ELSE Goes(s, "commit") /\ UNCHANGED todo
  /\ UNCHANGED <<storeVars, lock, batch, seen, wrote, previous, stale, dropped,
                 budget>>

Saved(s) ==
  /\ pc[s] = "read" /\ todo[s] = {}
  /\ Goes(s, "reconcile") /\ Remaining(s, Fetched(batch[s]))
  /\ UNCHANGED <<storeVars, lock, batch, seen, wrote, previous, stale, dropped,
                 budget>>

\* The relations of the batch are upserted behind this loop; nothing else is
\* read of them before the commit.
Reconciled(s) ==
  /\ pc[s] = "reconcile" /\ todo[s] = {}
  /\ Goes(s, "commit")
  /\ UNCHANGED <<storeVars, lock, batch, todo, seen, wrote, previous, stale,
                 dropped, budget>>

\* _persist_envelope reads the current hash ...
ReadHash(s) ==
  /\ pc[s] = "read" /\ todo[s] # {}
  /\ seen' = [seen EXCEPT ![s] = hash[Item(s)]]
  /\ Goes(s, "write")
  /\ UNCHANGED <<storeVars, lock, batch, todo, wrote, previous, stale, dropped,
                 budget>>

\* ... and when the content is another one writes the revision, the row, the
\* hash and the children.
WriteEnvelope(s) ==
  /\ pc[s] = "write"
  /\ IF seen[s] = batch[s].fetched[Item(s)] THEN UNCHANGED <<wrote, previous>>
     ELSE /\ wrote' = [wrote EXCEPT ![s] = @ \cup {Item(s)}]
          /\ previous' = [previous EXCEPT ![s][Item(s)] = seen[s]]
  /\ Goes(s, "read") /\ Remaining(s, todo[s] \ {Item(s)})
  /\ UNCHANGED <<storeVars, lock, batch, seen, stale, dropped, budget>>

\* _reconcile_relations selects the relations of a parent that the batch does
\* not have ...
SelectStale(s) ==
  /\ pc[s] = "reconcile" /\ todo[s] # {}
  /\ stale' = [stale EXCEPT ![s] =
                 {r \in related : r[1] = Item(s)} \ batch[s].relations]
  /\ Goes(s, "delete")
  /\ UNCHANGED <<storeVars, lock, batch, todo, seen, wrote, previous, dropped,
                 budget>>

\* ... and deletes them.
DeleteStale(s) ==
  /\ pc[s] = "delete"
  /\ dropped' = [dropped EXCEPT ![s] = @ \cup stale[s]]
  /\ Goes(s, "reconcile") /\ Remaining(s, todo[s] \ {Item(s)})
  /\ UNCHANGED <<storeVars, lock, batch, seen, wrote, previous, stale, budget>>

\* The transaction is over: its locks go, and with them its drafts.
Close(s) ==
  /\ lock' = [e \in Entities |-> IF lock[e] = s THEN NoSession ELSE lock[e]]
  /\ Goes(s, "idle") /\ Remaining(s, {})
  /\ batch' = [batch EXCEPT ![s] = NoBatch]
  /\ seen' = [seen EXCEPT ![s] = NoContent]
  /\ wrote' = [wrote EXCEPT ![s] = {}]
  /\ previous' = [previous EXCEPT ![s] = Unfetched]
  /\ stale' = [stale EXCEPT ![s] = {}]
  /\ dropped' = [dropped EXCEPT ![s] = {}]

\* "if previous and self.revision_mode": a first content replaces none.  (Broken:
\* without looking for a previous row.)
SupersedesAny(s, e) == Revisions /\ e \in wrote[s]
Supersedes(s, e) ==
  Revisions /\ e \in wrote[s] /\ previous[s][e] # NoContent

CommitPersist(s) ==
  /\ Written(batch[s], wrote[s])
  /\ children' = [e \in Entities |->
                    IF e \in wrote[s] THEN batch[s].fetched[e] ELSE children[e]]
  /\ revisions' = [e \in Entities |->
                     IF Supersedes(s, e)
                     THEN Append(revisions[e], previous[s][e])
                     ELSE revisions[e]]
  /\ related' = (related \ dropped[s]) \cup batch[s].relations

Commit(s) ==
  /\ pc[s] = "commit"
  /\ CASE batch[s].kind = "persist" -> CommitPersist(s)
       [] batch[s].kind = "replay" -> Replay(batch[s])
       [] batch[s].kind = "enqueue" -> UNCHANGED storeVars
  /\ Close(s)
  /\ UNCHANGED budget

\* A failed statement, a timeout, a killed process: everything is rolled back.
RollBack(s) ==
  /\ pc[s] # "idle" /\ Spend("fail")
  /\ Close(s)
  /\ UNCHANGED storeVars

-----------------------------------------------------------------------------

Step(s) ==
  \/ Ensure(s) \/ Ensured(s) \/ ReadHash(s) \/ WriteEnvelope(s) \/ Saved(s)
  \/ SelectStale(s) \/ DeleteStale(s) \/ Reconciled(s) \/ Commit(s)

Next ==
  \E s \in Sessions :
    Step(s) \/ RollBack(s) \/ \E b \in Batches : Begin(s, b)

Spec == Init /\ [][Next]_vars

\* PostgreSQL runs the statements of a session, and grants a free row.  Its
\* deadlock detector, which fails one of the sessions, is left out.
Fairness == \A s \in Sessions : WF_vars(Step(s))

FairSpec == Spec /\ Fairness

-----------------------------------------------------------------------------
\* Properties.

\* persist is atomic although its statements read at different moments: what is
\* committed changes as if each batch had been written in one step, its
\* revisions holding what it replaced and the relations of its parents being
\* its own.
PersistsAreAtomic == StoreSpec

\* No two transactions wait for each other's rows, whatever their batches have
\* in common (the upserts go in sorted order): each one ends without the help
\* of the deadlock detector.
TransactionsEnd ==
  \A s \in Sessions : pc[s] # "idle" ~> pc[s] = "idle"

=============================================================================
