---------------------------- MODULE EntityBatches ----------------------------
(***************************************************************************)
(* What PostgresEntityRepository.persist promises its callers: each batch  *)
(* of entities and relations is written as if nobody else were writing.    *)
(* An entity's content is one value, its hash and the row of its type;     *)
(* type, payload and time of a relation are left out.                      *)
(***************************************************************************)
EXTENDS Naturals, Sequences

CONSTANTS
  Entities,    \* identities, numbered in the order of _identity_sort_key
  Contents,    \* what a source may say of an entity
  NoContent,   \* nothing was persisted yet
  Batches,     \* the batches the callers write
  Revisions    \* revision_mode = "changes"

Versions == Contents \cup {NoContent}

\* persist writes entities and relations, the bulk replay lots alone, enqueue
\* (listed) only makes sure that the rows of source_entities exist.
Batch == [kind: {"persist", "replay", "enqueue"},
          listed: SUBSET Entities,
          fetched: [Entities -> Versions],
          relations: SUBSET (Entities \X Entities)]

ASSUME BatchesAssumption ==
  /\ Entities \subseteq Nat
  /\ NoContent \notin Contents
  /\ Batches \subseteq Batch
  /\ Revisions \in BOOLEAN

VARIABLES
  hash,       \* current_content_hash, and the row of the entity's type
  children,   \* the content whose places, documents and terms are stored
  revisions,  \* entity_revisions of an entity
  related     \* entity_relations, as <<parent, child>>

storeVars == <<hash, children, revisions, related>>

StoreInit ==
  /\ hash = [e \in Entities |-> NoContent]
  /\ children = [e \in Entities |-> NoContent]
  /\ revisions = [e \in Entities |-> <<>>]
  /\ related = {}

Fetched(b) == {e \in Entities : b.fetched[e] # NoContent}

\* The contents a persist replaces.
Changed(b) == {e \in Fetched(b) : b.fetched[e] # hash[e]}

Written(b, changed) ==
  hash' = [e \in Entities |-> IF e \in changed THEN b.fetched[e] ELSE hash[e]]

\* persist: a new content takes its children along and moves the one it
\* replaces to the revisions; the relations of a fetched parent become those of
\* the batch.
Persist(b) ==
  /\ b.kind = "persist"
  /\ Written(b, Changed(b))
  /\ children' = [e \in Entities |->
                    IF e \in Changed(b) THEN b.fetched[e] ELSE children[e]]
  /\ revisions' = [e \in Entities |->
                     IF Revisions /\ e \in Changed(b) /\ hash[e] # NoContent
                     THEN Append(revisions[e], hash[e]) ELSE revisions[e]]
  /\ related' = {r \in related : r[1] \notin Fetched(b)} \cup b.relations

\* The bulk replay writes no revision and no children.
Replay(b) ==
  /\ b.kind = "replay"
  /\ Written(b, Fetched(b))
  /\ UNCHANGED <<children, revisions, related>>

StoreNext == \E b \in Batches : Persist(b) \/ Replay(b)

StoreSpec == StoreInit /\ [][StoreNext]_storeVars

=============================================================================
