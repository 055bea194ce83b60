----------------------------- MODULE StoreProofs -----------------------------
(***************************************************************************)
(* Proofs about EntityStore, for any batches, sessions and budgets: its    *)
(* states are well typed, it implements the atomic writes of EntityBatches *)
(* because a transaction reads nothing but what it locked, and no          *)
(* transactions wait for each other in a ring.  Then the export of one     *)
(* snapshot, and the lots of a notice that a conversation misses.          *)
(***************************************************************************)
EXTENDS EntityStore, Exporter, NoticeLots, FiniteSetTheorems,
        WellFoundedInduction, TLAPS

LEMMA LowestIsIn ==
  ASSUME NEW S, S \subseteq Entities, S # {}
  PROVE  Lowest(S) \in S
<1> DEFINE R == OpToRel(<, Nat)
<1>0. S \subseteq Nat BY BatchesAssumption
<1>1. IsWellFoundedOn(R, Nat) BY NatLessThanWellFounded
<1>2. \A x, y \in Nat : y < x => <<y, x>> \in R BY DEF OpToRel
<1> HIDE DEF R
<1>3. PICK x \in S : \A y \in S : ~(<<y, x>> \in R) BY <1>0, <1>1, WFMin
<1>4. \A y \in S : x <= y
  <2> SUFFICES ASSUME NEW y \in S PROVE x <= y
    OBVIOUS
  <2>1. x \in Nat /\ y \in Nat BY <1>0
  <2>2. ~(y < x) BY <1>2, <1>3, <2>1
  <2> QED BY <2>1, <2>2
<1> QED BY <1>3, <1>4 DEF Lowest

LEMMA BatchFacts ==
  ASSUME NEW b \in Batches
  PROVE  /\ b.fetched \in [Entities -> Versions]
         /\ b.relations \subseteq Relation
         /\ Fetched(b) \subseteq Identities(b)
         /\ Identities(b) \subseteq Entities
         /\ Fetched(b) \subseteq Entities
         /\ \A r \in b.relations : r[1] \in Identities(b)
<1>1. b \in Batch BY BatchesAssumption
<1>2. /\ b.fetched \in [Entities -> Versions] /\ b.relations \subseteq Relation
      /\ b.listed \subseteq Entities
  BY <1>1 DEF Batch, Relation
<1>3. Fetched(b) \subseteq Entities BY DEF Fetched
<1> QED BY <1>2, <1>3 DEF Identities, Relation

-----------------------------------------------------------------------------

\* What a transaction has written of the entities in S, and dropped of the
\* relations whose parents are in S, against what is committed now.
Wrote(s, S) ==
  /\ wrote[s] = {e \in S : batch[s].fetched[e] # hash[e]}
  /\ \A e \in wrote[s] : previous[s][e] = hash[e]
Dropped(s, S) == dropped[s] = {r \in related : r[1] \in S} \ batch[s].relations

Rows(s) == Fetched(batch[s])

\* The rows of a transaction are locked from the upsert that ensures them on,
\* and all that it has read since is still what is committed.
TxInv(s) ==
  /\ pc[s] # "idle" =>
       /\ batch[s] \in Batches
       /\ \A e \in Identities(batch[s]) :
            lock[e] = s \/ (pc[s] = "ensure" /\ e \in todo[s])
  /\ pc[s] \in {"idle", "ensure"} => wrote[s] = {} /\ dropped[s] = {}
  /\ pc[s] = "ensure" => todo[s] \subseteq Identities(batch[s])
  /\ pc[s] \in {"read", "write"} =>
       /\ batch[s].kind = "persist" /\ todo[s] \subseteq Rows(s)
       /\ Wrote(s, Rows(s) \ todo[s]) /\ dropped[s] = {}
  /\ pc[s] = "write" => todo[s] # {} /\ seen[s] = hash[Item(s)]
  /\ pc[s] \in {"reconcile", "delete"} =>
       /\ batch[s].kind = "persist" /\ todo[s] \subseteq Rows(s)
       /\ Wrote(s, Rows(s)) /\ Dropped(s, Rows(s) \ todo[s])
  /\ pc[s] = "delete" =>
       /\ todo[s] # {}
       /\ stale[s] = {r \in related : r[1] = Item(s)} \ batch[s].relations
  /\ pc[s] = "commit" /\ batch[s].kind = "persist" =>
       Wrote(s, Rows(s)) /\ Dropped(s, Rows(s))

StoreInv == TypeOK /\ \A s \in Sessions : TxInv(s)

-----------------------------------------------------------------------------

\* Another session's step does not touch what a transaction has locked.
LEMMA Undisturbed ==
  ASSUME TypeOK, TypeOK', NEW t \in Sessions, TxInv(t),
         pc'[t] = pc[t], batch'[t] = batch[t], todo'[t] = todo[t],
         seen'[t] = seen[t], wrote'[t] = wrote[t], previous'[t] = previous[t],
         stale'[t] = stale[t], dropped'[t] = dropped[t],
         \A e \in Entities :
           lock[e] = t => lock'[e] = t /\ hash'[e] = hash[e],
         \A r \in Relation : lock[r[1]] = t => (r \in related' <=> r \in related)
  PROVE  TxInv(t)'
<1>1. Item(t)' = Item(t) BY DEF Item, Following
<1>2. Rows(t)' = Rows(t) /\ Identities(batch[t])' = Identities(batch[t])
  BY DEF Rows
<1>3. CASE pc[t] = "idle"
  BY <1>3 DEF TxInv
<1>4. CASE pc[t] = "ensure"
  <2>1. batch[t] \in Batches BY <1>4 DEF TxInv
  <2> QED BY <1>2, <1>4, <2>1, BatchFacts DEF TxInv
<1>5. CASE pc[t] \notin {"idle", "ensure"}
  <2>1. /\ batch[t] \in Batches
        /\ \A e \in Identities(batch[t]) : e \in Entities /\ lock[e] = t
    BY <1>5, BatchFacts DEF TxInv
  <2>2. \A e \in Rows(t) : e \in Entities /\ hash'[e] = hash[e] /\ lock[e] = t
    BY <2>1, BatchFacts DEF Rows
  <2>3. /\ \A S \in SUBSET Rows(t) :
             {r \in related' : r[1] \in S} = {r \in related : r[1] \in S}
        /\ \A S \in SUBSET Rows(t) :
             {e \in S : batch'[t].fetched[e] # hash'[e]}
               = {e \in S : batch[t].fetched[e] # hash[e]}
    BY <2>2 DEF TypeOK
  <2>4. Item(t) \in Rows(t) =>
          {r \in related' : r[1] = Item(t)} = {r \in related : r[1] = Item(t)}
    BY <2>2 DEF TypeOK
  <2>5. CASE pc[t] \in {"read", "write"}
    <3>1. Wrote(t, Rows(t) \ todo[t])'
      <4>1. Wrote(t, Rows(t) \ todo[t]) BY <2>5 DEF TxInv
      <4> QED BY <1>2, <2>2, <2>3, <4>1 DEF Wrote
    <3>2. pc[t] = "write" => hash'[Item(t)] = hash[Item(t)]
      <4> SUFFICES ASSUME pc[t] = "write" PROVE hash'[Item(t)] = hash[Item(t)]
        OBVIOUS
      <4>1. todo[t] # {} /\ todo[t] \subseteq Rows(t) BY DEF TxInv
      <4>2. todo[t] \subseteq Entities BY <2>2, <4>1
      <4>3. Item(t) \in todo[t] BY <4>1, <4>2, LowestIsIn DEF Item, Following
      <4> QED BY <2>2, <4>1, <4>3
    <3> QED BY <1>1, <1>2, <2>1, <2>5, <3>1, <3>2 DEF TxInv
  <2>6. CASE pc[t] \in {"reconcile", "delete"}
    <3>1. Wrote(t, Rows(t))'
      <4>1. Wrote(t, Rows(t)) BY <2>6 DEF TxInv
      <4> QED BY <1>2, <2>2, <2>3, <4>1 DEF Wrote
    <3>3. Dropped(t, Rows(t) \ todo[t])'
      <4>1. Dropped(t, Rows(t) \ todo[t]) BY <2>6 DEF TxInv
      <4> QED BY <1>2, <2>3, <4>1 DEF Dropped
    <3>2. pc[t] = "delete" => Item(t) \in Rows(t)
      <4> SUFFICES ASSUME pc[t] = "delete" PROVE Item(t) \in Rows(t)
        OBVIOUS
      <4>1. todo[t] # {} /\ todo[t] \subseteq Rows(t) BY DEF TxInv
      <4>2. todo[t] \subseteq Entities BY <2>2, <4>1
      <4> QED BY <4>1, <4>2, LowestIsIn DEF Item, Following
    <3> QED BY <1>1, <1>2, <2>1, <2>4, <2>6, <3>1, <3>2, <3>3 DEF TxInv
  <2>7. CASE pc[t] = "commit"
    <3> SUFFICES ASSUME batch[t].kind = "persist"
                 PROVE  Wrote(t, Rows(t))' /\ Dropped(t, Rows(t))'
      BY <1>2, <2>1, <2>7 DEF TxInv
    <3>1. Wrote(t, Rows(t)) /\ Dropped(t, Rows(t)) BY <2>7 DEF TxInv
    <3>2. Wrote(t, Rows(t))' BY <1>2, <2>2, <2>3, <3>1 DEF Wrote
    <3>3. Dropped(t, Rows(t))' BY <1>2, <2>3, <3>1 DEF Dropped
    <3> QED BY <3>2, <3>3
  <2> QED BY <1>5, <2>5, <2>6, <2>7 DEF TypeOK
<1> QED BY <1>3, <1>4, <1>5

-----------------------------------------------------------------------------

LEMMA ItemIsIn ==
  ASSUME TypeOK, NEW s \in Sessions, todo[s] # {}
  PROVE  Item(s) \in todo[s] /\ Item(s) \in Entities
<1>1. todo[s] \subseteq Entities BY DEF TypeOK
<1> QED BY <1>1, LowestIsIn DEF Item, Following

\* A commit changes only entities that its transaction has locked, and
\* relations of parents that it has locked.
LEMMA CommitOwnsItsRows ==
  ASSUME StoreInv, NEW s \in Sessions, Commit(s)
  PROVE  /\ \A e \in Entities : lock[e] # s => hash'[e] = hash[e]
         /\ \A r \in Relation :
              lock[r[1]] # s => (r \in related' <=> r \in related)
<1>1. /\ pc[s] = "commit" /\ TxInv(s) /\ TypeOK BY DEF Commit, StoreInv
<1>2. /\ batch[s] \in Batches
      /\ \A e \in Identities(batch[s]) : e \in Entities /\ lock[e] = s
  BY <1>1, BatchFacts DEF TxInv
<1>3. batch[s].kind \in {"persist", "replay", "enqueue"}
  BY <1>2, BatchesAssumption DEF Batch
<1>4. CASE batch[s].kind = "persist"
  <2>1. CommitPersist(s) BY <1>4 DEF Commit
  <2>2. Wrote(s, Rows(s)) /\ Dropped(s, Rows(s)) BY <1>1, <1>4 DEF TxInv
  <2>3. \A e \in wrote[s] : lock[e] = s
    BY <1>2, <2>2, BatchFacts DEF Wrote, Rows
  <2>4. \A e \in Entities : lock[e] # s => hash'[e] = hash[e]
    BY <2>1, <2>3 DEF CommitPersist, Written
  <2>5. /\ \A r \in dropped[s] : lock[r[1]] = s
        /\ \A r \in batch[s].relations : lock[r[1]] = s
    BY <1>2, <2>2, BatchFacts DEF Dropped, Rows
  <2>6. related' = (related \ dropped[s]) \cup batch[s].relations
    BY <2>1 DEF CommitPersist
  <2> QED BY <2>4, <2>5, <2>6
<1>5. CASE batch[s].kind = "replay"
  <2>1. Replay(batch[s]) BY <1>5 DEF Commit
  <2>2. \A e \in Fetched(batch[s]) : lock[e] = s BY <1>2, BatchFacts
  <2> QED BY <2>1, <2>2 DEF Replay, Written
<1>6. CASE batch[s].kind = "enqueue"
  BY <1>6 DEF Commit, storeVars
<1> QED BY <1>3, <1>4, <1>5, <1>6

\* A step of one transaction leaves what another one has locked alone.
LEMMA OthersUndisturbed ==
  ASSUME StoreInv, TypeOK', NEW s \in Sessions, NEW t \in Sessions, t # s,
         Step(s) \/ RollBack(s) \/ \E b \in Batches : Begin(s, b)
  PROVE  TxInv(t)'
<1>0. TypeOK /\ TxInv(t) BY DEF StoreInv
<1>1. /\ pc'[t] = pc[t] /\ batch'[t] = batch[t] /\ todo'[t] = todo[t]
      /\ seen'[t] = seen[t] /\ wrote'[t] = wrote[t]
      /\ previous'[t] = previous[t] /\ stale'[t] = stale[t]
      /\ dropped'[t] = dropped[t]
  <2>1. CASE Ensure(s) BY <1>0, <2>1 DEF Ensure, Remaining, TypeOK
  <2>2. CASE Ensured(s) BY <1>0, <2>2 DEF Ensured, Goes, Remaining, TypeOK
  <2>3. CASE ReadHash(s) BY <1>0, <2>3 DEF ReadHash, Goes, TypeOK
  <2>4. CASE WriteEnvelope(s)
    BY <1>0, <2>4 DEF WriteEnvelope, Goes, Remaining, TypeOK
  <2>5. CASE Saved(s) BY <1>0, <2>5 DEF Saved, Goes, Remaining, TypeOK
  <2>6. CASE SelectStale(s) BY <1>0, <2>6 DEF SelectStale, Goes, TypeOK
  <2>7. CASE DeleteStale(s)
    BY <1>0, <2>7 DEF DeleteStale, Goes, Remaining, TypeOK
  <2>8. CASE Reconciled(s) BY <1>0, <2>8 DEF Reconciled, Goes, TypeOK
  <2>9. CASE Commit(s) \/ RollBack(s)
    BY <1>0, <2>9 DEF Commit, RollBack, Close, Goes, Remaining, TypeOK
  <2>10. CASE \E b \in Batches : Begin(s, b)
    BY <1>0, <2>10 DEF Begin, Goes, Remaining, TypeOK
  <2> QED
    BY <2>1, <2>2, <2>3, <2>4, <2>5, <2>6, <2>7, <2>8, <2>9, <2>10 DEF Step
<1>2. /\ \A e \in Entities :
           lock[e] = t => lock'[e] = t /\ hash'[e] = hash[e]
      /\ \A r \in Relation :
           lock[r[1]] = t => (r \in related' <=> r \in related)
  <2>1. CASE Ensure(s)
    <3>1. lock' = [lock EXCEPT ![Item(s)] = s] /\ lock[Item(s)] = NoSession
          /\ hash' = hash /\ related' = related
      BY <2>1 DEF Ensure, storeVars
    <3> QED BY <1>0, <3>1, SessionsAssumption DEF TypeOK
  <2>2. CASE Commit(s)
    <3>1. \A e \in Entities : lock[e] = t => lock'[e] = t
      BY <2>2 DEF Commit, Close
    <3> QED BY <2>2, <3>1, CommitOwnsItsRows
  <2>3. CASE RollBack(s)
    BY <2>3 DEF RollBack, Close, storeVars
  <2>4. CASE UNCHANGED <<storeVars, lock>>
    BY <2>4 DEF storeVars
  <2> QED
    BY <2>1, <2>2, <2>3, <2>4
    DEF Step, Ensured, ReadHash, WriteEnvelope, Saved, SelectStale, DeleteStale,
        Reconciled, Begin
<1> QED BY <1>0, <1>1, <1>2, Undisturbed

-----------------------------------------------------------------------------
\* Each step keeps its own transaction's invariant, and the types.

LEMMA BeginStep ==
  ASSUME StoreInv, NEW s \in Sessions, NEW b \in Batches, Begin(s, b)
  PROVE  TypeOK' /\ TxInv(s)'
<1>1. TypeOK /\ TxInv(s) /\ pc[s] = "idle" BY DEF StoreInv, Begin
<1>2. wrote[s] = {} /\ dropped[s] = {} BY <1>1 DEF TxInv
<1>3. Identities(b) \subseteq Entities BY BatchFacts
<1>4. budget' \in [{"begin", "fail"} -> Nat]
  BY <1>1 DEF Begin, Spend, TypeOK
<1>5. TypeOK'
  BY <1>1, <1>3, <1>4 DEF TypeOK, Begin, Goes, Remaining, storeVars
<1>6. /\ pc'[s] = "ensure" /\ batch'[s] = b /\ todo'[s] = Identities(b)
      /\ wrote'[s] = {} /\ dropped'[s] = {}
  BY <1>1, <1>2 DEF TypeOK, Begin, Goes, Remaining
<1> QED BY <1>5, <1>6 DEF TxInv

LEMMA EnsureStep ==
  ASSUME StoreInv, NEW s \in Sessions, Ensure(s)
  PROVE  TypeOK' /\ TxInv(s)'
<1>1. /\ TypeOK /\ TxInv(s) /\ pc[s] = "ensure" /\ todo[s] # {}
      /\ batch[s] \in Batches
  BY DEF StoreInv, Ensure, TxInv
<1>2. Item(s) \in todo[s] /\ Item(s) \in Entities BY <1>1, ItemIsIn
<1>3. TypeOK'
  BY <1>1, <1>2 DEF TypeOK, Ensure, Remaining, storeVars
<1>4. /\ pc'[s] = "ensure" /\ batch'[s] = batch[s]
      /\ todo'[s] = todo[s] \ {Item(s)}
      /\ wrote'[s] = wrote[s] /\ dropped'[s] = dropped[s]
  BY <1>1 DEF TypeOK, Ensure, Remaining
<1>5. \A e \in Entities : lock'[e] = IF e = Item(s) THEN s ELSE lock[e]
  BY <1>1, <1>2 DEF TypeOK, Ensure
<1>6. Identities(batch[s])' = Identities(batch[s])
  BY <1>4 DEF Identities, Fetched
<1>7. \A e \in Identities(batch[s]) : e \in Entities BY <1>1, BatchFacts
<1>8. \A e \in Identities(batch[s]) : lock'[e] = s \/ e \in todo'[s]
  <2>1. \A e \in Identities(batch[s]) : lock[e] = s \/ e \in todo[s]
    BY <1>1 DEF TxInv
  <2> QED BY <1>4, <1>5, <1>7, <2>1
<1>9. todo'[s] \subseteq Identities(batch[s]) BY <1>1, <1>4 DEF TxInv
<1>10. wrote'[s] = {} /\ dropped'[s] = {} BY <1>1, <1>4 DEF TxInv
<1> QED BY <1>1, <1>3, <1>4, <1>6, <1>8, <1>9, <1>10 DEF TxInv

LEMMA EnsuredStep ==
  ASSUME StoreInv, NEW s \in Sessions, Ensured(s)
  PROVE  TypeOK' /\ TxInv(s)'
<1>1. /\ TypeOK /\ TxInv(s) /\ pc[s] = "ensure" /\ todo[s] = {}
      /\ batch[s] \in Batches
  BY DEF StoreInv, Ensured, TxInv
<1>2. Fetched(batch[s]) \subseteq Entities BY <1>1, BatchFacts
<1>3. TypeOK'
  BY <1>1, <1>2 DEF TypeOK, Ensured, Goes, Remaining, storeVars
<1>4. /\ batch'[s] = batch[s] /\ hash' = hash /\ related' = related
      /\ lock' = lock /\ wrote'[s] = {} /\ dropped'[s] = {}
  BY <1>1 DEF TypeOK, Ensured, TxInv, storeVars
<1>5. \A e \in Identities(batch[s]) : lock'[e] = s BY <1>1, <1>4 DEF TxInv
<1>6. CASE batch[s].kind = "persist"
  <2>1. pc'[s] = "read" /\ todo'[s] = Fetched(batch[s])
    BY <1>1, <1>6 DEF TypeOK, Ensured, Goes, Remaining
  <2>2. Wrote(s, Rows(s) \ todo[s])'
    BY <1>4, <2>1 DEF Wrote, Rows
  <2> QED BY <1>1, <1>3, <1>4, <1>5, <1>6, <2>1, <2>2 DEF TxInv, Rows
<1>7. CASE batch[s].kind # "persist"
  <2>1. pc'[s] = "commit" BY <1>1, <1>7 DEF TypeOK, Ensured, Goes
  <2> QED BY <1>1, <1>3, <1>4, <1>5, <1>7, <2>1 DEF TxInv
<1> QED BY <1>6, <1>7

LEMMA ReadHashStep ==
  ASSUME StoreInv, NEW s \in Sessions, ReadHash(s)
  PROVE  TypeOK' /\ TxInv(s)'
<1>1. TypeOK /\ TxInv(s) /\ pc[s] = "read" /\ todo[s] # {}
  BY DEF StoreInv, ReadHash
<1>2. Item(s) \in todo[s] /\ Item(s) \in Entities BY <1>1, ItemIsIn
<1>3. TypeOK' BY <1>1, <1>2 DEF TypeOK, ReadHash, Goes, storeVars
<1>4. /\ pc'[s] = "write" /\ seen'[s] = hash[Item(s)]
      /\ batch' = batch /\ todo' = todo /\ hash' = hash /\ lock' = lock
      /\ wrote' = wrote /\ previous' = previous /\ dropped' = dropped
  BY <1>1 DEF TypeOK, ReadHash, Goes, storeVars
<1>5. Item(s)' = Item(s) /\ Rows(s)' = Rows(s)
  BY <1>4 DEF Item, Following, Rows
<1>6. Wrote(s, Rows(s) \ todo[s])' BY <1>1, <1>4, <1>5 DEF TxInv, Wrote
<1> QED BY <1>1, <1>3, <1>4, <1>5, <1>6 DEF TxInv

LEMMA WriteEnvelopeStep ==
  ASSUME StoreInv, NEW s \in Sessions, WriteEnvelope(s)
  PROVE  TypeOK' /\ TxInv(s)'
<1>1. /\ TypeOK /\ TxInv(s) /\ pc[s] = "write" /\ todo[s] # {}
      /\ seen[s] = hash[Item(s)] /\ batch[s] \in Batches
      /\ todo[s] \subseteq Rows(s) /\ Wrote(s, Rows(s) \ todo[s])
  BY DEF StoreInv, WriteEnvelope, TxInv
<1>2. Item(s) \in todo[s] /\ Item(s) \in Entities BY <1>1, ItemIsIn
<1>3. TypeOK'
  <2>1. wrote' \in [Sessions -> SUBSET Entities]
    <3> DEFINE w == wrote[s] \cup {Item(s)}
    <3>1. wrote \in [Sessions -> SUBSET Entities] BY <1>1 DEF TypeOK
    <3>2. wrote' = wrote \/ wrote' = [wrote EXCEPT ![s] = w]
      BY <3>1 DEF WriteEnvelope
    <3>3. w \in SUBSET Entities BY <1>2, <3>1
    <3> HIDE DEF w
    <3> QED BY <3>1, <3>2, <3>3
  <2>2. previous' \in [Sessions -> [Entities -> Versions]]
    <3>1. seen[s] \in Versions /\ previous[s] \in [Entities -> Versions]
      BY <1>1 DEF TypeOK
    <3>2. previous' = previous \/
            previous' = [previous EXCEPT ![s] = [@ EXCEPT ![Item(s)] = seen[s]]]
      BY DEF WriteEnvelope
    <3>3. [previous[s] EXCEPT ![Item(s)] = seen[s]] \in [Entities -> Versions]
      BY <3>1
    <3>4. previous \in [Sessions -> [Entities -> Versions]]
      BY <1>1 DEF TypeOK
    <3> HIDE DEF Versions
    <3> DEFINE q == [previous[s] EXCEPT ![Item(s)] = seen[s]]
    <3>5. previous' = previous \/ previous' = [previous EXCEPT ![s] = q]
      BY <3>2, <3>4
    <3>6. q \in [Entities -> Versions] BY <3>3
    <3> HIDE DEF q
    <3> QED BY <3>4, <3>5, <3>6
  <2>3. todo' \in [Sessions -> SUBSET Entities]
    BY <1>1 DEF TypeOK, WriteEnvelope, Remaining
  <2>4. UNCHANGED <<storeVars, lock, batch, seen, stale, dropped, budget>>
        /\ pc' = [pc EXCEPT ![s] = "read"]
    BY DEF WriteEnvelope, Goes
  <2> QED BY <1>1, <2>1, <2>2, <2>3, <2>4 DEF TypeOK, storeVars
<1>4. /\ pc'[s] = "read" /\ todo'[s] = todo[s] \ {Item(s)}
      /\ batch' = batch /\ hash' = hash /\ lock' = lock
      /\ dropped' = dropped
  BY <1>1 DEF TypeOK, WriteEnvelope, Goes, Remaining, storeVars
<1>5. /\ wrote'[s] = IF hash[Item(s)] = batch[s].fetched[Item(s)] THEN wrote[s]
                    ELSE wrote[s] \cup {Item(s)}
      /\ \A e \in Entities : e # Item(s) => previous'[s][e] = previous[s][e]
      /\ hash[Item(s)] # batch[s].fetched[Item(s)] =>
           previous'[s][Item(s)] = hash[Item(s)]
  <2>1. previous[s] \in [Entities -> Versions] BY <1>1 DEF TypeOK
  <2>2. CASE seen[s] = batch[s].fetched[Item(s)]
    BY <1>1, <2>2 DEF WriteEnvelope
  <2>3. CASE seen[s] # batch[s].fetched[Item(s)]
    <3>1. /\ wrote' = [wrote EXCEPT ![s] = @ \cup {Item(s)}]
          /\ previous' =
               [previous EXCEPT ![s] = [@ EXCEPT ![Item(s)] = seen[s]]]
      BY <2>3 DEF WriteEnvelope
    <3>2. /\ wrote'[s] = wrote[s] \cup {Item(s)}
          /\ previous'[s] = [previous[s] EXCEPT ![Item(s)] = seen[s]]
      BY <1>1, <3>1 DEF TypeOK
    <3> QED BY <1>1, <1>2, <2>1, <2>3, <3>2
  <2> QED BY <2>2, <2>3
<1>6. Rows(s)' = Rows(s) /\ Rows(s) \subseteq Entities
  BY <1>1, <1>4, BatchFacts DEF Rows
<1>7. Wrote(s, Rows(s) \ todo[s])'
  <2>1. Rows(s) \ todo'[s] = (Rows(s) \ todo[s]) \cup {Item(s)}
    BY <1>1, <1>2, <1>4
  <2>2. /\ wrote[s] = {e \in Rows(s) \ todo[s] : batch[s].fetched[e] # hash[e]}
        /\ \A e \in wrote[s] : previous[s][e] = hash[e]
    BY <1>1 DEF Wrote
  <2>3. wrote'[s] = {e \in (Rows(s) \ todo[s]) \cup {Item(s)} :
                      batch[s].fetched[e] # hash[e]}
    BY <1>5, <2>2
  <2>4. \A e \in wrote'[s] : previous'[s][e] = hash[e]
    <3> SUFFICES ASSUME NEW e \in wrote'[s] PROVE previous'[s][e] = hash[e]
      OBVIOUS
    <3>1. CASE e = Item(s) BY <1>5, <2>3, <3>1
    <3>2. CASE e # Item(s) BY <1>2, <1>5, <1>6, <2>2, <2>3, <3>2
    <3> QED BY <3>1, <3>2
  <2> QED BY <1>4, <1>6, <2>1, <2>3, <2>4 DEF Wrote
<1>8. /\ batch[s].kind = "persist" /\ dropped[s] = {}
      /\ \A e \in Identities(batch[s]) : lock[e] = s
  BY <1>1 DEF TxInv
<1>9. todo'[s] \subseteq Rows(s) BY <1>1, <1>4
<1>10. Identities(batch[s])' = Identities(batch[s])
  BY <1>4 DEF Identities, Fetched
<1> QED BY <1>1, <1>3, <1>4, <1>6, <1>7, <1>8, <1>9, <1>10 DEF TxInv

LEMMA SavedStep ==
  ASSUME StoreInv, NEW s \in Sessions, Saved(s)
  PROVE  TypeOK' /\ TxInv(s)'
<1>1. /\ TypeOK /\ TxInv(s) /\ pc[s] = "read" /\ todo[s] = {}
      /\ batch[s] \in Batches /\ batch[s].kind = "persist"
      /\ Wrote(s, Rows(s) \ todo[s]) /\ dropped[s] = {}
  BY DEF StoreInv, Saved, TxInv
<1>2. Rows(s) \subseteq Entities BY <1>1, BatchFacts DEF Rows
<1>3. TypeOK'
  BY <1>1, <1>2 DEF TypeOK, Saved, Goes, Remaining, storeVars, Rows
<1>4. /\ pc'[s] = "reconcile" /\ todo'[s] = Rows(s)
      /\ batch' = batch /\ hash' = hash /\ lock' = lock /\ wrote' = wrote
      /\ previous' = previous /\ dropped' = dropped /\ related' = related
  BY <1>1 DEF TypeOK, Saved, Goes, Remaining, storeVars, Rows
<1>5. Rows(s)' = Rows(s) BY <1>4 DEF Rows
<1>6. Wrote(s, Rows(s))'
  <2>1. Wrote(s, Rows(s)) BY <1>1 DEF Wrote
  <2> QED BY <1>4, <1>5, <2>1 DEF Wrote
<1>7. Dropped(s, Rows(s) \ todo[s])' BY <1>1, <1>4, <1>5 DEF Dropped
<1> QED BY <1>1, <1>3, <1>4, <1>5, <1>6, <1>7 DEF TxInv

LEMMA SelectStaleStep ==
  ASSUME StoreInv, NEW s \in Sessions, SelectStale(s)
  PROVE  TypeOK' /\ TxInv(s)'
<1>1. TypeOK /\ TxInv(s) /\ pc[s] = "reconcile" /\ todo[s] # {}
  BY DEF StoreInv, SelectStale
<1>2. TypeOK' BY <1>1 DEF TypeOK, SelectStale, Goes, storeVars
<1>3. /\ pc'[s] = "delete"
      /\ stale'[s] = {r \in related : r[1] = Item(s)} \ batch[s].relations
      /\ batch' = batch /\ todo' = todo /\ hash' = hash /\ lock' = lock
      /\ wrote' = wrote /\ previous' = previous /\ dropped' = dropped
      /\ related' = related
  BY <1>1 DEF TypeOK, SelectStale, Goes, storeVars
<1>4. Item(s)' = Item(s) /\ Rows(s)' = Rows(s)
  BY <1>3 DEF Item, Following, Rows
<1>5. Wrote(s, Rows(s))' BY <1>1, <1>3, <1>4 DEF TxInv, Wrote
<1>6. Dropped(s, Rows(s) \ todo[s])' BY <1>1, <1>3, <1>4 DEF TxInv, Dropped
<1> QED BY <1>1, <1>2, <1>3, <1>4, <1>5, <1>6 DEF TxInv

LEMMA DeleteStaleStep ==
  ASSUME StoreInv, NEW s \in Sessions, DeleteStale(s)
  PROVE  TypeOK' /\ TxInv(s)'
<1>1. /\ TypeOK /\ TxInv(s) /\ pc[s] = "delete" /\ todo[s] # {}
      /\ batch[s] \in Batches /\ todo[s] \subseteq Rows(s)
      /\ stale[s] = {r \in related : r[1] = Item(s)} \ batch[s].relations
  BY DEF StoreInv, DeleteStale, TxInv
<1>2. Item(s) \in todo[s] BY <1>1, ItemIsIn
<1>3. TypeOK' BY <1>1 DEF TypeOK, DeleteStale, Goes, Remaining, storeVars
<1>4. /\ pc'[s] = "reconcile" /\ todo'[s] = todo[s] \ {Item(s)}
      /\ dropped'[s] = dropped[s] \cup stale[s]
      /\ batch' = batch /\ hash' = hash /\ lock' = lock
      /\ wrote' = wrote /\ previous' = previous /\ related' = related
  BY <1>1 DEF TypeOK, DeleteStale, Goes, Remaining, storeVars
<1>5. Rows(s)' = Rows(s) BY <1>4 DEF Rows
<1>6. Wrote(s, Rows(s))' BY <1>1, <1>4, <1>5 DEF TxInv, Wrote
<1>7. Dropped(s, Rows(s) \ todo[s])'
  <2>1. Rows(s) \ todo'[s] = (Rows(s) \ todo[s]) \cup {Item(s)}
    BY <1>1, <1>2, <1>4
  <2>2. dropped[s] = {r \in related : r[1] \in Rows(s) \ todo[s]}
                       \ batch[s].relations
    BY <1>1 DEF TxInv, Dropped
  <2>3. dropped'[s] = {r \in related : r[1] \in Rows(s) \ todo'[s]}
                        \ batch[s].relations
    BY <1>1, <1>4, <2>1, <2>2
  <2> QED BY <1>4, <1>5, <2>3 DEF Dropped
<1>8. /\ batch[s].kind = "persist"
      /\ \A e \in Identities(batch[s]) : lock[e] = s
  BY <1>1 DEF TxInv
<1>9. todo'[s] \subseteq Rows(s) BY <1>1, <1>4
<1>10. Identities(batch[s])' = Identities(batch[s])
  BY <1>4 DEF Identities, Fetched
<1> QED BY <1>1, <1>3, <1>4, <1>5, <1>6, <1>7, <1>8, <1>9, <1>10 DEF TxInv

LEMMA ReconciledStep ==
  ASSUME StoreInv, NEW s \in Sessions, Reconciled(s)
  PROVE  TypeOK' /\ TxInv(s)'
<1>1. TypeOK /\ TxInv(s) /\ pc[s] = "reconcile" /\ todo[s] = {}
  BY DEF StoreInv, Reconciled
<1>2. TypeOK' BY <1>1 DEF TypeOK, Reconciled, Goes, storeVars
<1>3. /\ pc'[s] = "commit"
      /\ batch' = batch /\ hash' = hash /\ lock' = lock /\ wrote' = wrote
      /\ previous' = previous /\ dropped' = dropped /\ related' = related
  BY <1>1 DEF TypeOK, Reconciled, Goes, storeVars
<1>4. Rows(s)' = Rows(s) /\ Rows(s) \ todo[s] = Rows(s)
  BY <1>1, <1>3 DEF Rows
<1>5. Wrote(s, Rows(s))' BY <1>1, <1>3, <1>4 DEF TxInv, Wrote
<1>6. Dropped(s, Rows(s))'
  <2>1. Dropped(s, Rows(s) \ todo[s]) BY <1>1 DEF TxInv
  <2> QED BY <1>3, <1>4, <2>1 DEF Dropped
<1> QED BY <1>1, <1>2, <1>3, <1>4, <1>5, <1>6 DEF TxInv

\* Commit and RollBack: the transaction is gone, with its locks and drafts.
LEMMA CloseStep ==
  ASSUME StoreInv, NEW s \in Sessions, Commit(s) \/ RollBack(s)
  PROVE  TypeOK' /\ TxInv(s)'
<1>1. TypeOK /\ Close(s) BY DEF StoreInv, Commit, RollBack
<1>2. budget' \in [{"begin", "fail"} -> Nat]
  <2>1. CASE Commit(s) BY <1>1, <2>1 DEF Commit, TypeOK
  <2>2. CASE RollBack(s) BY <1>1, <2>2 DEF RollBack, Spend, TypeOK
  <2> QED BY <2>1, <2>2
<1>3. /\ hash' \in [Entities -> Versions] /\ children' \in [Entities -> Versions]
      /\ revisions' \in [Entities -> Seq(Contents)] /\ related' \subseteq Relation
  <2>1. CASE UNCHANGED storeVars BY <1>1, <2>1 DEF storeVars, TypeOK
  <2>2. CASE Commit(s) /\ ~UNCHANGED storeVars
    <3>1. /\ batch[s] \in Batches /\ wrote[s] \subseteq Entities
          /\ previous[s] \in [Entities -> Versions] /\ dropped[s] \subseteq Relation
      BY <1>1, <2>2 DEF StoreInv, TxInv, Commit, TypeOK
    <3>2. /\ batch[s].fetched \in [Entities -> Versions]
          /\ batch[s].relations \subseteq Relation
          /\ batch[s].kind \in {"persist", "replay", "enqueue"}
      BY <3>1, BatchFacts, BatchesAssumption DEF Batch
    <3>3. CASE CommitPersist(s)
      <4>1. hash' \in [Entities -> Versions]
        BY <1>1, <3>2, <3>3 DEF CommitPersist, Written, TypeOK
      <4>2. children' \in [Entities -> Versions]
        BY <1>1, <3>2, <3>3 DEF CommitPersist, TypeOK
      <4>3. revisions' \in [Entities -> Seq(Contents)]
        <5>1. \A e \in Entities : Supersedes(s, e) =>
                Append(revisions[e], previous[s][e]) \in Seq(Contents)
          <6> SUFFICES ASSUME NEW e \in Entities, Supersedes(s, e)
                       PROVE  Append(revisions[e], previous[s][e])
                                \in Seq(Contents)
            OBVIOUS
          <6>1. previous[s][e] \in Contents BY <3>1 DEF Supersedes, Versions
          <6>2. revisions[e] \in Seq(Contents) BY <1>1 DEF TypeOK
          <6> QED BY <6>1, <6>2
        <5> QED BY <1>1, <3>3, <5>1 DEF CommitPersist, TypeOK
      <4>4. related' \subseteq Relation
        BY <1>1, <3>2, <3>3 DEF CommitPersist, TypeOK
      <4> QED BY <4>1, <4>2, <4>3, <4>4
    <3>4. CASE Replay(batch[s])
      BY <1>1, <3>2, <3>4 DEF Replay, Written, TypeOK
    <3> QED BY <2>2, <3>2, <3>3, <3>4 DEF Commit
  <2> QED BY <2>1, <2>2 DEF RollBack
<1>4. /\ lock' \in [Entities -> Sessions \cup {NoSession}]
      /\ pc' = [pc EXCEPT ![s] = "idle"] /\ todo' = [todo EXCEPT ![s] = {}]
      /\ batch' = [batch EXCEPT ![s] = NoBatch]
      /\ seen' = [seen EXCEPT ![s] = NoContent]
      /\ wrote' = [wrote EXCEPT ![s] = {}]
      /\ previous' = [previous EXCEPT ![s] = Unfetched]
      /\ stale' = [stale EXCEPT ![s] = {}]
      /\ dropped' = [dropped EXCEPT ![s] = {}]
  BY <1>1 DEF Close, Goes, Remaining, TypeOK
<1>5. NoContent \in Versions /\ Unfetched \in [Entities -> Versions]
  BY DEF Versions, Unfetched
<1>6. TypeOK' BY <1>1, <1>2, <1>3, <1>4, <1>5 DEF TypeOK
<1>7. pc'[s] = "idle" /\ wrote'[s] = {} /\ dropped'[s] = {}
  BY <1>1, <1>4 DEF TypeOK
<1> QED BY <1>6, <1>7 DEF TxInv

LEMMA InitEstablishes ==
  Init => StoreInv
<1> SUFFICES ASSUME Init PROVE StoreInv
  OBVIOUS
<1>1. NoContent \in Versions /\ Unfetched \in [Entities -> Versions]
  BY DEF Versions, Unfetched
<1>2. <<>> \in Seq(Contents) OBVIOUS
<1>3. TypeOK
  BY <1>1, <1>2, SessionsAssumption DEF TypeOK, Init, InitWith, StoreInit
<1>4. \A s \in Sessions : TxInv(s)
  BY DEF TxInv, Init, InitWith
<1> QED BY <1>3, <1>4 DEF StoreInv

LEMMA NextPreserves ==
  StoreInv /\ [Next]_vars => StoreInv'
<1> SUFFICES ASSUME StoreInv, [Next]_vars PROVE StoreInv'
  OBVIOUS
<1>1. CASE UNCHANGED vars
  <2>1. TypeOK' BY <1>1 DEF StoreInv, TypeOK, vars, storeVars, txVars
  <2>2. \A s \in Sessions : TxInv(s)'
    <3> SUFFICES ASSUME NEW s \in Sessions PROVE TxInv(s)'
      OBVIOUS
    <3>1. TypeOK /\ TxInv(s) BY DEF StoreInv
    <3> QED
      BY <1>1, <2>1, <3>1, Undisturbed DEF vars, storeVars, txVars
  <2> QED BY <2>1, <2>2 DEF StoreInv
<1>2. ASSUME NEW s \in Sessions,
             Step(s) \/ RollBack(s) \/ \E b \in Batches : Begin(s, b)
      PROVE  StoreInv'
  <2>1. TypeOK' /\ TxInv(s)'
    BY <1>2, BeginStep, EnsureStep, EnsuredStep, ReadHashStep,
       WriteEnvelopeStep, SavedStep, SelectStaleStep, DeleteStaleStep,
       ReconciledStep, CloseStep
    DEF Step
  <2>2. \A t \in Sessions : t # s => TxInv(t)'
    BY <1>2, <2>1, OthersUndisturbed
  <2> QED BY <2>1, <2>2 DEF StoreInv
<1> QED BY <1>1, <1>2 DEF Next

\* The invariant behind both theorems below: what a transaction of persist has
\* read of the rows it has locked is still what is committed.
THEOREM StoreInvariant == Spec => []StoreInv
<1>1. Init => StoreInv BY InitEstablishes
<1>2. StoreInv /\ [Next]_vars => StoreInv' BY NextPreserves
<1> QED BY <1>1, <1>2, PTL DEF Spec

\* Every statement of persist, of the bulk replay and of enqueue leaves well
\* typed rows and drafts.
THEOREM TypeCorrect == Spec => []TypeOK
<1>1. StoreInv => TypeOK BY DEF StoreInv
<1> QED BY <1>1, StoreInvariant, PTL

-----------------------------------------------------------------------------

LEMMA CommitIsAtomic ==
  ASSUME StoreInv, NEW s \in Sessions, Commit(s)
  PROVE  [StoreNext]_storeVars
<1>1. TypeOK /\ TxInv(s) /\ pc[s] = "commit" /\ batch[s] \in Batches
  BY DEF StoreInv, Commit, TxInv
<1>2. batch[s].kind \in {"persist", "replay", "enqueue"}
  BY <1>1, BatchesAssumption DEF Batch
<1>3. CASE batch[s].kind = "persist"
  <2>1. CommitPersist(s) BY <1>3 DEF Commit
  <2>2. Wrote(s, Rows(s)) /\ Dropped(s, Rows(s)) BY <1>1, <1>3 DEF TxInv
  <2>3. /\ wrote[s] = Changed(batch[s])
        /\ \A e \in wrote[s] : previous[s][e] = hash[e]
    BY <2>2 DEF Wrote, Rows, Changed
  <2>4. Written(batch[s], Changed(batch[s]))
    BY <2>1, <2>3 DEF CommitPersist
  <2>5. children' = [e \in Entities |->
                       IF e \in Changed(batch[s]) THEN batch[s].fetched[e]
                       ELSE children[e]]
    BY <2>1, <2>3 DEF CommitPersist
  <2>6. revisions' = [e \in Entities |->
                        IF Revisions /\ e \in Changed(batch[s])
                             /\ hash[e] # NoContent
                        THEN Append(revisions[e], hash[e]) ELSE revisions[e]]
    BY <2>1, <2>3 DEF CommitPersist, Supersedes
  <2>7. related' = {r \in related : r[1] \notin Fetched(batch[s])}
                     \cup batch[s].relations
    BY <2>1, <2>2 DEF CommitPersist, Dropped, Rows
  <2>8. Persist(batch[s]) BY <1>3, <2>4, <2>5, <2>6, <2>7 DEF Persist
  <2> QED BY <1>1, <2>8 DEF StoreNext
<1>4. CASE batch[s].kind = "replay"
  BY <1>1, <1>4 DEF Commit, StoreNext
<1>5. CASE batch[s].kind = "enqueue"
  BY <1>5 DEF Commit
<1> QED BY <1>2, <1>3, <1>4, <1>5

\* What is committed changes as if each batch of persist and of the bulk replay
\* were written in one step, whatever the statements of other transactions do
\* between the reads of one: EntityStore implements EntityBatches.
THEOREM PersistsAtomic == Spec => PersistsAreAtomic
<1>1. Init => StoreInit BY DEF Init, InitWith
<1>2. StoreInv /\ [Next]_vars => [StoreNext]_storeVars
  <2> SUFFICES ASSUME StoreInv, [Next]_vars PROVE [StoreNext]_storeVars
    OBVIOUS
  <2>1. CASE UNCHANGED vars BY <2>1 DEF vars
  <2>2. ASSUME NEW s \in Sessions, Step(s) PROVE [StoreNext]_storeVars
    <3>1. CASE Commit(s) BY <3>1, CommitIsAtomic
    <3>2. CASE ~Commit(s)
      BY <2>2, <3>2
      DEF Step, Ensure, Ensured, ReadHash, WriteEnvelope, Saved, SelectStale,
          DeleteStale, Reconciled
    <3> QED BY <3>1, <3>2
  <2>3. ASSUME NEW s \in Sessions, RollBack(s) PROVE [StoreNext]_storeVars
    BY <2>3 DEF RollBack
  <2>4. ASSUME NEW s \in Sessions, NEW b \in Batches, Begin(s, b)
        PROVE  [StoreNext]_storeVars
    BY <2>4 DEF Begin
  <2> QED BY <2>1, <2>2, <2>3, <2>4 DEF Next
<1> QED BY <1>1, <1>2, StoreInvariant, PTL DEF Spec, PersistsAreAtomic, StoreSpec

-----------------------------------------------------------------------------
\* Row locks.

\* A transaction waits for the row that another one holds.
Waits(s, t) == pc[s] = "ensure" /\ todo[s] # {} /\ lock[Item(s)] = t

\* A transaction takes its rows in sorted order: those it holds come before
\* those it has not reached.
LocksInOrder(s) ==
  /\ pc[s] = "idle" => \A e \in Entities : lock[e] # s
  /\ pc[s] = "ensure" =>
       \A e \in Entities : lock[e] = s => \A f \in todo[s] : e < f

OrderInv == StoreInv /\ \A s \in Sessions : LocksInOrder(s)

\* Of any sessions, however many, one waits for none of them: there is no ring
\* of transactions that only the deadlock detector could open.
SomebodyProceeds ==
  \A W \in SUBSET Sessions :
    IsFiniteSet(W) /\ W # {} => \E s \in W : \A t \in W : ~Waits(s, t)

\* The row a transaction asks for is the lowest of those left.
LEMMA ItemIsLowest ==
  ASSUME TypeOK, NEW s \in Sessions, todo[s] # {}
  PROVE  \A f \in todo[s] : Item(s) <= f
<1> DEFINE R == OpToRel(<, Nat)
<1>0. todo[s] \subseteq Nat BY BatchesAssumption DEF TypeOK
<1>1. IsWellFoundedOn(R, Nat) BY NatLessThanWellFounded
<1>2. \A x, y \in Nat : y < x => <<y, x>> \in R BY DEF OpToRel
<1> HIDE DEF R
<1>3. PICK x \in todo[s] : \A y \in todo[s] : ~(<<y, x>> \in R)
  BY <1>0, <1>1, WFMin
<1>4. \A y \in todo[s] : x <= y
  <2> SUFFICES ASSUME NEW y \in todo[s] PROVE x <= y
    OBVIOUS
  <2>1. x \in Nat /\ y \in Nat BY <1>0
  <2>2. ~(y < x) BY <1>2, <1>3, <2>1
  <2> QED BY <2>1, <2>2
<1> QED BY <1>3, <1>4 DEF Item, Following, Lowest

LEMMA OwnOrderKept ==
  ASSUME OrderInv, NEW s \in Sessions,
         Step(s) \/ RollBack(s) \/ \E b \in Batches : Begin(s, b)
  PROVE  LocksInOrder(s)'
<1>0. TypeOK /\ LocksInOrder(s) BY DEF OrderInv, StoreInv
<1>1. CASE Ensure(s)
  <2>1. /\ pc[s] = "ensure" /\ todo[s] # {} /\ pc' = pc
        /\ lock' = [lock EXCEPT ![Item(s)] = s]
        /\ todo' = [todo EXCEPT ![s] = todo[s] \ {Item(s)}]
    BY <1>1 DEF Ensure, Remaining
  <2>2. Item(s) \in todo[s] /\ Item(s) \in Entities BY <1>0, <2>1, ItemIsIn
  <2>3. \A f \in todo[s] : Item(s) <= f BY <1>0, <2>1, ItemIsLowest
  <2>4. todo'[s] = todo[s] \ {Item(s)} BY <1>0, <2>1 DEF TypeOK
  <2>5. todo[s] \subseteq Nat BY <1>0, BatchesAssumption DEF TypeOK
  <2>6. \A f \in todo'[s] : Item(s) < f
    <3> SUFFICES ASSUME NEW f \in todo'[s] PROVE Item(s) < f
      OBVIOUS
    <3>1. f \in todo[s] /\ f # Item(s) BY <2>4
    <3>2. f \in Nat /\ Item(s) \in Nat /\ Item(s) <= f
      BY <2>2, <2>3, <2>5, <3>1
    <3> QED BY <3>1, <3>2
  <2>7. \A e \in Entities : lock'[e] = s => e = Item(s) \/ lock[e] = s
    BY <1>0, <2>1, <2>2 DEF TypeOK
  <2>8. \A e \in Entities : lock'[e] = s => \A f \in todo'[s] : e < f
    BY <1>0, <2>1, <2>4, <2>6, <2>7 DEF LocksInOrder
  <2> QED BY <2>1, <2>8 DEF LocksInOrder
<1>2. CASE Commit(s) \/ RollBack(s)
  <2>1. Close(s) BY <1>2 DEF Commit, RollBack
  <2>2. pc'[s] = "idle" BY <1>0, <2>1 DEF Close, Goes, TypeOK
  <2>3. \A e \in Entities : lock'[e] # s
    BY <2>1, SessionsAssumption DEF Close
  <2> QED BY <2>2, <2>3 DEF LocksInOrder
<1>3. CASE \E b \in Batches : Begin(s, b)
  <2>1. pc[s] = "idle" /\ lock' = lock /\ pc'[s] = "ensure"
    BY <1>0, <1>3 DEF Begin, Goes, TypeOK
  <2>2. \A e \in Entities : lock'[e] # s BY <1>0, <2>1 DEF LocksInOrder
  <2> QED BY <2>1, <2>2 DEF LocksInOrder
<1>4. CASE Ensured(s) \/ Saved(s) \/ Reconciled(s) \/ ReadHash(s)
             \/ WriteEnvelope(s) \/ SelectStale(s) \/ DeleteStale(s)
  <2>1. pc'[s] \in {"read", "write", "reconcile", "delete", "commit"}
    BY <1>0, <1>4
    DEF TypeOK, Ensured, Saved, Reconciled, ReadHash, WriteEnvelope,
        SelectStale, DeleteStale, Goes
  <2> QED BY <2>1 DEF LocksInOrder
<1> QED BY <1>1, <1>2, <1>3, <1>4 DEF Step

\* A session gets no lock and goes nowhere by the steps of another.
LEMMA OthersOrderKept ==
  ASSUME OrderInv, NEW s \in Sessions, NEW t \in Sessions, t # s,
         Step(s) \/ RollBack(s) \/ \E b \in Batches : Begin(s, b)
  PROVE  LocksInOrder(t)'
<1>0. TypeOK /\ LocksInOrder(t) BY DEF OrderInv, StoreInv
<1>1. pc'[t] = pc[t] /\ todo'[t] = todo[t]
  BY <1>0
  DEF Step, Ensure, Ensured, Saved, Reconciled, ReadHash, WriteEnvelope,
      SelectStale, DeleteStale, Commit, RollBack, Begin, Close, Goes,
      Remaining, TypeOK
<1>2. \A e \in Entities : lock'[e] = t => lock[e] = t
  <2>1. CASE Ensure(s)
    <3>1. lock' = [lock EXCEPT ![Item(s)] = s] BY <2>1 DEF Ensure
    <3> QED BY <1>0, <3>1 DEF TypeOK
  <2>2. CASE Commit(s) \/ RollBack(s)
    BY <2>2, SessionsAssumption DEF Commit, RollBack, Close
  <2>3. CASE UNCHANGED lock BY <2>3
  <2> QED
    BY <2>1, <2>2, <2>3
    DEF Step, Ensured, Saved, Reconciled, ReadHash, WriteEnvelope, SelectStale,
        DeleteStale, Begin
<1> QED BY <1>0, <1>1, <1>2 DEF LocksInOrder

\* Who waits for a transaction that waits asks for a lower row than that one.
LEMMA WaitsUpwards ==
  ASSUME OrderInv, NEW s \in Sessions, NEW t \in Sessions,
         Waits(s, t), pc[t] = "ensure", todo[t] # {}
  PROVE  Item(s) \in Nat /\ Item(t) \in Nat /\ Item(s) < Item(t)
<1>0. TypeOK /\ LocksInOrder(t) BY DEF OrderInv, StoreInv
<1>1. Item(s) \in Entities /\ lock[Item(s)] = t BY <1>0, ItemIsIn DEF Waits
<1>2. Item(t) \in todo[t] /\ Item(t) \in Entities BY <1>0, ItemIsIn
<1> QED BY <1>0, <1>1, <1>2, BatchesAssumption DEF LocksInOrder

LEMMA OrderKeepsMoving == OrderInv => SomebodyProceeds
<1> SUFFICES ASSUME OrderInv, NEW W \in SUBSET Sessions, IsFiniteSet(W),
                    W # {}, \A s \in W : \E t \in W : Waits(s, t)
             PROVE  FALSE
  BY DEF SomebodyProceeds
<1> DEFINE Above(s) == {t \in W : Item(s) < Item(t)}
           Heights == {Cardinality(Above(s)) : s \in W}
           R == OpToRel(<, Nat)
<1>1. \A s \in W : IsFiniteSet(Above(s)) /\ Cardinality(Above(s)) \in Nat
  <2> SUFFICES ASSUME NEW s \in W
               PROVE  IsFiniteSet(Above(s)) /\ Cardinality(Above(s)) \in Nat
    OBVIOUS
  <2>1. Above(s) \in SUBSET W OBVIOUS
  <2> QED BY <2>1, FS_Subset, FS_CardinalityType
<1>2. Heights \subseteq Nat /\ Heights # {} BY <1>1
<1>3. IsWellFoundedOn(R, Nat) BY NatLessThanWellFounded
<1>4. \A x, y \in Nat : y < x => <<y, x>> \in R BY DEF OpToRel
<1> HIDE DEF R
<1>5. PICK h \in Heights : \A k \in Heights : ~(<<k, h>> \in R)
  <2> HIDE DEF Heights
  <2> QED BY <1>2, <1>3, WFMin
<1>6. PICK s \in W : h = Cardinality(Above(s)) OBVIOUS
<1>7. PICK t \in W : Waits(s, t) OBVIOUS
<1>8. PICK u \in W : Waits(t, u) OBVIOUS
<1>9. /\ Item(s) \in Nat /\ Item(t) \in Nat /\ Item(s) < Item(t)
  BY <1>7, <1>8, WaitsUpwards DEF Waits
<1>10. \A x \in W : Item(x) \in Nat
  BY ItemIsIn, BatchesAssumption DEF Waits, OrderInv, StoreInv
<1>11. Above(t) \subseteq Above(s)
  <2> SUFFICES ASSUME NEW x \in Above(t) PROVE x \in Above(s)
    OBVIOUS
  <2>1. x \in W /\ Item(x) \in Nat /\ Item(t) < Item(x) BY <1>10
  <2> QED BY <1>9, <2>1
<1>12. t \in Above(s) /\ t \notin Above(t) BY <1>9
<1>13. Cardinality(Above(t)) < Cardinality(Above(s))
  <2> DEFINE A == Above(t)
             B == Above(s)
  <2>1. IsFiniteSet(B) /\ A \in SUBSET B /\ A # B BY <1>1, <1>11, <1>12
  <2>2. Cardinality(A) \in Nat /\ Cardinality(B) \in Nat BY <1>1
  <2> HIDE DEF A, B
  <2>3. Cardinality(A) <= Cardinality(B) /\ Cardinality(A) # Cardinality(B)
    BY <2>1, FS_Subset
  <2>4. Cardinality(A) < Cardinality(B) BY <2>2, <2>3
  <2> QED BY <2>4 DEF A, B
<1>14. Cardinality(Above(t)) \in Heights BY <1>7
<1> QED BY <1>1, <1>4, <1>5, <1>6, <1>13, <1>14

\* However many transactions of persist, of the bulk replay and of enqueue run
\* at a time, and whatever rows their batches have in common: they never wait
\* for each other in a ring, because each takes its rows in sorted order.
THEOREM NoDeadlock == Spec => []SomebodyProceeds
<1>1. Init => OrderInv
  <2> SUFFICES ASSUME Init PROVE OrderInv
    OBVIOUS
  <2>1. \A s \in Sessions : LocksInOrder(s)
    BY SessionsAssumption DEF LocksInOrder, Init, InitWith
  <2> QED BY <2>1, InitEstablishes DEF OrderInv
<1>2. OrderInv /\ [Next]_vars => OrderInv'
  <2> SUFFICES ASSUME OrderInv, [Next]_vars PROVE OrderInv'
    OBVIOUS
  <2>1. StoreInv' BY NextPreserves DEF OrderInv
  <2>2. CASE UNCHANGED vars
    BY <2>1, <2>2 DEF OrderInv, LocksInOrder, vars, txVars
  <2>3. ASSUME NEW s \in Sessions,
               Step(s) \/ RollBack(s) \/ \E b \in Batches : Begin(s, b)
        PROVE  OrderInv'
    <3>1. \A t \in Sessions : LocksInOrder(t)'
      BY <2>3, OwnOrderKept, OthersOrderKept
    <3> QED BY <2>1, <3>1 DEF OrderInv
  <2> QED BY <2>2, <2>3 DEF Next
<1> QED BY <1>1, <1>2, OrderKeepsMoving, PTL DEF Spec

-----------------------------------------------------------------------------
\* Exporter.

\* The function MapThenSumSet evaluates to sum up the sizes of the F[s].
SumsSizes(S, F, sum) ==
  sum = [s \in SUBSET S |->
           IF s = {} THEN 0
           ELSE Cardinality(F[CHOOSE x \in s : TRUE])
                  + sum[s \ {CHOOSE x \in s : TRUE}]]

TheSums(S, F) == CHOOSE sum : SumsSizes(S, F, sum)

LEMMA SumIsOne ==
  ASSUME NEW S, NEW F
  PROVE  MapThenSumSet(LAMBDA s : Cardinality(F[s]), S) = TheSums(S, F)[S]
BY DEF MapThenSumSet, MapThenFoldSet, TheSums, SumsSizes

Together(F, s) == UNION {F[x] : x \in s}

\* Parts of a set that do not overlap.
Apart(S, F, W) ==
  /\ IsFiniteSet(W)
  /\ \A x \in S : F[x] \subseteq W
  /\ \A x, y \in S : x # y => F[x] \cap F[y] = {}

LEMMA DisjointUnion ==
  ASSUME NEW A, IsFiniteSet(A), NEW B, IsFiniteSet(B), A \cap B = {}
  PROVE  Cardinality(A \cup B) = Cardinality(A) + Cardinality(B)
<1>1. Cardinality(A) \in Nat /\ Cardinality(B) \in Nat BY FS_CardinalityType
<1>2. Cardinality(A \cap B) = 0 BY FS_EmptySet
<1>3. Cardinality(A \cup B) =
        Cardinality(A) + Cardinality(B) - Cardinality(A \cap B)
  BY FS_Union
<1> QED BY <1>1, <1>2, <1>3

\* Sets that do not overlap: one more of them adds its own elements.
LEMMA OneMoreSet ==
  ASSUME NEW S, NEW F, NEW W, Apart(S, F, W),
         NEW s \in SUBSET S, NEW x \in s
  PROVE  Cardinality(Together(F, s)) =
           Cardinality(F[x]) + Cardinality(Together(F, s \ {x}))
<1> DEFINE rest == s \ {x}
<1>1. Together(F, s) = F[x] \cup Together(F, rest) BY DEF Together
<1>2. F[x] \cap Together(F, rest) = {}
  <2>1. \A y \in rest : F[x] \cap F[y] = {} BY DEF Apart
  <2> QED BY <2>1 DEF Together
<1>3. IsFiniteSet(F[x]) /\ IsFiniteSet(Together(F, rest))
  <2>1. F[x] \subseteq W /\ Together(F, rest) \subseteq W
    BY DEF Apart, Together
  <2> QED BY <2>1, FS_Subset DEF Apart
<1> QED BY <1>1, <1>2, <1>3, DisjointUnion

LEMMA NoSets == ASSUME NEW F PROVE Cardinality(Together(F, {})) = 0
<1>1. Together(F, {}) = {} BY DEF Together
<1> QED BY <1>1, FS_EmptySet

\* The sum is what the sets hold together.
LEMMA SumsAreSizes ==
  ASSUME NEW S, IsFiniteSet(S), NEW F, NEW W, Apart(S, F, W),
         NEW sum, SumsSizes(S, F, sum)
  PROVE  \A s \in SUBSET S : sum[s] = Cardinality(Together(F, s))
<1> DEFINE Bad == {n \in Nat : \E s \in SUBSET S :
                     Cardinality(s) = n /\ sum[s] # Cardinality(Together(F, s))}
           R == OpToRel(<, Nat)
<1>1. \A s \in SUBSET S : IsFiniteSet(s) /\ Cardinality(s) \in Nat
  BY FS_Subset, FS_CardinalityType
<1> SUFFICES ASSUME Bad # {} PROVE FALSE
  BY <1>1
<1>2. IsWellFoundedOn(R, Nat) BY NatLessThanWellFounded
<1>3. \A m, n \in Nat : m < n => <<m, n>> \in R BY DEF OpToRel
<1> HIDE DEF R
<1>4. Bad \subseteq Nat OBVIOUS
<1> HIDE DEF Bad
<1>5. PICK n \in Bad : \A m \in Bad : ~(<<m, n>> \in R)
  BY <1>2, <1>4, WFMin
<1>6. PICK s \in SUBSET S :
        n \in Nat /\ Cardinality(s) = n /\ sum[s] # Cardinality(Together(F, s))
  BY <1>5 DEF Bad
<1> DEFINE x == CHOOSE y \in s : TRUE
           rest == s \ {x}
<1>7. s # {}
  <2> SUFFICES ASSUME s = {} PROVE FALSE
    OBVIOUS
  <2>1. sum[{}] = 0 BY DEF SumsSizes
  <2>2. Cardinality(Together(F, {})) = 0 BY NoSets
  <2> QED BY <1>6, <2>1, <2>2
<1>8. x \in s BY <1>7
<1>9. sum[s] = Cardinality(F[x]) + sum[rest] BY <1>7 DEF SumsSizes
<1> HIDE DEF x
<1>10. rest \in SUBSET S /\ Cardinality(rest) \in Nat /\ Cardinality(rest) < n
  <2>1. Cardinality(rest) = n - 1 BY <1>1, <1>6, <1>8, FS_RemoveElement
  <2> QED BY <1>1, <1>6, <2>1
<1>11. sum[rest] = Cardinality(Together(F, rest))
  <2> SUFFICES ASSUME sum[rest] # Cardinality(Together(F, rest)) PROVE FALSE
    OBVIOUS
  <2>1. Cardinality(rest) \in Bad BY <1>10 DEF Bad
  <2> QED BY <1>3, <1>5, <1>6, <1>10, <2>1
<1>12. Cardinality(Together(F, s)) =
         Cardinality(F[x]) + Cardinality(Together(F, rest))
  BY <1>8, OneMoreSet
<1> QED BY <1>6, <1>9, <1>11, <1>12

LEMMA SumOfSizes ==
  ASSUME NEW S, IsFiniteSet(S), NEW F, NEW W, Apart(S, F, W)
  PROVE  MapThenSumSet(LAMBDA s : Cardinality(F[s]), S)
           = Cardinality(UNION {F[x] : x \in S})
<1> DEFINE sizes == [s \in SUBSET S |-> Cardinality(Together(F, s))]
<1>1. SumsSizes(S, F, sizes)
  <2> SUFFICES ASSUME NEW s \in SUBSET S
               PROVE  sizes[s] =
                        IF s = {} THEN 0
                        ELSE Cardinality(F[CHOOSE x \in s : TRUE])
                               + sizes[s \ {CHOOSE x \in s : TRUE}]
    BY DEF SumsSizes
  <2>1. CASE s = {}
    <3>1. sizes[{}] = Cardinality(Together(F, {})) OBVIOUS
    <3>2. Cardinality(Together(F, {})) = 0 BY NoSets
    <3> HIDE DEF sizes
    <3> QED BY <2>1, <3>1, <3>2
  <2>2. CASE s # {}
    <3> DEFINE x == CHOOSE y \in s : TRUE
               rest == s \ {x}
    <3>1. x \in s BY <2>2
    <3> HIDE DEF x
    <3>2. Cardinality(Together(F, s)) =
            Cardinality(F[x]) + Cardinality(Together(F, rest))
      BY <3>1, OneMoreSet
    <3>3. /\ sizes[rest] = Cardinality(Together(F, rest))
          /\ sizes[s] = Cardinality(Together(F, s))
      OBVIOUS
    <3> HIDE DEF sizes
    <3>4. sizes[s] = Cardinality(F[x]) + sizes[rest] BY <3>2, <3>3
    <3> QED BY <2>2, <3>4 DEF x
  <2> QED BY <2>1, <2>2
<1> HIDE DEF sizes
<1>2. SumsSizes(S, F, TheSums(S, F)) BY <1>1 DEF TheSums
<1>3. \A s \in SUBSET S :
        TheSums(S, F)[s] = Cardinality(Together(F, s))
  BY <1>2, SumsAreSizes
<1>4. TheSums(S, F)[S] = Cardinality(Together(F, S)) BY <1>3
<1>5. MapThenSumSet(LAMBDA s : Cardinality(F[s]), S) = TheSums(S, F)[S]
  BY SumIsOne, Zenon
<1> QED BY <1>4, <1>5, Zenon DEF Together

\* A file that was counted and copied has the rows of the snapshot.
Taken(f) ==
  /\ copied[f] = RowsOf(f, snapshot)
  /\ results[f] = Cardinality(RowsOf(f, snapshot))

ExportTypeOK ==
  /\ exporting \in {"idle", "count", "copy", "replace", "manifest", "done"}
  /\ exporting \in {"count", "copy", "replace"} => turn \in 1..Len(FileOrder)
  /\ DOMAIN copied = Files /\ copied = [f \in Files |-> copied[f]]
  /\ DOMAIN results = Files /\ results = [f \in Files |-> results[f]]
  /\ DOMAIN files = Files /\ files = [f \in Files |-> files[f]]

\* The files before turn are taken, or in place.
ExportInv ==
  /\ ExportTypeOK
  /\ exporting \in {"count", "copy"} =>
       \A i \in 1..(turn - 1) : Taken(FileOrder[i])
  /\ exporting = "copy" =>
       results[Current] = Cardinality(RowsOf(Current, snapshot))
  /\ exporting \in {"replace", "manifest", "done"} => \A f \in Files : Taken(f)
  /\ exporting = "replace" =>
       \A i \in 1..(turn - 1) :
         files[FileOrder[i]] = RowsOf(FileOrder[i], snapshot)
  /\ exporting \in {"manifest", "done"} =>
       \A f \in Files : files[f] = RowsOf(f, snapshot)
  /\ exporting = "done" => manifest = results

LEMMA OrderFacts ==
  /\ Len(FileOrder) \in Nat \ {0} /\ DOMAIN FileOrder = 1..Len(FileOrder)
  /\ \A i \in 1..Len(FileOrder) : FileOrder[i] \in Files
  /\ \A f \in Files : \E i \in 1..Len(FileOrder) : FileOrder[i] = f
<1>1. FileOrder \in Seq(Files) BY ExporterAssumption
<1>2. /\ Len(FileOrder) \in Nat /\ DOMAIN FileOrder = 1..Len(FileOrder)
      /\ \A i \in 1..Len(FileOrder) : FileOrder[i] \in Files
  BY <1>1
<1>3. \A f \in Files : \E i \in 1..Len(FileOrder) : FileOrder[i] = f
  BY <1>2, ExporterAssumption
<1>4. Combined \in Files BY DEF Files
<1> QED BY <1>2, <1>3, <1>4

LEMMA ExportStart == ExportInit(ExportBudget) => ExportInv
BY DEF ExportInit, ExportInv, ExportTypeOK, NoRows, NoCounts

LEMMA BeginKeeps ==
  ASSUME ExportInv, BeginExport
  PROVE  ExportInv'
<1>1. /\ exporting' = "count" /\ turn' = 1
      /\ copied' = NoRows /\ results' = NoCounts /\ UNCHANGED files
  BY DEF BeginExport
<1>2. 1 \in 1..Len(FileOrder) BY OrderFacts
<1>3. ExportTypeOK'
  BY <1>1, <1>2 DEF ExportInv, ExportTypeOK, NoRows, NoCounts
<1>4. 1..(turn' - 1) = {} BY <1>1
<1> QED BY <1>1, <1>3, <1>4 DEF ExportInv

LEMMA CountKeeps ==
  ASSUME ExportInv, CountRows
  PROVE  ExportInv'
<1>1. /\ exporting = "count" /\ exporting' = "copy"
      /\ turn' = turn /\ copied' = copied /\ files' = files
      /\ snapshot' = IF turn = 1 THEN hash ELSE snapshot
      /\ results' = [results EXCEPT
           ![Current] = Cardinality(RowsOf(Current, snapshot'))]
  BY DEF CountRows, Visible
<1>2. ExportTypeOK /\ turn \in 1..Len(FileOrder)
  BY <1>1 DEF ExportInv, ExportTypeOK
<1>3. Current \in Files BY <1>2, OrderFacts DEF Current
<1>4. /\ DOMAIN results' = Files /\ results' = [f \in Files |-> results'[f]]
      /\ results'[Current] = Cardinality(RowsOf(Current, snapshot'))
      /\ \A f \in Files : f # Current => results'[f] = results[f]
  BY <1>1, <1>2, <1>3 DEF ExportTypeOK
<1>5. ExportTypeOK' BY <1>1, <1>2, <1>4 DEF ExportTypeOK
<1>6. \A i \in 1..(turn - 1) : Taken(FileOrder[i])'
  <2> SUFFICES ASSUME NEW i \in 1..(turn - 1) PROVE Taken(FileOrder[i])'
    OBVIOUS
  <2>1. turn # 1 /\ i \in 1..Len(FileOrder) BY <1>2, OrderFacts
  <2>2. Taken(FileOrder[i]) BY <1>1 DEF ExportInv
  <2>3. snapshot' = snapshot BY <1>1, <2>1
  <2>4. FileOrder[i] \in Files BY <2>1, OrderFacts
  <2>5. results'[FileOrder[i]] = Cardinality(RowsOf(FileOrder[i], snapshot))
    BY <1>4, <2>2, <2>3, <2>4 DEF Taken
  <2> QED BY <1>1, <2>2, <2>3, <2>5 DEF Taken
<1>7. Current' = Current BY <1>1 DEF Current
<1> QED BY <1>1, <1>4, <1>5, <1>6, <1>7 DEF ExportInv

LEMMA CopyKeeps ==
  ASSUME ExportInv, CopyRows
  PROVE  ExportInv'
<1>1. /\ exporting = "copy"
      /\ copied' = [copied EXCEPT ![Current] = RowsOf(Current, snapshot)]
      /\ UNCHANGED <<snapshot, results, files, manifest>>
      /\ \/ turn < Len(FileOrder) /\ exporting' = "count" /\ turn' = turn + 1
         \/ ~(turn < Len(FileOrder)) /\ exporting' = "replace" /\ turn' = 1
  BY DEF CopyRows, Visible
<1>2. /\ ExportTypeOK /\ turn \in 1..Len(FileOrder)
      /\ results[Current] = Cardinality(RowsOf(Current, snapshot))
      /\ \A i \in 1..(turn - 1) : Taken(FileOrder[i])
  BY <1>1 DEF ExportInv, ExportTypeOK
<1>3. Current \in Files BY <1>2, OrderFacts DEF Current
<1>4. /\ DOMAIN copied' = Files /\ copied' = [f \in Files |-> copied'[f]]
      /\ copied'[Current] = RowsOf(Current, snapshot)
      /\ \A f \in Files : f # Current => copied'[f] = copied[f]
  BY <1>1, <1>2, <1>3 DEF ExportTypeOK
<1>5. turn' \in 1..Len(FileOrder)
  <2>1. Len(FileOrder) \in Nat \ {0} BY OrderFacts
  <2>2. turn' \in {turn, 1} \/ (turn' = turn + 1 /\ turn < Len(FileOrder))
    BY <1>1
  <2> QED BY <1>2, <2>1, <2>2
<1>6. ExportTypeOK' BY <1>1, <1>2, <1>4, <1>5 DEF ExportTypeOK
<1>7. ASSUME NEW i \in 1..turn PROVE Taken(FileOrder[i])'
  <2>1. FileOrder[i] \in Files BY <1>2, OrderFacts
  <2>2. CASE FileOrder[i] = Current
    BY <1>1, <1>2, <1>4, <2>2 DEF Taken
  <2>3. CASE FileOrder[i] # Current
    <3>1. Len(FileOrder) \in Nat /\ i # turn BY <2>3, OrderFacts DEF Current
    <3>2. i \in 1..(turn - 1) BY <1>2, <3>1
    <3> QED BY <1>1, <1>2, <1>4, <2>1, <2>3, <3>2 DEF Taken
  <2> QED BY <2>2, <2>3
<1>8. CASE exporting' = "count"
  <2>1. 1..(turn' - 1) = 1..turn BY <1>1, <1>2, <1>8, OrderFacts
  <2> QED BY <1>6, <1>7, <1>8, <2>1 DEF ExportInv
<1>9. CASE exporting' = "replace"
  <2>0. Len(FileOrder) \in Nat BY OrderFacts
  <2>1. turn = Len(FileOrder) /\ turn' = 1
    <3>1. turn' = 1 /\ ~(turn < Len(FileOrder)) BY <1>1, <1>9
    <3> QED BY <1>2, <2>0, <3>1
  <2>2. \A f \in Files : Taken(f)' BY <1>7, <2>1, OrderFacts
  <2>3. 1..(turn' - 1) = {} BY <2>1
  <2> QED BY <1>6, <1>9, <2>2, <2>3 DEF ExportInv
<1> QED BY <1>1, <1>8, <1>9

LEMMA ReplaceKeeps ==
  ASSUME ExportInv, ReplaceFile
  PROVE  ExportInv'
<1>1. /\ exporting = "replace"
      /\ files' = [files EXCEPT ![Current] = copied[Current]]
      /\ UNCHANGED <<snapshot, copied, results, manifest>>
      /\ \/ turn < Len(FileOrder) /\ exporting' = "replace" /\ turn' = turn + 1
         \/ ~(turn < Len(FileOrder)) /\ exporting' = "manifest" /\ turn' = turn
  BY DEF ReplaceFile
<1>2. /\ ExportTypeOK /\ turn \in 1..Len(FileOrder)
      /\ \A f \in Files : Taken(f)
      /\ \A i \in 1..(turn - 1) :
           files[FileOrder[i]] = RowsOf(FileOrder[i], snapshot)
  BY <1>1 DEF ExportInv, ExportTypeOK
<1>3. Current \in Files BY <1>2, OrderFacts DEF Current
<1>4. /\ DOMAIN files' = Files /\ files' = [f \in Files |-> files'[f]]
      /\ files'[Current] = RowsOf(Current, snapshot)
      /\ \A f \in Files : f # Current => files'[f] = files[f]
  BY <1>1, <1>2, <1>3 DEF ExportTypeOK, Taken
<1>5. turn' \in 1..Len(FileOrder)
  <2>1. Len(FileOrder) \in Nat \ {0} BY OrderFacts
  <2>2. turn' \in {turn, 1} \/ (turn' = turn + 1 /\ turn < Len(FileOrder))
    BY <1>1
  <2> QED BY <1>2, <2>1, <2>2
<1>6. ExportTypeOK' BY <1>1, <1>2, <1>4, <1>5 DEF ExportTypeOK
<1>7. \A f \in Files : Taken(f)' BY <1>1, <1>2 DEF Taken
<1>8. ASSUME NEW i \in 1..turn
      PROVE  files'[FileOrder[i]] = RowsOf(FileOrder[i], snapshot)
  <2>1. FileOrder[i] \in Files BY <1>2, OrderFacts
  <2>2. CASE FileOrder[i] = Current BY <1>4, <2>2
  <2>3. CASE FileOrder[i] # Current
    <3>1. Len(FileOrder) \in Nat /\ i # turn BY <2>3, OrderFacts DEF Current
    <3>2. i \in 1..(turn - 1) BY <1>2, <3>1
    <3> QED BY <1>2, <1>4, <2>1, <2>3, <3>2
  <2> QED BY <2>2, <2>3
<1>9. CASE exporting' = "replace"
  <2>1. 1..(turn' - 1) = 1..turn BY <1>1, <1>2, <1>9, OrderFacts
  <2> QED BY <1>1, <1>6, <1>7, <1>8, <1>9, <2>1 DEF ExportInv
<1>10. CASE exporting' = "manifest"
  <2>0. Len(FileOrder) \in Nat BY OrderFacts
  <2>1. turn = Len(FileOrder)
    <3>1. ~(turn < Len(FileOrder)) BY <1>1, <1>10
    <3> QED BY <1>2, <2>0, <3>1
  <2>2. \A f \in Files : files'[f] = RowsOf(f, snapshot)
    BY <1>8, <2>1, OrderFacts
  <2> QED BY <1>1, <1>6, <1>7, <1>10, <2>2 DEF ExportInv
<1> QED BY <1>1, <1>9, <1>10

LEMMA ExportStep == ExportInv /\ [ExportNext]_exportVars => ExportInv'
<1> SUFFICES ASSUME ExportInv, [ExportNext]_exportVars PROVE ExportInv'
  OBVIOUS
<1>1. CASE BeginExport BY <1>1, BeginKeeps
<1>2. CASE CountRows BY <1>2, CountKeeps
<1>3. CASE CopyRows BY <1>3, CopyKeeps
<1>4. CASE ReplaceFile BY <1>4, ReplaceKeeps
<1>5. CASE WriteManifest
  BY <1>5 DEF WriteManifest, ExportInv, ExportTypeOK, Taken
<1>6. CASE ExportFails
  BY <1>6 DEF ExportFails, ExportInv, ExportTypeOK
<1>7. CASE UNCHANGED exportVars
  BY <1>7 DEF exportVars, ExportInv, ExportTypeOK, Taken, Current
<1> QED BY <1>1, <1>2, <1>3, <1>4, <1>5, <1>6, <1>7 DEF ExportNext

\* The inductive invariant of an export: the files that the turn has passed are
\* copied from the snapshot and counted, then in place, and the manifest has
\* their counts.
THEOREM ExportInvariant == ExportSpec => []ExportInv
BY ExportStart, ExportStep, PTL DEF ExportSpec

\* The rows of a file are finitely many; those of the sources do not overlap and
\* are those of all sources together.
LEMMA RowsAreFinite ==
  ASSUME NEW f, NEW c
  PROVE  IsFiniteSet(RowsOf(f, c))
<1> DEFINE of == {x \in Entities :
                    c[x] # NoContent /\ (f = Combined \/ SourceOf[x] = f)}
           row == [e \in of |-> <<e, c[e]>>]
<1>1. IsFiniteSet(of)
  <2>1. IsFiniteSet(Entities) BY ExporterAssumption
  <2>2. of \in SUBSET Entities OBVIOUS
  <2> HIDE DEF of
  <2> QED BY <2>1, <2>2, FS_Subset
<1>2. RowsOf(f, c) = {<<e, c[e]>> : e \in of} BY DEF RowsOf
<1> HIDE DEF of
<1>3. row \in Surjection(of, RowsOf(f, c)) BY <1>2 DEF Surjection
<1> HIDE DEF row
<1> QED BY <1>1, <1>3, FS_Surjection

LEMMA SourcesAreFinite == IsFiniteSet(ExportSources)
<1> DEFINE n == Len(FileOrder)
           file == [i \in 1..n |-> FileOrder[i]]
<1>1. n \in Nat BY OrderFacts
<1>2. file \in Surjection(1..n, Files) BY OrderFacts DEF Surjection
<1>3. IsFiniteSet(1..n) BY <1>1, FS_Interval
<1> HIDE DEF file, n
<1>4. IsFiniteSet(Files) BY <1>2, <1>3, FS_Surjection
<1>5. ExportSources \in SUBSET Files BY DEF Files
<1> QED BY <1>4, <1>5, FS_Subset

LEMMA RowsOfSource ==
  ASSUME NEW s \in ExportSources, NEW c
  PROVE  RowsOf(s, c) =
           {<<e, c[e]>> : e \in {x \in Entities :
              c[x] # NoContent /\ SourceOf[x] = s}}
<1>1. s # Combined BY ExporterAssumption
<1> QED BY <1>1 DEF RowsOf

LEMMA SourcesPartRows ==
  ASSUME NEW c
  PROVE  /\ RowsOf(Combined, c) = UNION {RowsOf(s, c) : s \in ExportSources}
         /\ \A s, t \in ExportSources :
              s # t => RowsOf(s, c) \cap RowsOf(t, c) = {}
<1>1. RowsOf(Combined, c) =
        {<<e, c[e]>> : e \in {x \in Entities : c[x] # NoContent}}
  BY DEF RowsOf
<1>2. ASSUME NEW r \in RowsOf(Combined, c)
      PROVE  r \in UNION {RowsOf(s, c) : s \in ExportSources}
  <2>1. PICK e \in Entities : c[e] # NoContent /\ r = <<e, c[e]>> BY <1>1
  <2>2. SourceOf[e] \in ExportSources BY DEF ExportSources
  <2>3. r \in RowsOf(SourceOf[e], c) BY <2>1, <2>2, RowsOfSource
  <2> QED BY <2>2, <2>3
<1>3. ASSUME NEW s \in ExportSources, NEW r \in RowsOf(s, c)
      PROVE  r \in RowsOf(Combined, c)
  BY <1>1, RowsOfSource
<1>4. ASSUME NEW s \in ExportSources, NEW t \in ExportSources,
             NEW r \in RowsOf(s, c), r \in RowsOf(t, c)
      PROVE  s = t
  <2>1. PICK e \in Entities : SourceOf[e] = s /\ r = <<e, c[e]>>
    BY RowsOfSource
  <2>2. PICK d \in Entities : SourceOf[d] = t /\ r = <<d, c[d]>>
    BY <1>4, RowsOfSource
  <2>3. e = d BY <2>1, <2>2
  <2> QED BY <2>1, <2>2, <2>3
<1> QED BY <1>2, <1>3, <1>4

LEMMA DoneIsOneSnapshot == ExportInv => ExportIsOneSnapshot
<1> SUFFICES ASSUME ExportInv, exporting = "done" PROVE
      /\ files[Combined] = UNION {files[s] : s \in ExportSources}
      /\ SplitsMatch
      /\ \A f \in Files : manifest[f] = Cardinality(files[f])
  BY DEF ExportIsOneSnapshot
<1>1. \A f \in Files : files[f] = RowsOf(f, snapshot) BY DEF ExportInv
<1>2. Combined \in Files /\ \A s \in ExportSources : s \in Files BY DEF Files
<1>3. files[Combined] = UNION {files[s] : s \in ExportSources}
  <2>1. RowsOf(Combined, snapshot) =
          UNION {RowsOf(s, snapshot) : s \in ExportSources}
    BY SourcesPartRows
  <2> QED BY <1>1, <1>2, <2>1
<1>4. \A f \in Files : manifest[f] = Cardinality(files[f])
  BY <1>1 DEF ExportInv, Taken
<1>5. SplitsMatch
  <2>1. Apart(ExportSources, files, files[Combined])
    <3>1. IsFiniteSet(files[Combined]) BY <1>1, <1>2, RowsAreFinite
    <3>2. \A s, t \in ExportSources : s # t => files[s] \cap files[t] = {}
      BY <1>1, <1>2, SourcesPartRows
    <3> QED BY <1>3, <3>1, <3>2 DEF Apart
  <2>2. MapThenSumSet(LAMBDA s : Cardinality(files[s]), ExportSources)
          = Cardinality(UNION {files[s] : s \in ExportSources})
    BY <2>1, SourcesAreFinite, SumOfSizes
  <2> QED BY <1>3, <2>2, Zenon DEF SplitsMatch
<1> QED BY <1>3, <1>4, <1>5

\* An export of any dataset in any order of the files, whatever is committed
\* meanwhile and behind whichever exports that failed half way: the files that
\* are in place when it ends well are of one snapshot, pass the validation, and
\* the manifest counts their rows.
THEOREM OneSnapshot == ExportSpec => []ExportIsOneSnapshot
BY ExportInvariant, DoneIsOneSnapshot, PTL

-----------------------------------------------------------------------------
\* NoticeLots.

\* How many of a set lie below a number: LotsBefore, of any set.
Below(S, n) == Cardinality({l \in S : l < n})

\* In a finite set of numbers a greater one has a later position, and no
\* position is left out.
LEMMA LaterPosition ==
  ASSUME NEW S, S \subseteq Nat, IsFiniteSet(S),
         NEW a \in S, NEW b \in Nat, a < b
  PROVE  Below(S, a) < Below(S, b)
<1> DEFINE A == {l \in S : l < a}
           B == {l \in S : l < b}
<1>1. IsFiniteSet(A) /\ IsFiniteSet(B)
  <2>1. A \in SUBSET S /\ B \in SUBSET S OBVIOUS
  <2> HIDE DEF A, B
  <2> QED BY <2>1, FS_Subset
<1>2. a \in Nat /\ b \in Nat /\ a \notin A /\ a \in B OBVIOUS
<1>3. A \cup {a} \subseteq B
  <2>1. \A l \in A : l \in B
    <3> SUFFICES ASSUME NEW l \in S, l < a PROVE l < b
      OBVIOUS
    <3>1. l \in Nat OBVIOUS
    <3> QED BY <1>2, <3>1
  <2> QED BY <1>2, <2>1
<1>4. Cardinality(A) + 1 <= Cardinality(B)
  <2> HIDE DEF A, B
  <2>1. Cardinality(A \cup {a}) = Cardinality(A) + 1
    BY <1>1, <1>2, FS_AddElement
  <2> QED BY <1>1, <1>3, <2>1, FS_Subset
<1>5. Cardinality(A) \in Nat /\ Cardinality(B) \in Nat
  <2> HIDE DEF A, B
  <2> QED BY <1>1, FS_CardinalityType
<1> QED BY <1>4, <1>5 DEF Below

LEMMA PositionIn ==
  ASSUME NEW S, S \subseteq Nat, IsFiniteSet(S), NEW a \in S
  PROVE  Below(S, a) \in 0..(Cardinality(S) - 1)
<1> DEFINE A == {l \in S : l < a}
<1>1. a \notin A /\ A \subseteq S /\ A # S OBVIOUS
<1>2. /\ IsFiniteSet(A) /\ Cardinality(A) <= Cardinality(S)
      /\ Cardinality(A) # Cardinality(S)
  <2> HIDE DEF A
  <2> QED BY <1>1, FS_Subset
<1>3. Cardinality(A) \in Nat /\ Cardinality(S) \in Nat
  <2> HIDE DEF A
  <2> QED BY <1>2, FS_CardinalityType
<1>4. Below(S, a) = Cardinality(A) BY DEF Below
<1> HIDE DEF A
<1> QED BY <1>2, <1>3, <1>4

LEMMA PositionsDiffer ==
  ASSUME NEW S, S \subseteq Nat, IsFiniteSet(S),
         NEW a \in S, NEW b \in S, Below(S, a) = Below(S, b)
  PROVE  a = b
<1>1. a \in Nat /\ b \in Nat OBVIOUS
<1>2. Cardinality(S) \in Nat BY FS_CardinalityType
<1>3. Below(S, a) \in 0..(Cardinality(S) - 1) BY PositionIn
<1>4. Below(S, a) \in Int /\ Below(S, b) \in Int BY <1>2, <1>3
<1>5. ~(a < b)
  <2>1. a < b => Below(S, a) < Below(S, b) BY <1>1, LaterPosition
  <2> QED BY <1>4, <2>1
<1>6. ~(b < a)
  <2>1. b < a => Below(S, b) < Below(S, a) BY <1>1, LaterPosition
  <2> QED BY <1>4, <2>1
<1> QED BY <1>1, <1>5, <1>6

LEMMA PositionsDense ==
  ASSUME NEW S, S \subseteq Nat, IsFiniteSet(S),
         NEW i \in 0..(Cardinality(S) - 1)
  PROVE  \E a \in S : Below(S, a) = i
<1> DEFINE T == 0..(Cardinality(S) - 1)
           f == [a \in S |-> Below(S, a)]
<1>1. Cardinality(S) \in Nat BY FS_CardinalityType
<1>2. IsFiniteSet(T) /\ Cardinality(T) = Cardinality(S)
  <2>1. Cardinality(S) - 1 \in Int BY <1>1
  <2> QED BY <1>1, <2>1, FS_Interval
<1>3. f \in Injection(S, T)
  <2>1. f \in [S -> T] BY PositionIn
  <2>2. \A a, b \in S : f[a] = f[b] => a = b BY PositionsDiffer
  <2> QED BY <2>1, <2>2 DEF Injection, IsInjective
<1>4. f \in Surjection(S, T)
  <2> HIDE DEF f, T
  <2> QED BY <1>2, <1>3, FS_Injection
<1>5. \E a \in S : f[a] = i
  <2> HIDE DEF f
  <2> QED BY <1>4, i \in T DEF Surjection
<1> QED BY <1>5

\* The lots that stand before the page that is asked for next and are missed.
Missed == {l \in kept \ attached : LotsBefore(l) < page * PageSize}

\* What was attached and is not listed any more was removed as well.
LotsInv ==
  /\ LotsTypeOK
  /\ reading = "pages" =>
       /\ Cardinality(Missed) <= removals
       /\ Cardinality(attached \ listed) <= removals
  /\ MissesOnlyForRemoved

LEMMA LotsAreFinite ==
  ASSUME NEW S, S \subseteq NoticeLotIds
  PROVE  IsFiniteSet(S) /\ Cardinality(S) \in Nat /\ S \subseteq Nat
<1>1. IsFiniteSet(NoticeLotIds) /\ NoticeLotIds \subseteq Nat
  BY NoticeAssumption
<1>2. IsFiniteSet(S) BY <1>1, FS_Subset
<1> QED BY <1>1, <1>2, FS_CardinalityType

\* Of two sets of lots the smaller one has no more elements.
LEMMA FewerLots ==
  ASSUME NEW S, NEW T, S \subseteq T, T \subseteq NoticeLotIds
  PROVE  Cardinality(S) <= Cardinality(T)
BY LotsAreFinite, FS_Subset

LEMMA PositionOfLot ==
  ASSUME LotsTypeOK, NEW l \in listed
  PROVE  /\ LotsBefore(l) = Below(listed, l)
         /\ LotsBefore(l) \in 0..(Cardinality(listed) - 1)
         /\ LotsBefore(l) \in Nat
<1>1. LotsBefore(l) = Below(listed, l) BY DEF LotsBefore, Below
<1>2. IsFiniteSet(listed) /\ listed \subseteq Nat /\ Cardinality(listed) \in Nat
  BY LotsAreFinite DEF LotsTypeOK
<1>3. Below(listed, l) \in 0..(Cardinality(listed) - 1) BY <1>2, PositionIn
<1> QED BY <1>1, <1>2, <1>3

LEMMA LotsSpendType ==
  ASSUME LotsTypeOK, NEW kind \in LotsEvents, LotsSpend(kind)
  PROVE  lotsBudget' \in [LotsEvents -> Nat]
BY SMT DEF LotsTypeOK, LotsSpend

\* The bounds of the pages, as numbers.
LEMMA PageBounds ==
  ASSUME NEW p \in Nat
  PROVE  /\ p * PageSize \in Nat
         /\ (p + 1) * PageSize = p * PageSize + PageSize
         /\ PageSize \in Nat \ {0}
BY NoticeAssumption, SMT

\* Behind a page that is not full there is no lot.
LEMMA ShortPageIsLast ==
  ASSUME LotsTypeOK, Cardinality(PageOf(page)) < PageSize, NEW l \in listed
  PROVE  LotsBefore(l) < (page + 1) * PageSize
<1> DEFINE first == page * PageSize
           T == first .. (first + PageSize - 1)
           f == [a \in PageOf(page) |-> LotsBefore(a)]
<1>1. /\ first \in Nat /\ (page + 1) * PageSize = first + PageSize
      /\ PageSize \in Nat \ {0}
  BY PageBounds DEF LotsTypeOK
<1>2. IsFiniteSet(listed) /\ listed \subseteq Nat /\ Cardinality(listed) \in Nat
  BY LotsAreFinite DEF LotsTypeOK
<1>3. LotsBefore(l) \in 0..(Cardinality(listed) - 1) /\ LotsBefore(l) \in Nat
  BY PositionOfLot
<1>4. PageOf(page) = {a \in listed : LotsBefore(a) \in T}
  BY <1>1 DEF PageOf
<1> HIDE DEF first
<1> SUFFICES ASSUME ~(LotsBefore(l) < first + PageSize) PROVE FALSE
  BY <1>1
<1>5. IsFiniteSet(T) /\ Cardinality(T) = PageSize
  <2>1. first + PageSize - 1 \in Int /\ first \in Int BY <1>1
  <2> QED BY <1>1, <2>1, FS_Interval
<1>6. f \in Surjection(PageOf(page), T)
  <2>1. f \in [PageOf(page) -> T] BY <1>4
  <2>2. ASSUME NEW i \in T PROVE \E a \in PageOf(page) : f[a] = i
    <3>1. i \in 0..(Cardinality(listed) - 1) BY <1>1, <1>2, <1>3
    <3>2. PICK a \in listed : Below(listed, a) = i
      BY <1>2, <3>1, PositionsDense
    <3>3. LotsBefore(a) = i BY <3>2, PositionOfLot
    <3>4. a \in PageOf(page) BY <1>4, <3>3
    <3> QED BY <3>3, <3>4
  <2> QED BY <2>1, <2>2 DEF Surjection
<1>7. IsFiniteSet(PageOf(page)) /\ Cardinality(PageOf(page)) \in Nat
  <2>1. PageOf(page) \subseteq NoticeLotIds BY DEF LotsTypeOK, PageOf
  <2> QED BY <2>1, LotsAreFinite
<1>8. Cardinality(T) <= Cardinality(PageOf(page))
  <2> HIDE DEF f, T
  <2> QED BY <1>6, <1>7, FS_Surjection
<1> QED BY <1>1, <1>5, <1>7, <1>8

\* A page takes the missed ones along only from behind the pages read so far.
LEMMA PageLeavesNone ==
  ASSUME LotsTypeOK
  PROVE  {l \in kept \ (attached \cup PageOf(page)) :
            LotsBefore(l) < (page + 1) * PageSize} \subseteq Missed
<1>1. /\ page * PageSize \in Nat
      /\ (page + 1) * PageSize = page * PageSize + PageSize
      /\ PageSize \in Nat \ {0}
  BY PageBounds DEF LotsTypeOK
<1> SUFFICES ASSUME NEW l \in kept, l \notin attached, l \notin PageOf(page),
                    LotsBefore(l) < (page + 1) * PageSize
             PROVE  l \in Missed
  OBVIOUS
<1>2. l \in listed BY DEF LotsTypeOK
<1>3. LotsBefore(l) \in Nat BY <1>2, PositionOfLot
<1>4. LotsBefore(l) \notin page * PageSize .. (page + 1) * PageSize - 1
  BY <1>2 DEF PageOf
<1> DEFINE first == page * PageSize
<1> HIDE DEF first
<1>5. LotsBefore(l) \notin first .. (first + PageSize) - 1
  BY <1>1, <1>4 DEF first
<1>6. LotsBefore(l) < first + PageSize BY <1>1 DEF first
<1>7. LotsBefore(l) < first BY <1>1, <1>3, <1>5, <1>6 DEF first
<1> QED BY <1>7 DEF Missed, first

LEMMA LotsStart == LotsInit(LotsBudget) => LotsInv
<1> SUFFICES ASSUME LotsInit(LotsBudget) PROVE LotsInv
  OBVIOUS
<1>1. LotsTypeOK BY NoticeAssumption DEF LotsInit, LotsTypeOK
<1>2. reading = "idle" BY DEF LotsInit
<1> QED BY <1>1, <1>2 DEF LotsInv, MissesOnlyForRemoved

LEMMA AttachKeeps ==
  ASSUME LotsInv, AttachPage
  PROVE  LotsInv'
<1> DEFINE read == attached \cup PageOf(page)
           left == {l \in kept \ read : LotsBefore(l) < (page + 1) * PageSize}
<1>1. LotsTypeOK /\ reading = "pages" BY DEF LotsInv, AttachPage
<1>2. /\ Cardinality(Missed) <= removals
      /\ Cardinality(attached \ listed) <= removals
  BY <1>1 DEF LotsInv
<1>3. /\ attached' = read /\ page' = page + 1
      /\ UNCHANGED <<listed, kept, removals, lotsBudget>>
  BY DEF AttachPage
<1>4. /\ PageOf(page) \subseteq listed /\ read \subseteq NoticeLotIds
      /\ listed \subseteq NoticeLotIds /\ kept \subseteq listed
      /\ kept \subseteq NoticeLotIds /\ Missed \subseteq NoticeLotIds
  BY <1>1 DEF LotsTypeOK, PageOf, Missed
<1>5. PICK hasTotal \in BOOLEAN :
        reading' = AfterPage(PageOf(page), read, hasTotal)
  BY DEF AttachPage
<1>6. reading' \in {"idle", "pages", "returned"}
  <2> HIDE DEF read
  <2> QED BY <1>5 DEF AfterPage
<1>7. LotsTypeOK'
  <2>1. page + 1 \in Nat BY <1>1 DEF LotsTypeOK
  <2> HIDE DEF read
  <2> QED BY <1>1, <1>3, <1>4, <1>6, <2>1 DEF LotsTypeOK
<1>8. removals \in Nat BY <1>1 DEF LotsTypeOK
<1>9. Cardinality(left) <= removals /\ Cardinality(left) \in Nat
  <2>1. left \subseteq Missed BY <1>1, PageLeavesNone
  <2>2. left \subseteq NoticeLotIds BY <1>4
  <2> HIDE DEF left
  <2>3. /\ Cardinality(left) <= Cardinality(Missed)
        /\ Cardinality(left) \in Nat /\ Cardinality(Missed) \in Nat
    BY <1>4, <2>1, <2>2, FewerLots, LotsAreFinite
  <2> QED BY <1>2, <1>8, <2>3
<1>10. read \ listed = attached \ listed BY <1>4
<1>11. Missed' = left
  <2>1. \A l : LotsBefore(l)' = LotsBefore(l) BY <1>3 DEF LotsBefore
  <2> QED BY <1>3, <2>1 DEF Missed
<1>12. reading' = "returned" => Cardinality(kept \ read) <= removals
  <2> SUFFICES ASSUME reading' = "returned"
               PROVE  Cardinality(kept \ read) <= removals
    OBVIOUS
  <2>1. \/ AllSeen(read, Cardinality(listed))
        \/ Cardinality(PageOf(page)) < PageSize
    <3> HIDE DEF read
    <3> QED BY <1>5 DEF AfterPage
  <2>2. CASE Cardinality(PageOf(page)) < PageSize
    <3>1. \A l \in kept : LotsBefore(l) < (page + 1) * PageSize
      BY <1>1, <1>4, <2>2, ShortPageIsLast
    <3>2. kept \ read = left BY <3>1
    <3> QED BY <1>9, <3>2
  <2>3. CASE AllSeen(read, Cardinality(listed))
    <3> HIDE DEF read
    <3>1. IsFiniteSet(read) /\ IsFiniteSet(listed) BY <1>4, LotsAreFinite
    <3>2. /\ Cardinality(listed \ read) =
               Cardinality(listed) - Cardinality(listed \cap read)
          /\ Cardinality(read \ listed) =
               Cardinality(read) - Cardinality(read \cap listed)
      BY <3>1, FS_Difference
    <3>3. /\ listed \cap read = read \cap listed
          /\ kept \ read \subseteq listed \ read
          /\ listed \ read \subseteq NoticeLotIds
          /\ kept \ read \subseteq NoticeLotIds
          /\ read \ listed \subseteq NoticeLotIds
          /\ read \cap listed \subseteq NoticeLotIds
      BY <1>4
    <3>4. /\ Cardinality(listed \ read) \in Nat
          /\ Cardinality(read \ listed) \in Nat
          /\ Cardinality(kept \ read) \in Nat
          /\ Cardinality(read \cap listed) \in Nat
          /\ Cardinality(read) \in Nat /\ Cardinality(listed) \in Nat
      BY <1>4, <3>3, LotsAreFinite
    <3>5. Cardinality(kept \ read) <= Cardinality(listed \ read)
      BY <3>3, FewerLots
    <3>6. Cardinality(read) >= Cardinality(listed) BY <2>3 DEF AllSeen
    <3>7. Cardinality(read \ listed) <= removals BY <1>2, <1>10
    <3>8. Cardinality(listed \cap read) = Cardinality(read \cap listed)
      BY <3>3
    <3> QED BY <1>8, <3>2, <3>4, <3>5, <3>6, <3>7, <3>8
  <2> QED BY <2>1, <2>2, <2>3
<1> HIDE DEF read, left
<1>13. (attached \ listed)' = attached \ listed BY <1>3, <1>10
<1>14. MissesOnlyForRemoved' BY <1>3, <1>12 DEF MissesOnlyForRemoved
<1> QED BY <1>2, <1>3, <1>7, <1>9, <1>11, <1>13, <1>14 DEF LotsInv

\* A lot that is new in front of others only moves them on.
LEMMA AddKeeps ==
  ASSUME LotsInv, NEW lot \in NoticeLotIds, AddLot(lot)
  PROVE  LotsInv'
<1>1. /\ LotsTypeOK /\ listed' = listed \cup {lot}
      /\ UNCHANGED <<kept, removals, reading, page, attached>>
  BY DEF LotsInv, AddLot
<1>2. LotsTypeOK'
  <2>1. lotsBudget' \in [LotsEvents -> Nat]
    BY <1>1, LotsSpendType DEF AddLot, LotsEvents
  <2> QED BY <1>1, <2>1 DEF LotsTypeOK
<1>3. /\ Missed \subseteq NoticeLotIds /\ Missed' \subseteq NoticeLotIds
      /\ attached \ listed \subseteq NoticeLotIds
      /\ removals \in Nat /\ page * PageSize \in Nat
  BY <1>1, <1>2, PageBounds DEF LotsTypeOK, Missed
<1>4. Missed' \subseteq Missed
  <2> SUFFICES ASSUME NEW l \in Missed' PROVE l \in Missed
    OBVIOUS
  <2>1. /\ l \in kept /\ l \notin attached
        /\ Below(listed', l) < page * PageSize
    BY <1>1 DEF Missed, LotsBefore, Below
  <2>2. Below(listed, l) <= Below(listed', l)
    <3>1. {x \in listed : x < l} \subseteq {x \in listed' : x < l}
      BY <1>1
    <3>2. {x \in listed' : x < l} \subseteq NoticeLotIds
      BY <1>2 DEF LotsTypeOK
    <3> QED BY <3>1, <3>2, FewerLots DEF Below
  <2>3. Below(listed, l) \in Nat /\ Below(listed', l) \in Nat
    <3>1. /\ {x \in listed : x < l} \subseteq NoticeLotIds
          /\ {x \in listed' : x < l} \subseteq NoticeLotIds
      BY <1>1, <1>2 DEF LotsTypeOK
    <3> QED BY <3>1, LotsAreFinite DEF Below
  <2>4. Below(listed, l) < page * PageSize
    <3> DEFINE first == page * PageSize
    <3>1. first \in Nat BY <1>3
    <3>2. Below(listed', l) < first BY <2>1
    <3> HIDE DEF first
    <3>3. Below(listed, l) < first BY <2>2, <2>3, <3>1, <3>2
    <3> QED BY <3>3 DEF first
  <2> QED BY <2>1, <2>4 DEF Missed, LotsBefore, Below
<1>5. /\ Cardinality(Missed') <= Cardinality(Missed)
      /\ Cardinality(Missed') \in Nat /\ Cardinality(Missed) \in Nat
  BY <1>3, <1>4, FewerLots, LotsAreFinite
<1>6. /\ Cardinality(attached \ listed') <= Cardinality(attached \ listed)
      /\ Cardinality(attached \ listed) \in Nat
      /\ Cardinality(attached \ listed') \in Nat
  <2>1. /\ attached \ listed' \subseteq attached \ listed
        /\ attached \ listed' \subseteq NoticeLotIds
    BY <1>1, <1>3
  <2> QED BY <1>3, <2>1, FewerLots, LotsAreFinite
<1>7. reading = "pages" => /\ Cardinality(Missed') <= removals
                          /\ Cardinality(attached \ listed') <= removals
  <2>1. reading = "pages" => /\ Cardinality(Missed) <= removals
                            /\ Cardinality(attached \ listed) <= removals
    BY DEF LotsInv
  <2> QED BY <1>3, <1>5, <1>6, <2>1
<1>8. MissesOnlyForRemoved' BY <1>1 DEF LotsInv, MissesOnlyForRemoved
<1> QED BY <1>1, <1>2, <1>7, <1>8 DEF LotsInv

\* A lot that goes moves those behind it back by one: of them only the one that
\* was the first of the next page falls behind the pages read so far.
LEMMA RemoveMissesOne ==
  ASSUME LotsTypeOK, LotsTypeOK', NEW lot \in NoticeLotIds, RemoveLot(lot)
  PROVE  \E x : Missed' \subseteq Missed \cup {x}
<1> DEFINE first == page * PageSize
           onEdge == {l \in listed : LotsBefore(l) = first}
<1>1. /\ listed' = listed \ {lot} /\ kept' = kept \ {lot}
      /\ UNCHANGED <<reading, page, attached>>
  BY DEF RemoveLot
<1>2. first \in Nat BY PageBounds DEF LotsTypeOK
<1>3. \A l \in Missed' : l \in Missed \/ l \in onEdge
  <2> SUFFICES ASSUME NEW l \in Missed' PROVE l \in Missed \/ l \in onEdge
    OBVIOUS
  <2>1. /\ l \in kept /\ l \notin attached /\ Below(listed', l) < first
    BY <1>1 DEF Missed, LotsBefore, Below
  <2>2. l \in listed BY <2>1 DEF LotsTypeOK
  <2> DEFINE A == {x \in listed : x < l}
             B == {x \in listed' : x < l}
  <2>3. A \subseteq NoticeLotIds /\ B = A \ {lot} BY <1>1 DEF LotsTypeOK
  <2> HIDE DEF A, B
  <2>4. IsFiniteSet(A) /\ Cardinality(A) \in Nat BY <2>3, LotsAreFinite
  <2>5. Cardinality(B) >= Cardinality(A) - 1 /\ Cardinality(B) \in Nat
    <3>1. Cardinality(A \ {lot}) =
            IF lot \in A THEN Cardinality(A) - 1 ELSE Cardinality(A)
      BY <2>4, FS_RemoveElement
    <3>2. B \subseteq NoticeLotIds BY <2>3
    <3>3. Cardinality(B) \in Nat BY <3>2, LotsAreFinite
    <3> QED BY <2>3, <2>4, <3>1, <3>3
  <2>6. LotsBefore(l) = Cardinality(A) /\ Cardinality(B) < first
    BY <2>1 DEF A, B, LotsBefore, Below
  <2>7. LotsBefore(l) < first \/ LotsBefore(l) = first
    <3> HIDE DEF first
    <3> QED BY <1>2, <2>4, <2>5, <2>6
  <2> QED BY <2>1, <2>2, <2>7 DEF Missed
<1>4. \A a, b \in onEdge : a = b
  <2> SUFFICES ASSUME NEW a \in onEdge, NEW b \in onEdge PROVE a = b
    OBVIOUS
  <2>1. Below(listed, a) = Below(listed, b) BY PositionOfLot
  <2>2. IsFiniteSet(listed) /\ listed \subseteq Nat
    BY LotsAreFinite DEF LotsTypeOK
  <2> QED BY <2>1, <2>2, PositionsDiffer
<1> HIDE DEF onEdge
<1>5. CASE onEdge = {} BY <1>3, <1>5
<1>6. CASE onEdge # {}
  <2>1. PICK x : x \in onEdge BY <1>6
  <2>2. Missed' \subseteq Missed \cup {x} BY <1>3, <1>4, <2>1
  <2> QED BY <2>2
<1> QED BY <1>5, <1>6

LEMMA RemoveKeeps ==
  ASSUME LotsInv, NEW lot \in NoticeLotIds, RemoveLot(lot)
  PROVE  LotsInv'
<1>1. /\ LotsTypeOK /\ listed' = listed \ {lot} /\ kept' = kept \ {lot}
      /\ removals' = removals + 1
      /\ UNCHANGED <<reading, page, attached>>
  BY DEF LotsInv, RemoveLot
<1>2. LotsTypeOK'
  <2>1. lotsBudget' \in [LotsEvents -> Nat]
    BY <1>1, LotsSpendType DEF RemoveLot, LotsEvents
  <2> QED BY <1>1, <2>1 DEF LotsTypeOK
<1>3. /\ Missed \subseteq NoticeLotIds /\ Missed' \subseteq NoticeLotIds
      /\ attached \ listed \subseteq NoticeLotIds
      /\ kept \ attached \subseteq NoticeLotIds
      /\ removals \in Nat
  BY <1>1, <1>2 DEF LotsTypeOK, Missed
<1>4. /\ Cardinality(Missed') <= Cardinality(Missed) + 1
      /\ Cardinality(Missed') \in Nat /\ Cardinality(Missed) \in Nat
  <2>1. PICK x : Missed' \subseteq Missed \cup {x}
    BY <1>1, <1>2, RemoveMissesOne
  <2>2. /\ IsFiniteSet(Missed) /\ Cardinality(Missed) \in Nat
        /\ Cardinality(Missed') \in Nat
    BY <1>3, LotsAreFinite
  <2>3. /\ IsFiniteSet(Missed \cup {x})
        /\ Cardinality(Missed \cup {x}) =
             IF x \in Missed THEN Cardinality(Missed)
             ELSE Cardinality(Missed) + 1
    BY <2>2, FS_AddElement
  <2>4. Cardinality(Missed') <= Cardinality(Missed \cup {x})
    BY <2>1, <2>3, FS_Subset
  <2> QED BY <2>2, <2>3, <2>4
<1>5. /\ Cardinality(attached \ listed') <= Cardinality(attached \ listed) + 1
      /\ Cardinality(attached \ listed) \in Nat
      /\ Cardinality(attached \ listed') \in Nat
  <2> DEFINE A == attached \ listed
             B == attached \ listed'
  <2>1. B \subseteq A \cup {lot} /\ B \subseteq NoticeLotIds
        /\ A \subseteq NoticeLotIds
    BY <1>1, <1>3 DEF LotsTypeOK
  <2> HIDE DEF A, B
  <2>2. /\ IsFiniteSet(A) /\ Cardinality(A) \in Nat /\ Cardinality(B) \in Nat
    BY <2>1, LotsAreFinite
  <2>3. /\ IsFiniteSet(A \cup {lot})
        /\ Cardinality(A \cup {lot}) =
             IF lot \in A THEN Cardinality(A) ELSE Cardinality(A) + 1
    BY <2>2, FS_AddElement
  <2>4. Cardinality(B) <= Cardinality(A \cup {lot}) BY <2>1, <2>3, FS_Subset
  <2>5. Cardinality(B) <= Cardinality(A) + 1 BY <2>2, <2>3, <2>4
  <2> QED BY <2>2, <2>5 DEF A, B
<1>6. /\ Cardinality(kept' \ attached) <= Cardinality(kept \ attached)
      /\ Cardinality(kept' \ attached) \in Nat
      /\ Cardinality(kept \ attached) \in Nat
  <2>1. kept' \ attached \subseteq kept \ attached
        /\ kept' \ attached \subseteq NoticeLotIds
    BY <1>1, <1>3
  <2> QED BY <1>3, <2>1, FewerLots, LotsAreFinite
<1>7. reading = "pages" => /\ Cardinality(Missed') <= removals'
                          /\ Cardinality(attached \ listed') <= removals'
  <2>1. reading = "pages" => /\ Cardinality(Missed) <= removals
                            /\ Cardinality(attached \ listed) <= removals
    BY DEF LotsInv
  <2> QED BY <1>1, <1>3, <1>4, <1>5, <2>1
<1>8. reading = "returned" => Cardinality(kept' \ attached) <= removals'
  <2>1. reading = "returned" => Cardinality(kept \ attached) <= removals
    BY DEF LotsInv, MissesOnlyForRemoved
  <2> QED BY <1>1, <1>3, <1>6, <2>1
<1>9. MissesOnlyForRemoved' BY <1>1, <1>8 DEF MissesOnlyForRemoved
<1> QED BY <1>1, <1>2, <1>7, <1>9 DEF LotsInv

\* The first page is asked for: nothing was missed and nothing removed so far.
LEMMA DetailsKeeps ==
  ASSUME LotsInv, Details
  PROVE  LotsInv'
<1>1. /\ LotsTypeOK /\ reading' = "pages" /\ page' = 0 /\ attached' = {}
      /\ kept' = listed /\ removals' = 0 /\ UNCHANGED <<listed, lotsBudget>>
  BY DEF LotsInv, Details
<1>2. LotsTypeOK' BY <1>1 DEF LotsTypeOK
<1>3. PageSize \in Nat BY PageBounds
<1>4. Missed' = {}
  <2>1. page' * PageSize = 0 BY <1>1, <1>3
  <2>2. \A l \in listed : (LotsBefore(l)') \in Nat
    <3>1. \A l \in listed : LotsBefore(l) \in Nat BY <1>1, PositionOfLot
    <3> QED BY <1>1, <3>1 DEF LotsBefore
  <2>3. \A l \in listed : ~((LotsBefore(l)') < 0) BY <2>2
  <2> QED BY <1>1, <2>1, <2>3 DEF Missed
<1>5. Cardinality({}) = 0 BY FS_EmptySet
<1>6. (attached \ listed)' = {} BY <1>1
<1> QED BY <1>1, <1>2, <1>4, <1>5, <1>6 DEF LotsInv, MissesOnlyForRemoved

\* A request that begins or fails is not one that reads pages or has returned.
LEMMA OthersKeep ==
  ASSUME LotsInv, Extract \/ RequestFails
  PROVE  LotsInv'
<1>1. /\ LotsTypeOK /\ reading' \in {"details", "idle"}
      /\ UNCHANGED <<listed, kept, removals, page, attached>>
      /\ lotsBudget' \in [LotsEvents -> Nat]
  BY LotsSpendType DEF LotsInv, Extract, RequestFails, LotsEvents
<1>2. LotsTypeOK' BY <1>1 DEF LotsTypeOK
<1> QED BY <1>1, <1>2 DEF LotsInv, MissesOnlyForRemoved

LEMMA LotsStep == LotsInv /\ [LotsNext]_lotsVars => LotsInv'
<1> SUFFICES ASSUME LotsInv, [LotsNext]_lotsVars PROVE LotsInv'
  OBVIOUS
<1>1. CASE Extract \/ RequestFails BY <1>1, OthersKeep
<1>2. CASE Details BY <1>2, DetailsKeeps
<1>3. CASE AttachPage BY <1>3, AttachKeeps
<1>4. ASSUME NEW lot \in NoticeLotIds, AddLot(lot) PROVE LotsInv'
  BY <1>4, AddKeeps
<1>5. ASSUME NEW lot \in NoticeLotIds, RemoveLot(lot) PROVE LotsInv'
  BY <1>5, RemoveKeeps
<1>6. CASE UNCHANGED lotsVars
  BY <1>6 DEF lotsVars, LotsInv, LotsTypeOK, Missed, LotsBefore,
              MissesOnlyForRemoved
<1> QED BY <1>1, <1>2, <1>3, <1>4, <1>5, <1>6 DEF LotsNext

\* The inductive invariant of the pages of a notice: of the lots that were there
\* all along and stand before the page asked for next, no more are missed than
\* lots were removed.
THEOREM LotsInvariant == LotsSpec => []LotsInv
BY LotsStart, LotsStep, PTL DEF LotsSpec

\* A notice with any number of lots, read in pages of any size while any of them
\* come and go: what is returned misses no more of them than were removed.
THEOREM MissesForRemoved == LotsSpec => []MissesOnlyForRemoved
<1>1. LotsInv => MissesOnlyForRemoved BY DEF LotsInv
<1> QED BY <1>1, LotsInvariant, PTL

=============================================================================
