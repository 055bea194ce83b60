----------------------------- MODULE NoticeLots -----------------------------
(***************************************************************************)
(* ZakupSkAdapter.extract of a notice: its details, and then the lots of   *)
(* the notice page by page, sorted by ascending id, while the portal goes  *)
(* on adding lots to the notice and removing lots from it.  What is        *)
(* attached replaces the relations of the notice when it is persisted.     *)
(***************************************************************************)
EXTENDS Naturals, FiniteSets

CONSTANTS
  NoticeLotIds,  \* numbers: ids of lots the notice may ever have
  PageSize,      \* page_size
  LotsBudget     \* bounds

\* Extractions, requests that fail, lots added and removed.
LotsEvents == {"extract", "fail", "add", "remove"}

ASSUME NoticeAssumption ==
  /\ NoticeLotIds \subseteq Nat /\ IsFiniteSet(NoticeLotIds)
  /\ PageSize \in Nat \ {0}
  /\ LotsBudget \in [LotsEvents -> Nat]

VARIABLES
  listed,    \* the lots of the notice at the portal
  kept,      \* those listed since the first page was asked for
  removals,  \* how often a lot was removed since
  reading,   \* where extract is
  page,
  attached,  \* seen_lot_ids, and the lots of the batch
  lotsBudget

lotsVars == <<listed, kept, removals, reading, page, attached, lotsBudget>>

LotsTypeOK ==
  /\ listed \subseteq NoticeLotIds /\ kept \subseteq listed
  /\ removals \in Nat /\ attached \subseteq NoticeLotIds
  /\ reading \in {"idle", "details", "pages", "returned"}
  /\ page \in Nat
  /\ lotsBudget \in [LotsEvents -> Nat]

LotsInit(events) ==
  /\ listed \in SUBSET NoticeLotIds
  /\ kept = {} /\ removals = 0
  /\ reading = "idle" /\ page = 0 /\ attached = {}
  /\ lotsBudget = events

LotsSpend(kind) ==
  /\ lotsBudget[kind] > 0
  /\ lotsBudget' = [lotsBudget EXCEPT ![kind] = @ - 1]

\* A page of the list as it is when the request is answered.
LotsBefore(lot) == Cardinality({l \in listed : l < lot})
PageOf(p) ==
  {l \in listed : LotsBefore(l) \in p * PageSize .. (p + 1) * PageSize - 1}

\* len(seen_lot_ids) >= total.  (Broken: off by one.)
AllSeenEarly(seen, total) == Cardinality(seen) + 1 >= total
AllSeen(seen, total) == Cardinality(seen) >= total

-----------------------------------------------------------------------------

Extract ==
  /\ reading \in {"idle", "returned"} /\ LotsSpend("extract")
  /\ reading' = "details"
  /\ UNCHANGED <<listed, kept, removals, page, attached>>

Details ==
  /\ reading = "details"
  /\ reading' = "pages" /\ page' = 0 /\ attached' = {}
  /\ kept' = listed /\ removals' = 0
  /\ UNCHANGED <<listed, lotsBudget>>

\* _attach_notice_lots looks at a page: every lot was seen, or a RuntimeError
\* for a page that is empty or has nothing new, or the list ends here.  An answer
\* need not have a total.
AfterPage(ids, seen, hasTotal) ==
  IF hasTotal /\ AllSeen(seen, Cardinality(listed)) THEN "returned"
  ELSE IF ids \subseteq attached THEN "idle"
  ELSE IF ~hasTotal /\ Cardinality(ids) < PageSize THEN "returned"
  ELSE "pages"

AttachPage ==
  /\ reading = "pages"
  /\ LET ids == PageOf(page)
         seen == attached \cup ids
     IN  /\ attached' = seen
         /\ \E hasTotal \in BOOLEAN : reading' = AfterPage(ids, seen, hasTotal)
  /\ page' = page + 1
  /\ UNCHANGED <<listed, kept, removals, lotsBudget>>

\* A request is blocked or fails: extract raises, and nothing is persisted.
RequestFails ==
  /\ reading \in {"details", "pages"} /\ LotsSpend("fail")
  /\ reading' = "idle"
  /\ UNCHANGED <<listed, kept, removals, page, attached>>

\* The portal meanwhile.
AddLot(lot) ==
  /\ lot \notin listed /\ LotsSpend("add")
  /\ listed' = listed \cup {lot}
  /\ UNCHANGED <<kept, removals, reading, page, attached>>

RemoveLot(lot) ==
  /\ lot \in listed /\ LotsSpend("remove")
  /\ listed' = listed \ {lot} /\ kept' = kept \ {lot}
  /\ removals' = removals + 1
  /\ UNCHANGED <<reading, page, attached>>

LotsNext ==
  \/ Extract \/ Details \/ AttachPage \/ RequestFails
  \/ \E lot \in NoticeLotIds : AddLot(lot) \/ RemoveLot(lot)

LotsSpec == LotsInit(LotsBudget) /\ [][LotsNext]_lotsVars

-----------------------------------------------------------------------------
\* Properties.

\* A notice that is returned misses no more of the lots it had all the time than
\* lots were removed from it while its pages were read, one that came back and
\* went again counted twice: none, when none was.  What it misses loses its
\* relation when the notice is persisted.
MissesOnlyForRemoved ==
  reading = "returned" => Cardinality(kept \ attached) <= removals

=============================================================================
