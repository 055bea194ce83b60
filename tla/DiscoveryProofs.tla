-------------------------- MODULE DiscoveryProofs --------------------------
(***************************************************************************)
(* Theorems about Discovery for any runs, services and catalogs.           *)
(***************************************************************************)
EXTENDS Discovery, FiniteSetTheorems, WellFoundedInduction, TLAPS

-----------------------------------------------------------------------------
\* Facts about numbers and windows.

LessNat == {ss \in Nat \X Nat : ss[1] < ss[2]}

\* A non-empty set of naturals has a least element.
LEMMA LeastExists ==
  ASSUME NEW S \in SUBSET Nat, S # {}
  PROVE  \E x \in S : \A y \in S : x <= y
<1>1. IsWellFoundedOn(LessNat, Nat)
  BY NatLessThanWellFounded, Zenon DEF OpToRel, LessNat
<1>2. PICK x \in S : \A y \in S : ~(<<y, x>> \in LessNat)
  BY <1>1, WFMin, Zenon
<1>3. ASSUME NEW y \in S PROVE x <= y
  <2>1. x \in Nat /\ y \in Nat
    OBVIOUS
  <2>2. ~(<<y, x>> \in LessNat)
    BY <1>2
  <2> QED BY <2>1, <2>2 DEF LessNat
<1> QED BY <1>3

\* The window of one run is replaced.
LEMMA OneWindow ==
  ASSUME DOMAIN window = Runs, NEW r \in Runs, NEW w,
         window' = [window EXCEPT ![r] = w]
  PROVE  /\ DOMAIN window' = Runs
         /\ window'[r] = w
         /\ \A q \in Runs : q # r => window'[q] = window[q]
OBVIOUS

LEMMA EmptyWindow == DOMAIN <<>> = {} /\ <<>> \in [DOMAIN <<>> -> Reply]
OBVIOUS

LEMMA AskedReply == Asked \in Reply
BY DEF Asked, Reply, Replies

LEMMA SpendType ==
  ASSUME budget \in [Kinds -> Nat], NEW kind \in Kinds, Spend(kind)
  PROVE  budget' \in [Kinds -> Nat]
BY DEF Spend

-----------------------------------------------------------------------------
\* Types.

\* The window of a run is a stretch of pages that starts at page[r], and there
\* is one exactly while the run is open.
WindowOK(r) ==
  /\ pc[r] \in Open =>
       \E n \in Nat \ {0} : DOMAIN window[r] = page[r]..(page[r] + n - 1)
  /\ pc[r] \notin Open => DOMAIN window[r] = {}
  /\ window[r] \in [DOMAIN window[r] -> Reply]

WindowsOK == DOMAIN window = Runs /\ \A r \in Runs : WindowOK(r)

TypeInv == TypeOK /\ WindowsOK

\* The part of TypeOK that is not about windows.
PlainType ==
  /\ found \in [Catalogs -> SUBSET Int]
  /\ checkpoint \in [Catalogs -> [page: Nat \ {0}, completed: BOOLEAN]]
  /\ grown \in [Catalogs -> Nat]
  /\ pc \in [Runs -> Labels]
  /\ page \in [Runs -> Nat \ {0}]
  /\ processed \in [Runs -> Nat]
  /\ budget \in [Kinds -> Nat]

LEMMA TypeInvSplit == PlainType /\ WindowsOK => TypeInv
<1> SUFFICES ASSUME PlainType, WindowsOK, NEW r \in Runs
             PROVE  /\ DOMAIN window[r] \subseteq Nat
                    /\ DOMAIN window[r] # {} <=> pc[r] \in Open
  BY DEF TypeInv, TypeOK, PlainType, WindowsOK, WindowOK
<1>0. WindowOK(r)
  BY DEF WindowsOK
<1>1. page[r] \in Nat \ {0}
  BY DEF PlainType
<1>2. CASE pc[r] \in Open
  <2>1. PICK n \in Nat \ {0} : DOMAIN window[r] = page[r]..(page[r] + n - 1)
    BY <1>0, <1>2 DEF WindowOK
  <2>2. page[r] \in page[r]..(page[r] + n - 1)
    BY <1>1
  <2> QED BY <1>1, <1>2, <2>1, <2>2
<1>3. CASE pc[r] \notin Open
  BY <1>0, <1>3 DEF WindowOK
<1> QED BY <1>2, <1>3

LEMMA TypeInvParts ==
  ASSUME TypeInv
  PROVE  PlainType /\ DOMAIN window = Runs /\ \A r \in Runs : WindowOK(r)
BY DEF TypeInv, TypeOK, PlainType, WindowsOK

LEMMA InitType == Init => TypeInv
<1> SUFFICES ASSUME Init PROVE TypeInv
  OBVIOUS
<1>1. PlainType
  BY DiscoveryAssumption DEF Init, PlainType, Labels
<1>2. WindowsOK
  BY EmptyWindow DEF Init, WindowsOK, WindowOK, Open
<1> QED BY <1>1, <1>2, TypeInvSplit

\* The window a run asks for next is not empty.
LEMMA WindowSizePositive ==
  ASSUME NEW r \in Runs, NEW n \in Nat, MaxPages[r] = 0 \/ n < MaxPages[r]
  PROVE  WindowSize(r, n) \in Nat \ {0} /\ WindowSize(r, n) <= Limit(r)
BY DiscoveryAssumption DEF WindowSize, Limit

\* The head of the loop leaves a window of pages nobody has asked for yet, or
\* none.
LEMMA ProceedType ==
  ASSUME TypeInv, NEW r \in Runs, NEW first \in Nat \ {0}, NEW n \in Nat,
         Proceed(r, first, n)
  PROVE  /\ page' = [page EXCEPT ![r] = first]
         /\ processed' = [processed EXCEPT ![r] = n]
         /\ pc' \in [Runs -> Labels]
         /\ \A q \in Runs : q # r => pc'[q] = pc[q]
         /\ pc'[r] \in {"fetch", "done"}
         /\ \A q \in Runs : q # r => window'[q] = window[q]
         /\ \A p \in DOMAIN window'[r] : window'[r][p] = Asked
         /\ DOMAIN window'[r] \subseteq first..(first + Limit(r) - 1)
         /\ WindowsOK'
<1>0. PlainType /\ DOMAIN window = Runs /\ \A q \in Runs : WindowOK(q)
  BY TypeInvParts
<1> DEFINE more == MaxPages[r] = 0 \/ n < MaxPages[r]
           pages == first..(first + WindowSize(r, n) - 1)
           w == IF more THEN [p \in pages |-> Asked] ELSE <<>>
<1>1. /\ page' = [page EXCEPT ![r] = first]
      /\ processed' = [processed EXCEPT ![r] = n]
      /\ window' = [window EXCEPT ![r] = w]
      /\ pc' = [pc EXCEPT ![r] = IF more THEN "fetch" ELSE "done"]
  BY DEF Proceed
<1>2. /\ pc' \in [Runs -> Labels]
      /\ \A q \in Runs : q # r => pc'[q] = pc[q]
      /\ pc'[r] = IF more THEN "fetch" ELSE "done"
  BY <1>0, <1>1 DEF PlainType, Labels
<1>3. page'[r] = first /\ \A q \in Runs : q # r => page'[q] = page[q]
  BY <1>0, <1>1 DEF PlainType
<1>4. /\ DOMAIN window' = Runs
      /\ window'[r] = w
      /\ \A q \in Runs : q # r => window'[q] = window[q]
  BY <1>0, <1>1, OneWindow
<1>5. \A p \in DOMAIN w : w[p] = Asked
  BY EmptyWindow
<1>6. WindowOK(r)' /\ DOMAIN w \subseteq first..(first + Limit(r) - 1)
  <2>1. CASE more
    <3>1. WindowSize(r, n) \in Nat \ {0} /\ WindowSize(r, n) <= Limit(r)
      BY <2>1, WindowSizePositive
    <3>2. DOMAIN w = first..(first + WindowSize(r, n) - 1) /\ w \in [DOMAIN w -> Reply]
      BY <2>1, AskedReply
    <3>3. pc'[r] = "fetch"
      BY <1>2, <2>1
    <3>4. Limit(r) \in Nat
      BY DiscoveryAssumption DEF Limit
    <3> HIDE DEF w
    <3>5. WindowOK(r)'
      BY <1>3, <1>4, <3>1, <3>2, <3>3 DEF WindowOK, Open
    <3>6. DOMAIN w \subseteq first..(first + Limit(r) - 1)
      BY <3>1, <3>2, <3>4
    <3> QED BY <3>5, <3>6
  <2>2. CASE ~more
    <3>1. w = <<>> /\ pc'[r] = "done"
      BY <1>2, <2>2
    <3> QED BY <1>4, <3>1, EmptyWindow DEF WindowOK, Open
  <2> QED BY <2>1, <2>2
<1>7. ASSUME NEW q \in Runs, q # r PROVE WindowOK(q)'
  BY <1>0, <1>2, <1>3, <1>4, <1>7 DEF WindowOK
<1> HIDE DEF w
<1> QED BY <1>1, <1>2, <1>4, <1>5, <1>6, <1>7 DEF WindowsOK

\* The pages of an open run.
LEMMA WindowPages ==
  ASSUME TypeInv, NEW r \in Runs, pc[r] \in Open
  PROVE  \E n \in Nat \ {0} :
           /\ DOMAIN window[r] = page[r]..(page[r] + n - 1)
           /\ Cardinality(DOMAIN window[r]) = n
           /\ page[r] \in Nat \ {0}
<1>1. page[r] \in Nat \ {0} /\ WindowOK(r)
  BY TypeInvParts DEF PlainType
<1>2. PICK n \in Nat \ {0} : DOMAIN window[r] = page[r]..(page[r] + n - 1)
  BY <1>1 DEF WindowOK
<1>3. Cardinality(page[r]..(page[r] + n - 1)) = n
  BY <1>1, FS_Interval
<1> QED BY <1>1, <1>2, <1>3

\* Pages are positive.
LEMMA PagesPositive ==
  ASSUME TypeInv, NEW r \in Runs
  PROVE  DOMAIN window[r] \subseteq Nat \ {0}
<1>1. CASE pc[r] \in Open
  BY <1>1, WindowPages
<1>2. CASE pc[r] \notin Open
  BY <1>2, TypeInvParts DEF WindowOK
<1> QED BY <1>1, <1>2

\* The first page that is no entry is well defined.
LEMMA FirstStopLeast ==
  ASSUME TypeInv, NEW r \in Runs, Stops(r) # {}
  PROVE  /\ FirstStop(r) \in Stops(r)
         /\ FirstStop(r) \in DOMAIN window[r]
         /\ \A q \in Stops(r) : FirstStop(r) <= q
<1>1. Stops(r) \in SUBSET Nat /\ Stops(r) \subseteq DOMAIN window[r]
  BY PagesPositive DEF Stops, PagesWith
<1>2. \E p \in Stops(r) : \A q \in Stops(r) : p <= q
  BY <1>1, LeastExists
<1> QED BY <1>1, <1>2 DEF FirstStop

LEMMA NextPagePositive ==
  ASSUME TypeInv, NEW r \in Runs, pc[r] \in Open
  PROVE  NextPage(r) \in Nat \ {0}
<1>1. CASE Terminal(r)
  BY <1>1, FirstStopLeast, PagesPositive DEF NextPage, Terminal
<1>2. CASE ~Terminal(r)
  BY <1>2, WindowPages DEF NextPage
<1> QED BY <1>1, <1>2

\* What a page shows is a reply.
LEMMA ShownReply ==
  ASSUME TypeInv, NEW c \in Catalogs, NEW p \in Nat
  PROVE  Shown(c, p) \in Reply
BY DiscoveryAssumption, TypeInvParts DEF PlainType, Shown, Reply, Replies

\* A run gets another reply for one page of its window, which stays.
LEMMA ReplyType ==
  ASSUME TypeInv, NEW r \in Runs, NEW p \in DOMAIN window[r], NEW x \in Reply,
         window' = [window EXCEPT ![r] = [window[r] EXCEPT ![p] = x]],
         pc' = pc, page' = page
  PROVE  WindowsOK'
<1>1. DOMAIN window = Runs /\ \A q \in Runs : WindowOK(q)
  BY TypeInvParts
<1> DEFINE w == [window[r] EXCEPT ![p] = x]
<1>2. DOMAIN w = DOMAIN window[r] /\ w \in [DOMAIN w -> Reply]
  BY <1>1 DEF WindowOK
<1> HIDE DEF w
<1>3. /\ DOMAIN window' = Runs /\ window'[r] = w
      /\ \A q \in Runs : q # r => window'[q] = window[q]
  BY <1>1, OneWindow DEF w
<1>4. WindowOK(r)'
  BY <1>1, <1>2, <1>3 DEF WindowOK
<1>5. ASSUME NEW q \in Runs, q # r PROVE WindowOK(q)'
  BY <1>1, <1>3, <1>5 DEF WindowOK
<1> QED BY <1>3, <1>4, <1>5 DEF WindowsOK

\* Runs close: their windows are dropped.
LEMMA CloseType ==
  ASSUME TypeInv, NEW S \in SUBSET Runs, page' = page,
         \A r \in S : pc'[r] \notin Open,
         \A r \in Runs \ S : pc'[r] = pc[r],
         DOMAIN window' = Runs,
         \A r \in S : window'[r] = <<>>,
         \A r \in Runs \ S : window'[r] = window[r]
  PROVE  WindowsOK'
<1>1. \A r \in Runs : WindowOK(r)
  BY TypeInvParts
<1>2. ASSUME NEW r \in S PROVE WindowOK(r)'
  BY <1>2, EmptyWindow DEF WindowOK
<1>3. ASSUME NEW r \in Runs \ S PROVE WindowOK(r)'
  BY <1>1, <1>3 DEF WindowOK
<1> QED BY <1>2, <1>3 DEF WindowsOK

LEMMA CloseOneType ==
  ASSUME TypeInv, NEW r \in Runs, page' = page,
         NEW label \in Labels \ Open, pc' = [pc EXCEPT ![r] = label],
         window' = [window EXCEPT ![r] = <<>>]
  PROVE  pc' \in [Runs -> Labels] /\ WindowsOK'
<1>1. PlainType /\ DOMAIN window = Runs /\ \A q \in Runs : WindowOK(q)
  BY TypeInvParts
<1>2. /\ pc' \in [Runs -> Labels]
      /\ pc'[r] = label /\ \A q \in Runs : q # r => pc'[q] = pc[q]
  BY <1>1 DEF PlainType
<1>3. /\ DOMAIN window' = Runs /\ window'[r] = <<>>
      /\ \A q \in Runs : q # r => window'[q] = window[q]
  BY <1>1, OneWindow
<1>4. WindowOK(r)'
  BY <1>2, <1>3, EmptyWindow DEF WindowOK
<1>5. ASSUME NEW q \in Runs, q # r PROVE WindowOK(q)'
  BY <1>1, <1>2, <1>3, <1>5 DEF WindowOK
<1> QED BY <1>2, <1>3, <1>4, <1>5 DEF WindowsOK

\* A run that stays open keeps its window.
LEMMA MoveType ==
  ASSUME TypeInv, NEW r \in Runs, page' = page, window' = window,
         NEW label \in Labels, pc' = [pc EXCEPT ![r] = label],
         label \in Open <=> pc[r] \in Open
  PROVE  pc' \in [Runs -> Labels] /\ WindowsOK'
BY TypeInvParts DEF PlainType, WindowsOK, WindowOK

LEMMA NextType == TypeInv /\ [Next]_vars => TypeInv'
<1> SUFFICES ASSUME TypeInv, [Next]_vars PROVE TypeInv'
  OBVIOUS
<1>0. PlainType /\ WindowsOK
  BY TypeInvParts DEF WindowsOK
<1> SUFFICES PlainType' /\ WindowsOK'
  BY TypeInvSplit, PTL
<1>1. ASSUME NEW r \in Runs, Begin(r) PROVE PlainType' /\ WindowsOK'
  <2> DEFINE row == checkpoint[CatalogOf[r]]
  <2>1. row \in [page: Nat \ {0}, completed: BOOLEAN]
    BY <1>0, DiscoveryAssumption DEF PlainType
  <2>2. UNCHANGED <<found, checkpoint, grown, budget>>
    BY <1>1 DEF Begin
  <2>3. CASE \E first \in Nat \ {0} : Proceed(r, first, 0)
    <3>1. PICK first \in Nat \ {0} : Proceed(r, first, 0)
      BY <2>3
    <3>2. /\ page' = [page EXCEPT ![r] = first]
          /\ processed' = [processed EXCEPT ![r] = 0]
          /\ pc' \in [Runs -> Labels] /\ WindowsOK'
      BY <3>1, ProceedType
    <3> QED BY <1>0, <2>2, <3>2 DEF PlainType
  <2>4. CASE pc' = [pc EXCEPT ![r] = "done"] /\ UNCHANGED <<page, processed, window>>
    <3>1. pc' \in [Runs -> Labels] /\ WindowsOK'
      BY <1>1, <2>4, MoveType DEF Labels, Open, Begin
    <3> QED BY <1>0, <2>2, <2>4, <3>1 DEF PlainType
  <2> QED
    BY <1>1, <2>1, <2>3, <2>4, DiscoveryAssumption DEF Begin
<1>2. ASSUME NEW r \in Runs, NEW p \in DOMAIN window[r],
             SendRequest(r, p) \/ Receive(r, p)
      PROVE  PlainType' /\ WindowsOK'
  <2>1. p \in Nat /\ window[r][p] \in Reply /\ CatalogOf[r] \in Catalogs
    BY <1>0, PagesPositive, DiscoveryAssumption DEF WindowsOK, WindowOK
  <2>2. \E x \in Reply : window' = [window EXCEPT ![r] = [window[r] EXCEPT ![p] = x]]
    <3>1. CASE window' = [window EXCEPT ![r][p].is = "sent"]
      <4>1. [window[r][p] EXCEPT !.is = "sent"] \in Reply
        BY <2>1 DEF Reply, Replies
      <4> QED BY <3>1, <4>1
    <3>2. CASE window' = [window EXCEPT ![r][p].is = "error"]
      <4>1. [window[r][p] EXCEPT !.is = "error"] \in Reply
        BY <2>1 DEF Reply, Replies
      <4> QED BY <3>2, <4>1
    <3>3. CASE window' = [window EXCEPT ![r][p] = Shown(CatalogOf[r], p)]
      BY <2>1, <3>3, ShownReply
    <3> QED BY <1>2, <3>1, <3>2, <3>3 DEF SendRequest, Receive
  <2>3. UNCHANGED <<found, checkpoint, grown, pc, page, processed>>
    BY <1>2 DEF SendRequest, Receive
  <2>4. budget' \in [Kinds -> Nat]
    BY <1>0, <1>2, SpendType DEF SendRequest, Receive, PlainType, Kinds
  <2>5. WindowsOK'
    BY <2>2, <2>3, ReplyType
  <2> QED BY <1>0, <2>3, <2>4, <2>5 DEF PlainType
<1>3. ASSUME NEW r \in Runs, RejectWindow(r) \/ DatabaseFails(r)
      PROVE  PlainType' /\ WindowsOK'
  <2>1. /\ UNCHANGED <<found, checkpoint, grown, page, processed>>
        /\ pc' = [pc EXCEPT ![r] = "failed"] /\ window' = [window EXCEPT ![r] = <<>>]
    BY <1>3 DEF RejectWindow, DatabaseFails
  <2>2. budget' \in [Kinds -> Nat]
    BY <1>0, <1>3, SpendType DEF RejectWindow, DatabaseFails, PlainType, Kinds
  <2>3. pc' \in [Runs -> Labels] /\ WindowsOK'
    BY <2>1, CloseOneType DEF Open, Labels
  <2> QED BY <1>0, <2>1, <2>2, <2>3 DEF PlainType
<1>4. ASSUME NEW r \in Runs, AcceptWindow(r) \/ EnqueueWindow(r) \/ Again(r)
      PROVE  PlainType' /\ WindowsOK'
  <2>1. UNCHANGED <<checkpoint, grown, page, processed, window>>
    BY <1>4 DEF AcceptWindow, EnqueueWindow, Again
  <2>2. PICK label \in Labels : /\ pc' = [pc EXCEPT ![r] = label]
                                /\ label \in Open <=> pc[r] \in Open
    BY <1>4 DEF AcceptWindow, EnqueueWindow, Again, Labels, Open, Ended
  <2>3. pc' \in [Runs -> Labels] /\ WindowsOK'
    BY <2>1, <2>2, MoveType
  <2>4. budget' \in [Kinds -> Nat]
    BY <1>0, <1>4, SpendType DEF AcceptWindow, EnqueueWindow, Again, PlainType, Kinds
  <2>5. found' \in [Catalogs -> SUBSET Int]
    <3>1. CASE found' = found
      BY <1>0, <3>1 DEF PlainType
    <3>2. CASE EnqueueWindow(r)
      <4>1. Entries(r) \subseteq Int
        BY <1>0 DEF Entries, Meaningful, WindowsOK, WindowOK, Reply
      <4> QED BY <1>0, <3>2, <4>1 DEF EnqueueWindow, PlainType
    <3> QED BY <1>4, <3>1, <3>2 DEF AcceptWindow, Again
  <2> QED BY <1>0, <2>1, <2>3, <2>4, <2>5 DEF PlainType
<1>5. ASSUME NEW r \in Runs, SaveCheckpoint(r) PROVE PlainType' /\ WindowsOK'
  <2>0. pc[r] \in Open
    BY <1>5 DEF SaveCheckpoint, Open
  <2>1. NextPage(r) \in Nat \ {0} /\ Cardinality(DOMAIN window[r]) \in Nat
    BY <2>0, NextPagePositive, WindowPages
  <2>2. checkpoint' \in [Catalogs -> [page: Nat \ {0}, completed: BOOLEAN]]
    <3>1. [page |-> NextPage(r), completed |-> Terminal(r)]
            \in [page: Nat \ {0}, completed: BOOLEAN]
      BY <2>1 DEF Terminal
    <3> QED BY <1>0, <1>5, <3>1 DEF SaveCheckpoint, PlainType
  <2>3. UNCHANGED <<found, grown, budget>>
    BY <1>5 DEF SaveCheckpoint
  <2>4. CASE Terminal(r)
    <3>1. /\ pc' = [pc EXCEPT ![r] = "done"] /\ window' = [window EXCEPT ![r] = <<>>]
          /\ UNCHANGED <<page, processed>>
      BY <1>5, <2>4 DEF SaveCheckpoint
    <3>2. pc' \in [Runs -> Labels] /\ WindowsOK'
      BY <3>1, CloseOneType DEF Open, Labels
    <3> QED BY <1>0, <2>2, <2>3, <3>1, <3>2 DEF PlainType
  <2>5. CASE ~Terminal(r)
    <3> DEFINE n == processed[r] + Cardinality(DOMAIN window[r])
    <3>1. n \in Nat
      BY <1>0, <2>1 DEF PlainType
    <3>2. Proceed(r, NextPage(r), n)
      BY <1>5, <2>5 DEF SaveCheckpoint
    <3> HIDE DEF n
    <3>3. /\ page' = [page EXCEPT ![r] = NextPage(r)]
          /\ processed' = [processed EXCEPT ![r] = n]
          /\ pc' \in [Runs -> Labels] /\ WindowsOK'
      BY <2>1, <3>1, <3>2, ProceedType
    <3> QED BY <1>0, <2>1, <2>2, <2>3, <3>1, <3>3 DEF PlainType
  <2> QED BY <2>4, <2>5
<1>6. ASSUME NEW s \in Services, Kill(s) PROVE PlainType' /\ WindowsOK'
  <2> DEFINE gone == {r \in Runs : ServiceOf[r] = s /\ pc[r] \notin Ended}
  <2>1. /\ UNCHANGED <<found, checkpoint, grown, page, processed>>
        /\ pc' = [r \in Runs |-> IF r \in gone THEN "killed" ELSE pc[r]]
        /\ window' = [r \in Runs |-> IF r \in gone THEN <<>> ELSE window[r]]
    BY <1>6 DEF Kill
  <2>2. gone \in SUBSET Runs
    OBVIOUS
  <2> HIDE DEF gone
  <2>3. pc' \in [Runs -> Labels]
    BY <1>0, <2>1 DEF PlainType, Labels
  <2>4. budget' \in [Kinds -> Nat]
    BY <1>0, <1>6, SpendType DEF Kill, PlainType, Kinds
  <2>5. WindowsOK'
    <3>1. /\ \A r \in gone : pc'[r] \notin Open /\ window'[r] = <<>>
          /\ \A r \in Runs \ gone : pc'[r] = pc[r] /\ window'[r] = window[r]
          /\ DOMAIN window' = Runs
      BY <2>1, <2>2 DEF Open
    <3> QED BY <2>1, <2>2, <3>1, CloseType
  <2> QED BY <1>0, <2>1, <2>3, <2>4, <2>5 DEF PlainType
<1>7. ASSUME NEW c \in Catalogs, Publish(c) PROVE PlainType' /\ WindowsOK'
  <2>1. /\ UNCHANGED <<found, checkpoint, pc, page, processed, window>>
        /\ grown' = [grown EXCEPT ![c] = @ + 1]
    BY <1>7 DEF Publish
  <2>2. budget' \in [Kinds -> Nat]
    BY <1>0, <1>7, SpendType DEF Publish, PlainType, Kinds
  <2>3. WindowsOK'
    BY <1>0, <2>1 DEF WindowsOK, WindowOK
  <2> QED BY <1>0, <2>1, <2>2, <2>3 DEF PlainType
<1>8. CASE UNCHANGED vars
  BY <1>0, <1>8 DEF vars, PlainType, WindowsOK, WindowOK
<1> QED
  BY <1>1, <1>2, <1>3, <1>4, <1>5, <1>6, <1>7, <1>8 DEF Next, Progress

\* Every reachable state is well-typed; in particular a run has a window
\* exactly while it is open.
THEOREM TypeCorrect == Spec => []TypeOK
<1>1. TypeInv => TypeOK
  BY DEF TypeInv
<1> QED BY <1>1, InitType, NextType, PTL DEF Spec

-----------------------------------------------------------------------------
\* The semaphore.

Sent(r) == PagesWith(r, {"sent"})

\* No finiteness of Runs is assumed: what a service has under way is finite
\* because each step adds one request.
CapInv ==
  \A s \in Services : /\ IsFiniteSet(InFlight(s))
                       /\ Cardinality(InFlight(s)) <= Concurrency[s]

LEMMA InitCapped == Init => CapInv
<1> SUFFICES ASSUME Init, NEW s \in Services
             PROVE  /\ IsFiniteSet(InFlight(s))
                    /\ Cardinality(InFlight(s)) <= Concurrency[s]
  BY DEF CapInv
<1>1. \A r \in Runs : PagesWith(r, {"sent"}) = {}
  BY EmptyWindow DEF Init, PagesWith
<1>2. InFlight(s) = {}
  BY <1>1 DEF InFlight
<1> QED BY <1>2, FS_EmptySet, DiscoveryAssumption

\* A step that sends nothing.
LEMMA FewerSent ==
  ASSUME CapInv, \A r \in Runs : Sent(r)' \subseteq Sent(r)
  PROVE  CapInv'
<1> SUFFICES ASSUME NEW s \in Services
             PROVE  /\ IsFiniteSet(InFlight(s)')
                    /\ Cardinality(InFlight(s)') <= Concurrency[s]
  BY DEF CapInv
<1>1. InFlight(s)' \subseteq InFlight(s)
  BY DEF InFlight, Sent
<1>2. IsFiniteSet(InFlight(s)) /\ Cardinality(InFlight(s)) <= Concurrency[s]
  BY DEF CapInv
<1>3. /\ IsFiniteSet(InFlight(s)')
      /\ Cardinality(InFlight(s)') <= Cardinality(InFlight(s))
  BY <1>1, <1>2, FS_Subset
<1>4. Cardinality(InFlight(s)') \in Nat /\ Cardinality(InFlight(s)) \in Nat
  BY <1>2, <1>3, FS_CardinalityType
<1> QED BY <1>2, <1>3, <1>4, DiscoveryAssumption

\* The step that does.
LEMMA OneMoreSent ==
  ASSUME TypeInv, CapInv, NEW r \in Runs, NEW p, SendRequest(r, p)
  PROVE  CapInv'
<1>1. /\ Sent(r)' = Sent(r) \cup {p}
      /\ \A q \in Runs : q # r => Sent(q)' = Sent(q)
  <2>1. /\ p \in DOMAIN window[r] /\ DOMAIN window = Runs
        /\ window' = [window EXCEPT ![r] = [window[r] EXCEPT ![p] =
                                              [window[r][p] EXCEPT !.is = "sent"]]]
    BY TypeInvParts DEF SendRequest, PagesWith
  <2>2. window[r][p] \in Reply
    BY <2>1, TypeInvParts DEF WindowOK
  <2>3. [window[r][p] EXCEPT !.is = "sent"].is = "sent"
    BY <2>2 DEF Reply
  <2> DEFINE w == [window[r] EXCEPT ![p] = [window[r][p] EXCEPT !.is = "sent"]]
  <2>4. /\ DOMAIN w = DOMAIN window[r] /\ w[p].is = "sent"
        /\ \A q \in DOMAIN w : q # p => w[q] = window[r][q]
    BY <2>1, <2>3
  <2> HIDE DEF w
  <2>5. window'[r] = w /\ \A q \in Runs : q # r => window'[q] = window[q]
    BY <2>1, OneWindow DEF w
  <2> QED BY <2>1, <2>4, <2>5 DEF Sent, PagesWith
<1>2. ASSUME NEW s \in Services, s # ServiceOf[r] PROVE InFlight(s)' = InFlight(s)
  BY <1>1, <1>2 DEF InFlight, Sent
<1> DEFINE s == ServiceOf[r]
<1>3. InFlight(s)' = InFlight(s) \cup {<<r, p>>}
  BY <1>1 DEF InFlight, Sent
<1>4. /\ IsFiniteSet(InFlight(s)) /\ Cardinality(InFlight(s)) < Concurrency[s]
      /\ s \in Services
  BY DiscoveryAssumption DEF CapInv, SendRequest, Permitted, Limit
<1>5. /\ IsFiniteSet(InFlight(s)') /\ Cardinality(InFlight(s)) \in Nat
      /\ Cardinality(InFlight(s)') <= Cardinality(InFlight(s)) + 1
  <2> DEFINE S == InFlight(s)
             x == <<r, p>>
  <2>1. IsFiniteSet(S) /\ Cardinality(S) \in Nat
    BY <1>4, FS_CardinalityType
  <2> HIDE DEF S, x
  <2>2. /\ IsFiniteSet(S \cup {x})
        /\ Cardinality(S \cup {x}) <= Cardinality(S) + 1
    <3>1. /\ IsFiniteSet(S \cup {x})
          /\ Cardinality(S \cup {x}) =
               IF x \in S THEN Cardinality(S) ELSE Cardinality(S) + 1
      BY <2>1, FS_AddElement, Zenon
    <3> QED BY <2>1, <3>1
  <2>3. InFlight(s)' = S \cup {x}
    BY <1>3 DEF S, x
  <2>4. InFlight(s) = S
    BY DEF S
  <2> QED BY <2>1, <2>2, <2>3, <2>4
<1>6. Cardinality(InFlight(s)') <= Concurrency[s]
  BY <1>4, <1>5, FS_CardinalityType, DiscoveryAssumption
<1> QED BY <1>2, <1>5, <1>6 DEF CapInv

LEMMA NextCapped == TypeInv /\ CapInv /\ [Next]_vars => CapInv'
<1> SUFFICES ASSUME TypeInv, CapInv, [Next]_vars PROVE CapInv'
  OBVIOUS
<1>0. DOMAIN window = Runs /\ \A r \in Runs : WindowOK(r)
  BY TypeInvParts
<1>1. ASSUME NEW r \in Runs, NEW w, window' = [window EXCEPT ![r] = w],
             {p \in DOMAIN w : w[p].is = "sent"} \subseteq Sent(r)
      PROVE  CapInv'
  <2>1. window'[r] = w /\ \A q \in Runs : q # r => window'[q] = window[q]
    BY <1>0, <1>1, OneWindow
  <2>2. \A q \in Runs : Sent(q)' \subseteq Sent(q)
    BY <1>1, <2>1 DEF Sent, PagesWith
  <2> QED BY <2>2, FewerSent
<1>2. CASE window' = window
  BY <1>2, FewerSent DEF Sent, PagesWith
<1>3. ASSUME NEW r \in Runs, window' = [window EXCEPT ![r] = <<>>] PROVE CapInv'
  BY <1>1, <1>3, EmptyWindow
<1>4. ASSUME NEW r \in Runs, NEW first, NEW n, Proceed(r, first, n) PROVE CapInv'
  <2> DEFINE pages == first..(first + WindowSize(r, n) - 1)
             w == IF MaxPages[r] = 0 \/ n < MaxPages[r] THEN [p \in pages |-> Asked]
                  ELSE <<>>
  <2>1. window' = [window EXCEPT ![r] = w]
    BY <1>4 DEF Proceed
  <2>2. {p \in DOMAIN w : w[p].is = "sent"} = {}
    BY EmptyWindow DEF Asked
  <2> HIDE DEF w
  <2> QED BY <1>1, <2>1, <2>2
<1>5. ASSUME NEW r \in Runs, NEW p, Receive(r, p) PROVE CapInv'
  <2>1. PICK x : /\ window' = [window EXCEPT ![r] = [window[r] EXCEPT ![p] = x]]
                 /\ x.is # "sent"
    <3>1. window[r][p] \in Reply
      BY <1>0, <1>5 DEF Receive, PagesWith, WindowOK
    <3>2. [window[r][p] EXCEPT !.is = "error"].is # "sent"
      BY <3>1 DEF Reply
    <3>3. Shown(CatalogOf[r], p).is # "sent"
      BY DEF Shown
    <3> QED BY <1>5, <3>2, <3>3 DEF Receive
  <2> DEFINE w == [window[r] EXCEPT ![p] = x]
  <2>2. {q \in DOMAIN w : w[q].is = "sent"} \subseteq Sent(r)
    BY <2>1 DEF Sent, PagesWith
  <2> HIDE DEF w
  <2>3. window' = [window EXCEPT ![r] = w]
    BY <2>1 DEF w
  <2> QED BY <1>1, <2>2, <2>3
<1>6. ASSUME NEW s \in Services, Kill(s) PROVE CapInv'
  <2>1. \A q \in Runs : window'[q] = window[q] \/ window'[q] = <<>>
    BY <1>6 DEF Kill
  <2>2. \A q \in Runs : Sent(q)' \subseteq Sent(q)
    BY <2>1, EmptyWindow DEF Sent, PagesWith
  <2> QED BY <2>2, FewerSent
<1>7. ASSUME NEW r \in Runs, Begin(r) PROVE CapInv'
  BY <1>2, <1>4, <1>7 DEF Begin
<1>8. ASSUME NEW r \in Runs, SaveCheckpoint(r) PROVE CapInv'
  BY <1>3, <1>4, <1>8 DEF SaveCheckpoint
<1>9. ASSUME NEW r \in Runs, RejectWindow(r) \/ DatabaseFails(r) PROVE CapInv'
  BY <1>3, <1>9 DEF RejectWindow, DatabaseFails
<1>10. ASSUME NEW r \in Runs, AcceptWindow(r) \/ EnqueueWindow(r) \/ Again(r)
       PROVE  CapInv'
  BY <1>2, <1>10 DEF AcceptWindow, EnqueueWindow, Again
<1>11. ASSUME NEW c \in Catalogs, Publish(c) PROVE CapInv'
  BY <1>2, <1>11 DEF Publish
<1>12. CASE UNCHANGED vars
  BY <1>2, <1>12 DEF vars
<1> QED
  BY <1>5, <1>6, <1>7, <1>8, <1>9, <1>10, <1>11, <1>12, OneMoreSent
     DEF Next, Progress

\* The runs of a service together never have more requests under way than its
\* concurrency, whatever their windows are and however they end.
THEOREM RequestsStayCapped == Spec => []RequestsCapped
<1>1. CapInv => RequestsCapped
  BY DEF CapInv, RequestsCapped
<1>2. Spec => []TypeInv
  BY InitType, NextType, PTL DEF Spec
<1> QED BY <1>1, <1>2, InitCapped, NextCapped, PTL DEF Spec

-----------------------------------------------------------------------------
\* What the checkpoint covers.

\* Every run starts at the first page or at the checkpoint, and a catalog that
\* grows meanwhile is crawled page by page.
FromTheStart ==
  /\ \A r \in Runs : StartPage[r] = 1
  /\ \A r \in Runs : CatalogOf[r] \in Growing => Concurrency[ServiceOf[r]] = 1

FoundTo(c, n) == 1..n \subseteq found[c]

\* The checkpoint's page shows entry page - grown or an older one: what is
\* before it has been queued.
CatalogCovered(c) ==
  /\ FoundTo(c, checkpoint[c].page - 1 - grown[c])
  /\ checkpoint[c].completed => FoundTo(c, Size[c])
  /\ c \notin Growing => grown[c] = 0

\* What a reply of some moment still says.
ReplyCovered(r, p) ==
  LET c == CatalogOf[r]
      x == window[r][p]
  IN  /\ x.is = "entry" =>
           /\ p - grown[c] <= x.entry /\ x.entry <= p /\ x.entry <= Size[c]
           /\ c \in Growing => FoundTo(c, x.entry - 1)
      /\ x.is = "empty" =>
           IF c \in Growing THEN FoundTo(c, Size[c]) ELSE Size[c] < p

RunCovered(r) ==
  /\ pc[r] \in Open =>
       /\ FoundTo(CatalogOf[r], page[r] - 1 - grown[CatalogOf[r]])
       /\ CatalogOf[r] \in Growing => DOMAIN window[r] = {page[r]}
       /\ \A p \in DOMAIN window[r] : ReplyCovered(r, p)
  /\ pc[r] \in {"enqueue", "save"} => Fetched(r) /\ ~Rejected(r)
  /\ pc[r] = "save" => Entries(r) \subseteq found[CatalogOf[r]]

CoverInv ==
  /\ \A c \in Catalogs : CatalogCovered(c)
  /\ \A r \in Runs : RunCovered(r)

LEMMA InitCovered == Init => CoverInv
BY DiscoveryAssumption
   DEF Init, CoverInv, CatalogCovered, RunCovered, FoundTo, Open

\* Nothing is forgotten and no catalog shrinks.
Forward ==
  \A c \in Catalogs :
    /\ found[c] \subseteq found'[c]
    /\ grown'[c] \in Nat /\ grown[c] <= grown'[c]
    /\ c \notin Growing => grown'[c] = grown[c]

LEMMA FoundStays ==
  ASSUME TypeInv, Forward, NEW c \in Catalogs, NEW m \in Int, NEW n \in Int,
         FoundTo(c, m), n <= m
  PROVE  1..n \subseteq found'[c]
BY DEF FoundTo, Forward

\* A catalog whose checkpoint is not written stays covered.
LEMMA CatalogKeeps ==
  ASSUME TypeInv, Forward, NEW c \in Catalogs, CatalogCovered(c),
         checkpoint'[c] = checkpoint[c]
  PROVE  CatalogCovered(c)'
<1>1. /\ checkpoint[c].page \in Nat /\ grown[c] \in Nat /\ Size[c] \in Nat
  BY TypeInvParts, DiscoveryAssumption DEF PlainType
<1>2. FoundTo(c, checkpoint[c].page - 1 - grown[c])
        => 1..(checkpoint'[c].page - 1 - grown'[c]) \subseteq found'[c]
  <2>1. grown'[c] \in Nat /\ grown[c] <= grown'[c]
    BY DEF Forward
  <2> QED BY <1>1, <2>1, FoundStays
<1>3. FoundTo(c, Size[c]) => 1..Size[c] \subseteq found'[c]
  BY <1>1, FoundStays
<1> QED BY <1>2, <1>3 DEF CatalogCovered, FoundTo, Forward

\* A reply that is not touched stays true.
LEMMA ReplyKeeps ==
  ASSUME TypeInv, Forward, NEW r \in Runs, NEW p \in DOMAIN window[r],
         ReplyCovered(r, p), window'[r][p] = window[r][p]
  PROVE  ReplyCovered(r, p)'
<1> DEFINE c == CatalogOf[r]
           x == window[r][p]
<1>1. /\ c \in Catalogs /\ p \in Nat /\ x.entry \in Int
      /\ grown[c] \in Nat /\ Size[c] \in Nat
  BY TypeInvParts, PagesPositive, DiscoveryAssumption DEF PlainType, WindowOK, Reply
<1>2. grown'[c] \in Nat /\ grown[c] <= grown'[c]
  BY <1>1 DEF Forward
<1>3. FoundTo(c, x.entry - 1) => 1..(x.entry - 1) \subseteq found'[c]
  BY <1>1, FoundStays
<1>4. FoundTo(c, Size[c]) => 1..Size[c] \subseteq found'[c]
  BY <1>1, FoundStays
<1> QED BY <1>1, <1>2, <1>3, <1>4 DEF ReplyCovered, FoundTo

\* So does everything about a run that does not move.
LEMMA RunKeeps ==
  ASSUME TypeInv, Forward, NEW r \in Runs, RunCovered(r),
         pc'[r] = pc[r], page'[r] = page[r], window'[r] = window[r]
  PROVE  RunCovered(r)'
<1> DEFINE c == CatalogOf[r]
<1>1. c \in Catalogs /\ page[r] \in Nat /\ grown[c] \in Nat
  BY TypeInvParts, DiscoveryAssumption DEF PlainType
<1>2. FoundTo(c, page[r] - 1 - grown[c])
        => 1..(page'[r] - 1 - grown'[c]) \subseteq found'[c]
  <2>1. grown'[c] \in Nat /\ grown[c] <= grown'[c]
    BY <1>1 DEF Forward
  <2> QED BY <1>1, <2>1, FoundStays
<1>3. \A p \in DOMAIN window[r] : ReplyCovered(r, p) => ReplyCovered(r, p)'
  BY ReplyKeeps
<1>4. /\ Fetched(r)' <=> Fetched(r)
      /\ Rejected(r)' <=> Rejected(r)
      /\ Entries(r)' = Entries(r)
  BY DEF Fetched, Rejected, FirstStop, Stops, PagesWith, Entries, Meaningful, Before
<1>5. found[c] \subseteq found'[c]
  BY <1>1 DEF Forward
<1>6. CASE pc[r] \in Open
  BY <1>2, <1>3, <1>4, <1>5, <1>6 DEF RunCovered, FoundTo
<1>7. CASE pc[r] \notin Open
  BY <1>7 DEF RunCovered, Open
<1> QED BY <1>6, <1>7

\* A closed run owes nothing.
LEMMA ClosedRun ==
  ASSUME NEW r \in Runs, pc'[r] \notin Open
  PROVE  RunCovered(r)'
BY DEF RunCovered, Open

\* The head of the loop, with everything before the new window queued.
LEMMA ProceedCovered ==
  ASSUME FromTheStart, TypeInv, CoverInv, NEW r \in Runs,
         NEW first \in Nat \ {0}, NEW n \in Nat, Proceed(r, first, n),
         found' = found, grown' = grown,
         FoundTo(CatalogOf[r], first - 1 - grown[CatalogOf[r]])
  PROVE  \A q \in Runs : RunCovered(q)'
<1> DEFINE c == CatalogOf[r]
<1>0. PlainType
  BY TypeInvParts
<1>1. /\ page' = [page EXCEPT ![r] = first]
      /\ \A q \in Runs : q # r => pc'[q] = pc[q] /\ window'[q] = window[q]
      /\ pc'[r] \in {"fetch", "done"}
      /\ \A p \in DOMAIN window'[r] : window'[r][p] = Asked
      /\ DOMAIN window'[r] \subseteq first..(first + Limit(r) - 1)
      /\ WindowsOK'
  BY ProceedType
<1>2. page'[r] = first /\ \A q \in Runs : q # r => page'[q] = page[q]
  BY <1>0, <1>1 DEF PlainType
<1>3. Forward
  BY <1>0 DEF Forward, PlainType
<1>4. ASSUME NEW q \in Runs, q # r PROVE RunCovered(q)'
  BY <1>1, <1>2, <1>3, <1>4, RunKeeps DEF CoverInv
<1>5. CASE pc'[r] = "fetch"
  <2>1. \A p \in DOMAIN window'[r] : ReplyCovered(r, p)'
    BY <1>1 DEF ReplyCovered, Asked
  <2>2. c \in Growing => DOMAIN window'[r] = {page'[r]}
    <3>1. PICK k \in Nat \ {0} : DOMAIN window'[r] = first..(first + k - 1)
      <4>1. WindowOK(r)'
        BY <1>1 DEF WindowsOK
      <4> QED BY <1>2, <1>5, <4>1 DEF WindowOK, Open
    <3>2. c \in Growing => Limit(r) = 1
      BY DEF FromTheStart, Limit
    <3>3. first \in DOMAIN window'[r]
      BY <3>1
    <3>4. c \in Growing => DOMAIN window'[r] \subseteq {first}
      BY <1>1, <3>2
    <3> QED BY <1>2, <3>3, <3>4
  <2>3. 1..(page'[r] - 1 - grown'[c]) \subseteq found'[c]
    BY <1>2 DEF FoundTo
  <2>4. RunCovered(r)'
    BY <1>5, <2>1, <2>2, <2>3 DEF RunCovered, FoundTo
  <2> QED BY <1>4, <2>4
<1>6. CASE pc'[r] = "done"
  BY <1>4, <1>6, ClosedRun DEF Open
<1> QED BY <1>1, <1>5, <1>6


\* The pages in front of the first stop are entries that have been queued.
LEMMA MeaningfulFound ==
  ASSUME TypeInv, CoverInv, NEW r \in Runs, pc[r] = "save",
         NEW p \in Meaningful(r)
  PROVE  /\ window[r][p].is = "entry"
         /\ window[r][p].entry \in found[CatalogOf[r]]
         /\ ReplyCovered(r, p)
         /\ p \in DOMAIN window[r]
<1>1. p \in DOMAIN window[r] /\ p \in Nat /\ window[r][p] \in Reply
  BY PagesPositive, TypeInvParts DEF Meaningful, WindowOK
<1>2. p \notin Stops(r)
  BY <1>1 DEF Meaningful, Before
<1>3. Fetched(r) /\ ReplyCovered(r, p) /\ Entries(r) \subseteq found[CatalogOf[r]]
  BY <1>1 DEF CoverInv, RunCovered, Open
<1>4. window[r][p].is = "entry"
  BY <1>1, <1>2, <1>3 DEF Fetched, Stops, PagesWith, Reply, Replies
<1> QED BY <1>1, <1>3, <1>4 DEF Entries

\* What the checkpoint is going to say is true.
LEMMA NextPageCovered ==
  ASSUME FromTheStart, TypeInv, CoverInv, NEW r \in Runs, pc[r] = "save"
  PROVE  /\ FoundTo(CatalogOf[r], NextPage(r) - 1 - grown[CatalogOf[r]])
         /\ Terminal(r) => FoundTo(CatalogOf[r], Size[CatalogOf[r]])
<1> DEFINE c == CatalogOf[r]
<1>0. /\ c \in Catalogs /\ grown[c] \in Nat /\ Size[c] \in Nat
      /\ page[r] \in Nat \ {0} /\ found[c] \subseteq Int
  BY TypeInvParts, DiscoveryAssumption DEF PlainType
<1>1. PICK n \in Nat \ {0} :
        /\ DOMAIN window[r] = page[r]..(page[r] + n - 1)
        /\ Cardinality(DOMAIN window[r]) = n
  BY WindowPages DEF Open
<1>2. /\ FoundTo(c, page[r] - 1 - grown[c])
      /\ c \in Growing => DOMAIN window[r] = {page[r]}
      /\ \A p \in DOMAIN window[r] : ReplyCovered(r, p)
      /\ ~Rejected(r)
  BY DEF CoverInv, RunCovered, Open
<1>3. c \notin Growing => grown[c] = 0
  BY <1>0 DEF CoverInv, CatalogCovered
<1>4. ASSUME NEW p \in Meaningful(r)
      PROVE  /\ c \notin Growing => p \in found[c]
             /\ c \in Growing => FoundTo(c, p - grown[c])
  <2>1. /\ window[r][p].entry \in found[c]
        /\ window[r][p].is = "entry" /\ ReplyCovered(r, p)
        /\ p \in DOMAIN window[r] /\ p \in Nat
    BY MeaningfulFound, PagesPositive
  <2> DEFINE e == window[r][p].entry
  <2>2. /\ e \in Int /\ p - grown[c] <= e /\ e <= p
        /\ c \in Growing => FoundTo(c, e - 1)
    BY <1>0, <2>1 DEF ReplyCovered
  <2>3. c \notin Growing => e = p
    BY <1>3, <2>1, <2>2
  <2>4. c \in Growing => FoundTo(c, p - grown[c])
    <3>1. c \in Growing => 1..e \subseteq found[c]
      BY <2>1, <2>2 DEF FoundTo
    <3> QED BY <1>0, <2>1, <2>2, <3>1 DEF FoundTo
  <2> QED BY <2>1, <2>3, <2>4
<1>5. CASE Terminal(r)
  <2> DEFINE f == FirstStop(r)
  <2>1. /\ f \in DOMAIN window[r] /\ f \in Nat /\ NextPage(r) = f
        /\ \A q \in Stops(r) : q \in Nat /\ f <= q
        /\ window[r][f].is = "empty"
    BY <1>5, FirstStopLeast, PagesPositive DEF Terminal, NextPage, Stops, PagesWith
  <2>2. IF c \in Growing THEN FoundTo(c, Size[c]) ELSE Size[c] < f
    BY <1>2, <2>1 DEF ReplyCovered
  <2>3. CASE c \in Growing
    BY <1>2, <2>1, <2>2, <2>3
  <2>4. CASE c \notin Growing
    <3>1. ASSUME NEW i \in 1..(f - 1) PROVE i \in found[c]
      <4>1. CASE i < page[r]
        BY <1>0, <1>2, <1>3, <2>1, <2>4, <4>1 DEF FoundTo
      <4>2. CASE page[r] <= i
        <5>1. i \in Nat /\ i \in DOMAIN window[r] /\ i < f
          BY <1>0, <1>1, <2>1, <4>2
        <5>2. i \in Meaningful(r)
          BY <2>1, <5>1 DEF Meaningful, Before
        <5> QED BY <1>4, <2>4, <5>2
      <4> QED BY <1>0, <2>1, <4>1, <4>2
    <3>2. \A i \in 1..(f - 1) : i \in found[c]
      BY <3>1
    <3>3. 1..(f - 1 - grown[c]) \subseteq found[c] /\ 1..Size[c] \subseteq found[c]
      BY <1>0, <1>3, <2>1, <2>2, <2>4, <3>2
    <3> QED BY <2>1, <3>3 DEF FoundTo
  <2> QED BY <2>3, <2>4
<1>6. CASE ~Terminal(r)
  <2>1. Stops(r) = {}
    <3>1. SUFFICES ASSUME Stops(r) # {} PROVE FALSE
      OBVIOUS
    <3>2. FirstStop(r) \in PagesWith(r, {"empty", "error"})
      BY <3>1, FirstStopLeast DEF Stops
    <3> QED BY <1>2, <1>6, <3>1, <3>2 DEF PagesWith, Rejected, Terminal
  <2>2. Meaningful(r) = DOMAIN window[r]
    BY <2>1 DEF Meaningful, Before
  <2>3. NextPage(r) = page[r] + n
    BY <1>1, <1>6 DEF NextPage
  <2>4. CASE c \in Growing
    <3>1. page[r] \in Meaningful(r) /\ n = 1
      BY <1>0, <1>1, <1>2, <2>2, <2>4
    <3> QED BY <1>0, <1>4, <1>6, <2>3, <2>4, <3>1 DEF FoundTo
  <2>5. CASE c \notin Growing
    <3>1. ASSUME NEW i \in 1..(page[r] + n - 1) PROVE i \in found[c]
      <4>1. CASE i < page[r]
        BY <1>0, <1>2, <1>3, <2>5, <4>1 DEF FoundTo
      <4>2. CASE page[r] <= i
        BY <1>0, <1>1, <1>4, <2>2, <2>5, <4>2
      <4>3. i \in Int /\ page[r] \in Int
        BY <1>0
      <4> QED BY <4>1, <4>2, <4>3
    <3>2. 1..(page[r] + n - 1 - grown[c]) \subseteq found[c]
      BY <1>0, <1>3, <2>5, <3>1
    <3> QED BY <1>0, <1>6, <2>3, <3>2 DEF FoundTo
  <2> QED BY <2>4, <2>5
<1> QED BY <1>5, <1>6


LEMMA NextCovered ==
  FromTheStart /\ TypeInv /\ CoverInv /\ [Next]_vars => CoverInv'
<1> SUFFICES ASSUME FromTheStart, TypeInv, CoverInv, [Next]_vars PROVE CoverInv'
  OBVIOUS
<1>0. PlainType /\ DOMAIN window = Runs /\ \A r \in Runs : WindowOK(r)
  BY TypeInvParts
<1>1. ASSUME found' = found, grown' = grown PROVE Forward
  BY <1>0, <1>1 DEF Forward, PlainType
<1>2. ASSUME Forward, checkpoint' = checkpoint,
             \A r \in Runs : RunCovered(r)'
      PROVE  CoverInv'
  BY <1>2, CatalogKeeps DEF CoverInv
<1>3. ASSUME NEW r \in Runs, Begin(r) PROVE CoverInv'
  <2> DEFINE c == CatalogOf[r]
  <2>0. /\ c \in Catalogs /\ grown[c] \in Nat /\ checkpoint[c].page \in Nat \ {0}
        /\ StartPage[r] = 1
    BY <1>0, DiscoveryAssumption DEF PlainType, FromTheStart
  <2>1. UNCHANGED <<found, checkpoint, grown>>
    BY <1>3 DEF Begin
  <2>2. CASE Proceed(r, StartPage[r], 0)
    <3>1. FoundTo(c, StartPage[r] - 1 - grown[c])
      BY <2>0 DEF FoundTo
    <3> QED BY <1>1, <1>2, <2>0, <2>1, <2>2, <3>1, ProceedCovered
  <2>3. CASE Proceed(r, checkpoint[c].page, 0)
    <3>1. FoundTo(c, checkpoint[c].page - 1 - grown[c])
      BY <2>0 DEF CoverInv, CatalogCovered
    <3> QED BY <1>1, <1>2, <2>0, <2>1, <2>3, <3>1, ProceedCovered
  <2>4. CASE pc' = [pc EXCEPT ![r] = "done"] /\ UNCHANGED <<page, processed, window>>
    <3>1. pc'[r] = "done" /\ \A q \in Runs : q # r => pc'[q] = pc[q]
      BY <1>0, <2>4 DEF PlainType
    <3>2. \A q \in Runs : RunCovered(q)'
      BY <1>1, <2>1, <2>4, <3>1, RunKeeps, ClosedRun DEF CoverInv, Open
    <3> QED BY <1>1, <1>2, <2>1, <3>2
  <2> QED BY <1>3, <2>2, <2>3, <2>4 DEF Begin
<1>4. ASSUME NEW r \in Runs, NEW p, NEW x, pc[r] = "fetch",
             p \in DOMAIN window[r],
             window' = [window EXCEPT ![r] = [window[r] EXCEPT ![p] = x]],
             UNCHANGED <<found, checkpoint, grown, pc, page>>,
             x.is = "entry" =>
               /\ p - grown[CatalogOf[r]] <= x.entry /\ x.entry <= p
               /\ x.entry <= Size[CatalogOf[r]]
               /\ CatalogOf[r] \in Growing => FoundTo(CatalogOf[r], x.entry - 1),
             x.is = "empty" =>
               IF CatalogOf[r] \in Growing
               THEN FoundTo(CatalogOf[r], Size[CatalogOf[r]])
               ELSE Size[CatalogOf[r]] < p
      PROVE  CoverInv'
  <2>1. Forward
    BY <1>1, <1>4
  <2> DEFINE w == [window[r] EXCEPT ![p] = x]
  <2>2. DOMAIN w = DOMAIN window[r] /\ w[p] = x /\ \A q \in DOMAIN w : q # p => w[q] = window[r][q]
    BY <1>4
  <2> HIDE DEF w
  <2>3. window'[r] = w /\ \A q \in Runs : q # r => window'[q] = window[q]
    BY <1>0, <1>4, OneWindow DEF w
  <2>4. ASSUME NEW q \in DOMAIN window[r] PROVE ReplyCovered(r, q)'
    <3>1. CASE q = p
      BY <1>4, <2>2, <2>3, <3>1 DEF ReplyCovered, FoundTo
    <3>2. CASE q # p
      <4>1. ReplyCovered(r, q) /\ window'[r][q] = window[r][q]
        BY <1>4, <2>2, <2>3, <3>2 DEF CoverInv, RunCovered, Open
      <4> QED BY <2>1, <4>1, ReplyKeeps
    <3> QED BY <3>1, <3>2
  <2>5. /\ FoundTo(CatalogOf[r], page[r] - 1 - grown[CatalogOf[r]])
        /\ CatalogOf[r] \in Growing => DOMAIN window[r] = {page[r]}
    BY <1>4 DEF CoverInv, RunCovered, Open
  <2>6. RunCovered(r)'
    BY <1>4, <2>2, <2>3, <2>4, <2>5 DEF RunCovered, FoundTo
  <2>7. \A q \in Runs : RunCovered(q)'
    BY <1>4, <2>1, <2>3, <2>6, RunKeeps DEF CoverInv
  <2> QED BY <1>2, <1>4, <2>1, <2>7
<1>5. ASSUME NEW r \in Runs, NEW p \in DOMAIN window[r], SendRequest(r, p)
      PROVE  CoverInv'
  <2> DEFINE x == [window[r][p] EXCEPT !.is = "sent"]
  <2>1. window[r][p] \in Reply
    BY <1>0 DEF WindowOK
  <2>2. x.is = "sent"
    BY <2>1 DEF Reply
  <2>3. /\ window' = [window EXCEPT ![r] = [window[r] EXCEPT ![p] = x]]
        /\ UNCHANGED <<found, checkpoint, grown, pc, page>> /\ pc[r] = "fetch"
    BY <1>5 DEF SendRequest
  <2> HIDE DEF x
  <2> QED BY <1>4, <2>2, <2>3
<1>6. ASSUME NEW r \in Runs, NEW p \in DOMAIN window[r], Receive(r, p)
      PROVE  CoverInv'
  <2> DEFINE c == CatalogOf[r]
             f == [window[r][p] EXCEPT !.is = "error"]
             x == Shown(c, p)
  <2>0. UNCHANGED <<found, checkpoint, grown, pc, page>> /\ pc[r] = "fetch"
    BY <1>6 DEF Receive
  <2>1. CASE window' = [window EXCEPT ![r][p].is = "error"]
    <3>1. window[r][p] \in Reply
      BY <1>0 DEF WindowOK
    <3>2. f.is = "error"
      BY <3>1 DEF Reply
    <3>3. window' = [window EXCEPT ![r] = [window[r] EXCEPT ![p] = f]]
      BY <2>1
    <3> HIDE DEF f
    <3> QED BY <1>4, <2>0, <3>2, <3>3
  <2>2. CASE window' = [window EXCEPT ![r][p] = Shown(CatalogOf[r], p)]
    <3>0. /\ c \in Catalogs /\ p \in Nat /\ page[r] \in Nat
          /\ grown[c] \in Nat /\ Size[c] \in Nat
      BY <1>0, PagesPositive, DiscoveryAssumption DEF PlainType
    <3>1. /\ FoundTo(c, page[r] - 1 - grown[c])
          /\ c \in Growing => p = page[r]
          /\ c \notin Growing => grown[c] = 0
      BY <2>0, <3>0 DEF CoverInv, CatalogCovered, RunCovered, Open
    <3>2. x.is = "entry" =>
            /\ p - grown[c] <= x.entry /\ x.entry <= p /\ x.entry <= Size[c]
            /\ c \in Growing => FoundTo(c, x.entry - 1)
      <4>1. CASE p <= Size[c] + grown[c]
        <5>1. x.entry = p - grown[c]
          BY <4>1 DEF Shown
        <5>2. c \in Growing => FoundTo(c, x.entry - 1)
          BY <3>0, <3>1, <5>1 DEF FoundTo
        <5> HIDE DEF x
        <5> QED BY <3>0, <4>1, <5>1, <5>2
      <4>2. CASE ~(p <= Size[c] + grown[c])
        BY <4>2 DEF Shown
      <4> QED BY <4>1, <4>2
    <3>3. x.is = "empty" => IF c \in Growing THEN FoundTo(c, Size[c]) ELSE Size[c] < p
      <4>1. x.is = "empty" => Size[c] + grown[c] < p
        BY <3>0 DEF Shown
      <4> HIDE DEF x
      <4> QED BY <3>0, <3>1, <4>1 DEF FoundTo
    <3>4. window' = [window EXCEPT ![r] = [window[r] EXCEPT ![p] = x]]
      BY <2>2
    <3> HIDE DEF x
    <3> QED BY <1>4, <2>0, <3>2, <3>3, <3>4
  <2> QED BY <1>6, <2>1, <2>2 DEF Receive
<1>7. ASSUME NEW r \in Runs, RejectWindow(r) \/ DatabaseFails(r) PROVE CoverInv'
  <2>1. /\ UNCHANGED <<found, checkpoint, grown, page>>
        /\ pc' = [pc EXCEPT ![r] = "failed"] /\ window' = [window EXCEPT ![r] = <<>>]
    BY <1>7 DEF RejectWindow, DatabaseFails
  <2>2. /\ pc'[r] = "failed"
        /\ \A q \in Runs : q # r => pc'[q] = pc[q] /\ window'[q] = window[q]
    BY <1>0, <2>1 DEF PlainType
  <2>3. \A q \in Runs : RunCovered(q)'
    BY <1>1, <2>1, <2>2, RunKeeps, ClosedRun DEF CoverInv, Open
  <2> QED BY <1>1, <1>2, <2>1, <2>3
<1>8. ASSUME NEW r \in Runs, AcceptWindow(r) PROVE CoverInv'
  <2>1. /\ UNCHANGED <<found, checkpoint, grown, page, window>>
        /\ pc[r] = "fetch" /\ Fetched(r) /\ ~Rejected(r)
        /\ pc'[r] = IF Meaningful(r) = {} THEN "save" ELSE "enqueue"
        /\ \A q \in Runs : q # r => pc'[q] = pc[q]
    BY <1>0, <1>8 DEF AcceptWindow, PlainType
  <2>2. Forward
    BY <1>1, <2>1
  <2>3. Fetched(r)' /\ ~Rejected(r)'
    BY <2>1 DEF Fetched, Rejected, FirstStop, Stops, PagesWith
  <2>4. pc'[r] = "save" => Entries(r)' = {}
    BY <2>1 DEF Entries, Meaningful, Stops, PagesWith, Before
  <2>5. \A p \in DOMAIN window[r] : ReplyCovered(r, p)'
    BY <2>1, <2>2, ReplyKeeps DEF CoverInv, RunCovered, Open
  <2>6. /\ FoundTo(CatalogOf[r], page[r] - 1 - grown[CatalogOf[r]])
        /\ CatalogOf[r] \in Growing => DOMAIN window[r] = {page[r]}
    BY <2>1 DEF CoverInv, RunCovered, Open
  <2>7. RunCovered(r)'
    BY <2>1, <2>3, <2>4, <2>5, <2>6 DEF RunCovered, FoundTo
  <2>8. \A q \in Runs : RunCovered(q)'
    BY <2>1, <2>2, <2>7, RunKeeps DEF CoverInv
  <2> QED BY <1>2, <2>1, <2>2, <2>8
<1>9. ASSUME NEW r \in Runs, EnqueueWindow(r) PROVE CoverInv'
  <2> DEFINE c == CatalogOf[r]
  <2>0. c \in Catalogs
    BY DiscoveryAssumption
  <2>1. /\ UNCHANGED <<checkpoint, grown, page, window>>
        /\ pc[r] = "enqueue" /\ pc'[r] = "save"
        /\ found'[c] = found[c] \cup Entries(r)
        /\ \A d \in Catalogs : d # c => found'[d] = found[d]
        /\ \A q \in Runs : q # r => pc'[q] = pc[q]
    BY <1>0, <1>9, <2>0 DEF EnqueueWindow, PlainType
  <2>2. Forward
    BY <1>0, <2>1 DEF Forward, PlainType
  <2>3. Fetched(r)' /\ ~Rejected(r)' /\ Entries(r)' = Entries(r)
    <3>1. Fetched(r) /\ ~Rejected(r)
      BY <2>1 DEF CoverInv, RunCovered
    <3>2. /\ Fetched(r)' <=> Fetched(r)
          /\ Rejected(r)' <=> Rejected(r)
          /\ Entries(r)' = Entries(r)
      BY <2>1 DEF Fetched, Rejected, FirstStop, Stops, PagesWith, Entries, Meaningful,
                  Before
    <3> QED BY <3>1, <3>2
  <2>4. \A p \in DOMAIN window[r] : ReplyCovered(r, p)'
    BY <2>1, <2>2, ReplyKeeps DEF CoverInv, RunCovered, Open
  <2>5. /\ FoundTo(c, page[r] - 1 - grown[c])
        /\ c \in Growing => DOMAIN window[r] = {page[r]}
    BY <2>1 DEF CoverInv, RunCovered, Open
  <2>6. RunCovered(r)'
    BY <2>1, <2>3, <2>4, <2>5 DEF RunCovered, FoundTo
  <2>7. \A q \in Runs : RunCovered(q)'
    BY <2>1, <2>2, <2>6, RunKeeps DEF CoverInv
  <2> QED BY <1>2, <2>1, <2>2, <2>7
<1>10. ASSUME NEW r \in Runs, SaveCheckpoint(r) PROVE CoverInv'
  <2> DEFINE c == CatalogOf[r]
  <2>0. c \in Catalogs /\ pc[r] = "save" /\ pc[r] \in Open
    BY <1>10, DiscoveryAssumption DEF SaveCheckpoint, Open
  <2>1. /\ FoundTo(c, NextPage(r) - 1 - grown[c])
        /\ Terminal(r) => FoundTo(c, Size[c])
        /\ NextPage(r) \in Nat \ {0}
    BY <2>0, NextPageCovered, NextPagePositive
  <2>2. /\ found' = found /\ grown' = grown
        /\ checkpoint'[c] = [page |-> NextPage(r), completed |-> Terminal(r)]
        /\ \A d \in Catalogs : d # c => checkpoint'[d] = checkpoint[d]
    BY <1>0, <1>10, <2>0 DEF SaveCheckpoint, PlainType
  <2>3. Forward
    BY <1>1, <2>2
  <2>4. \A d \in Catalogs : CatalogCovered(d)'
    <3>1. CatalogCovered(c)'
      BY <2>0, <2>1, <2>2 DEF CoverInv, CatalogCovered, FoundTo
    <3>2. ASSUME NEW d \in Catalogs, d # c PROVE CatalogCovered(d)'
      BY <2>2, <2>3, <3>2, CatalogKeeps DEF CoverInv
    <3> QED BY <3>1, <3>2
  <2>5. \A q \in Runs : RunCovered(q)'
    <3>1. CASE Terminal(r)
      <4>1. /\ pc'[r] = "done" /\ page' = page
            /\ \A q \in Runs : q # r => pc'[q] = pc[q] /\ window'[q] = window[q]
        BY <1>0, <1>10, <3>1 DEF SaveCheckpoint, PlainType
      <4> QED BY <2>3, <4>1, RunKeeps, ClosedRun DEF CoverInv, Open
    <3>2. CASE ~Terminal(r)
      <4> DEFINE n == processed[r] + Cardinality(DOMAIN window[r])
      <4>1. Proceed(r, NextPage(r), n)
        BY <1>10, <3>2 DEF SaveCheckpoint
      <4>2. n \in Nat
        BY <1>0, <2>0, WindowPages DEF PlainType
      <4> HIDE DEF n
      <4> QED BY <2>1, <2>2, <4>1, <4>2, ProceedCovered
    <3> QED BY <3>1, <3>2
  <2> QED BY <2>4, <2>5 DEF CoverInv
<1>11. ASSUME NEW s \in Services, Kill(s) PROVE CoverInv'
  <2>1. /\ UNCHANGED <<found, checkpoint, grown, page>>
        /\ \A q \in Runs : \/ pc'[q] = "killed"
                           \/ pc'[q] = pc[q] /\ window'[q] = window[q]
    BY <1>11 DEF Kill
  <2>2. \A q \in Runs : RunCovered(q)'
    BY <1>1, <2>1, RunKeeps, ClosedRun DEF CoverInv, Open
  <2> QED BY <1>1, <1>2, <2>1, <2>2
<1>12. ASSUME NEW r \in Runs, Again(r) PROVE CoverInv'
  <2>1. /\ UNCHANGED <<found, checkpoint, grown, page, window>>
        /\ pc'[r] = "begin" /\ \A q \in Runs : q # r => pc'[q] = pc[q]
    BY <1>0, <1>12 DEF Again, PlainType
  <2>2. \A q \in Runs : RunCovered(q)'
    BY <1>1, <2>1, RunKeeps, ClosedRun DEF CoverInv, Open
  <2> QED BY <1>1, <1>2, <2>1, <2>2
<1>13. ASSUME NEW c \in Catalogs, Publish(c) PROVE CoverInv'
  <2>1. /\ UNCHANGED <<found, checkpoint, pc, page, window>>
        /\ c \in Growing /\ grown' = [grown EXCEPT ![c] = @ + 1]
    BY <1>13 DEF Publish
  <2>2. Forward
    BY <1>0, <2>1 DEF Forward, PlainType
  <2>3. \A q \in Runs : RunCovered(q)'
    BY <2>1, <2>2, RunKeeps DEF CoverInv
  <2> QED BY <1>2, <2>1, <2>2, <2>3
<1>14. CASE UNCHANGED vars
  <2>1. \A q \in Runs : RunCovered(q)'
    BY <1>1, <1>14, RunKeeps DEF CoverInv, vars
  <2> QED BY <1>1, <1>2, <1>14, <2>1 DEF vars
<1> QED
  BY <1>3, <1>5, <1>6, <1>7, <1>8, <1>9, <1>10, <1>11, <1>12, <1>13, <1>14
     DEF Next, Progress

LEMMA Covered == FromTheStart => (Spec => []CoverInv)
<1> SUFFICES ASSUME FromTheStart PROVE Spec => []CoverInv
  OBVIOUS
<1>1. Spec => []TypeInv
  BY InitType, NextType, PTL DEF Spec
<1>2. TypeInv /\ CoverInv /\ [Next]_vars => CoverInv'
  BY NextCovered
<1> QED BY <1>1, <1>2, InitCovered, PTL DEF Spec

\* A catalog whose checkpoint is completed has been queued whole, for any
\* catalogs, windows, failures and kills, when every run starts at the first
\* page or at the checkpoint and growing catalogs are crawled page by page.
THEOREM CompletedCovers == FromTheStart => (Spec => []CompletedCoversCatalog)
<1>1. CoverInv => CompletedCoversCatalog
  BY DEF CoverInv, CatalogCovered, CompletedCoversCatalog, FoundTo
<1> QED BY <1>1, Covered, PTL

-----------------------------------------------------------------------------
\* Discovery implements Crawl.

\* The variables of Crawl under the refinement mapping of Promise.
QueuedOf == [c \in Catalogs |-> found[c] \cap 1..Size[c]]
ReachedOf ==
  [c \in Catalogs |->
     LET n == checkpoint[c].page - 1 - grown[c]
     IN  IF n < 0 THEN 0 ELSE IF n > Size[c] THEN Size[c] ELSE n]
FinishedOf == [c \in Catalogs |-> checkpoint[c].completed]

LEMMA MarkMeans ==
  ASSUME NEW c, NEW n, NEW done,
         1..n \subseteq QueuedOf[c], done => 1..Size[c] \subseteq QueuedOf[c],
         ReachedOf' = [ReachedOf EXCEPT ![c] = n],
         FinishedOf' = [FinishedOf EXCEPT ![c] = done],
         QueuedOf' = QueuedOf
  PROVE  Promise!Mark(c, n, done)
BY DEF Promise!Mark, QueuedOf, ReachedOf, FinishedOf

LEMMA FindMeans ==
  ASSUME NEW c, NEW first, NEW last,
         1..(first - 1) \subseteq QueuedOf[c], first..last \subseteq 1..Size[c],
         QueuedOf' = [QueuedOf EXCEPT ![c] = @ \cup first..last],
         ReachedOf' = ReachedOf, FinishedOf' = FinishedOf
  PROVE  Promise!Find(c, first, last)
BY DEF Promise!Find, QueuedOf, ReachedOf, FinishedOf

\* A checkpoint is written or a catalog grows: the covered checkpoint is a mark.
LEMMA MarkStep ==
  ASSUME TypeInv, PlainType', found' = found, NEW c \in Catalogs, CatalogCovered(c)',
         \A d \in Catalogs : d # c =>
           checkpoint'[d] = checkpoint[d] /\ grown'[d] = grown[d]
  PROVE  Promise!CrawlNext
<1>1. /\ Size[c] \in Nat /\ grown'[c] \in Nat
      /\ checkpoint'[c] \in [page: Nat \ {0}, completed: BOOLEAN]
  BY DiscoveryAssumption DEF PlainType
<1>2. PICK n \in 0..Size[c] :
        n = LET k == checkpoint'[c].page - 1 - grown'[c]
            IN  IF k < 0 THEN 0 ELSE IF k > Size[c] THEN Size[c] ELSE k
  BY <1>1
<1>3. PICK done \in BOOLEAN : done = checkpoint'[c].completed
  BY <1>1
<1>4. /\ 1..(checkpoint'[c].page - 1 - grown'[c]) \subseteq found[c]
      /\ done => 1..Size[c] \subseteq found[c]
  BY <1>3 DEF CatalogCovered, FoundTo
<1>5. QueuedOf[c] = found[c] \cap 1..Size[c] /\ QueuedOf' = QueuedOf
  BY DEF QueuedOf
<1>6. 1..n \subseteq QueuedOf[c] /\ (done => 1..Size[c] \subseteq QueuedOf[c])
  BY <1>1, <1>2, <1>3, <1>4, <1>5
<1>7. ReachedOf' = [ReachedOf EXCEPT ![c] = n]
  BY <1>2 DEF ReachedOf
<1>8. FinishedOf' = [FinishedOf EXCEPT ![c] = done]
  BY <1>3 DEF FinishedOf
<1>9. Promise!Mark(c, n, done)
  BY <1>5, <1>6, <1>7, <1>8, MarkMeans
<1> QED BY <1>9 DEF Promise!CrawlNext

\* Pages are enqueued: a stretch that follows what was queued, or nothing of
\* what the catalog had at the start.
LEMMA FindStep ==
  ASSUME FromTheStart, TypeInv, CoverInv, NEW r \in Runs, EnqueueWindow(r)
  PROVE  Promise!CrawlNext \/ QueuedOf' = QueuedOf
<1> DEFINE c == CatalogOf[r]
           E == Entries(r) \cap 1..Size[c]
<1>0. /\ c \in Catalogs /\ grown[c] \in Nat /\ Size[c] \in Nat
      /\ page[r] \in Nat \ {0} /\ found \in [Catalogs -> SUBSET Int]
  BY TypeInvParts, DiscoveryAssumption DEF PlainType
<1>1. /\ pc[r] = "enqueue" /\ found' = [found EXCEPT ![c] = @ \cup Entries(r)]
      /\ UNCHANGED <<checkpoint, grown>>
  BY DEF EnqueueWindow
<1>2. PICK n \in Nat \ {0} : DOMAIN window[r] = page[r]..(page[r] + n - 1)
  BY <1>1, WindowPages DEF Open
<1>3. /\ FoundTo(c, page[r] - 1 - grown[c])
      /\ c \in Growing => DOMAIN window[r] = {page[r]}
      /\ \A p \in DOMAIN window[r] : ReplyCovered(r, p)
      /\ Fetched(r)
  BY <1>1 DEF CoverInv, RunCovered, Open
<1>4. c \notin Growing => grown[c] = 0
  BY <1>0 DEF CoverInv, CatalogCovered
<1>5. QueuedOf' = [QueuedOf EXCEPT ![c] = @ \cup E]
  BY <1>0, <1>1 DEF QueuedOf
<1>6. ReachedOf' = ReachedOf /\ FinishedOf' = FinishedOf
  BY <1>1 DEF ReachedOf, FinishedOf
<1>7. ASSUME NEW p \in Meaningful(r)
      PROVE  /\ p \in DOMAIN window[r] /\ p \in Nat
             /\ window[r][p].entry \in Int
             /\ c \notin Growing => window[r][p].entry = p /\ p <= Size[c]
             /\ c \in Growing => FoundTo(c, window[r][p].entry - 1)
  <2>1. p \in DOMAIN window[r] /\ p \in Nat /\ window[r][p] \in Reply
    BY PagesPositive, TypeInvParts DEF Meaningful, WindowOK
  <2>2. p \notin Stops(r)
    BY <2>1 DEF Meaningful, Before
  <2>3. window[r][p].is = "entry" /\ window[r][p].entry \in Int
    BY <1>3, <2>1, <2>2 DEF Fetched, Stops, PagesWith, Reply, Replies
  <2> QED BY <1>0, <1>3, <1>4, <2>1, <2>3 DEF ReplyCovered
<1>8. CASE E = {}
  BY <1>5, <1>8 DEF QueuedOf
<1>9. ASSUME NEW first \in 1..Size[c], NEW last \in 1..Size[c],
             E = first..last, FoundTo(c, first - 1)
      PROVE  Promise!CrawlNext
  <2>1. 1..(first - 1) \subseteq QueuedOf[c]
    BY <1>0, <1>9 DEF FoundTo, QueuedOf
  <2>2. first..last \subseteq 1..Size[c]
    BY <1>0
  <2>3. QueuedOf' = [QueuedOf EXCEPT ![c] = @ \cup first..last]
    BY <1>5, <1>9
  <2> HIDE DEF E
  <2>4. Promise!Find(c, first, last)
    BY <1>6, <2>1, <2>2, <2>3, FindMeans
  <2> QED BY <1>0, <2>4 DEF Promise!CrawlNext
<1>10. CASE c \in Growing /\ E # {}
  <2>1. PICK p \in Meaningful(r) : window[r][p].entry \in 1..Size[c]
    BY <1>10 DEF Entries
  <2>2. \A q \in Meaningful(r) : q = p
    BY <1>3, <1>7, <1>10
  <2> DEFINE e == window[r][p].entry
  <2>3. E = e..e
    BY <1>0, <2>1, <2>2 DEF Entries
  <2>4. FoundTo(c, e - 1)
    BY <1>7, <1>10, <2>1
  <2> QED BY <1>9, <2>1, <2>3, <2>4
<1>11. CASE c \notin Growing /\ E # {}
  <2>1. E = Meaningful(r) /\ Meaningful(r) # {}
    BY <1>0, <1>7, <1>11, PagesPositive DEF Entries
  <2>2. FoundTo(c, page[r] - 1)
    BY <1>0, <1>3, <1>4, <1>11 DEF FoundTo
  <2>3. PICK last \in DOMAIN window[r] : Meaningful(r) = page[r]..last
    <3>1. CASE Stops(r) = {}
      <4>1. Meaningful(r) = page[r]..(page[r] + n - 1)
        BY <1>2, <3>1 DEF Meaningful, Before
      <4>2. page[r] + n - 1 \in DOMAIN window[r]
        BY <1>0, <1>2
      <4> QED BY <4>1, <4>2
    <3>2. CASE Stops(r) # {}
      <4> DEFINE f == FirstStop(r)
      <4>1. /\ f \in DOMAIN window[r] /\ f \in Nat
            /\ \A q \in Stops(r) : q \in Nat /\ f <= q
            /\ f \in Stops(r)
        BY <3>2, FirstStopLeast, PagesPositive DEF Stops, PagesWith
      <4>2. \A p \in DOMAIN window[r] : p \in Nat
        BY PagesPositive
      <4>3. \A p \in DOMAIN window[r] : Before(p, Stops(r)) <=> p < f
        BY <4>1, <4>2 DEF Before
      <4>4. Meaningful(r) = {p \in DOMAIN window[r] : p < f}
        BY <4>3 DEF Meaningful
      <4> HIDE DEF f
      <4>5. Meaningful(r) = page[r]..(f - 1)
        BY <1>0, <1>2, <4>1, <4>4
      <4>6. f - 1 \in DOMAIN window[r]
        BY <1>0, <1>2, <2>1, <4>1, <4>5
      <4> QED BY <4>5, <4>6
    <3> QED BY <3>1, <3>2
  <2>4. page[r] \in 1..Size[c] /\ last \in 1..Size[c]
    <3>1. page[r] \in page[r]..last /\ last \in page[r]..last
      BY <1>0, <1>2, <2>1, <2>3
    <3> QED BY <1>0, <1>7, <1>11, <2>3, <3>1
  <2> QED BY <1>9, <2>1, <2>2, <2>3, <2>4
<1> QED BY <1>8, <1>10, <1>11

LEMMA NextCrawls ==
  FromTheStart /\ TypeInv /\ CoverInv /\ TypeInv' /\ CoverInv' /\ [Next]_vars
    => [Promise!CrawlNext]_(Promise!crawlVars)
<1> SUFFICES ASSUME FromTheStart, TypeInv, CoverInv, TypeInv', CoverInv', [Next]_vars
             PROVE  Promise!CrawlNext \/ UNCHANGED Promise!crawlVars
  OBVIOUS
<1>0. PlainType /\ PlainType'
  BY DEF TypeInv, TypeOK, PlainType
<1>1. CASE UNCHANGED <<found, checkpoint, grown>>
  BY <1>1 DEF Promise!crawlVars
<1>2. ASSUME NEW r \in Runs, EnqueueWindow(r)
      PROVE  Promise!CrawlNext \/ UNCHANGED Promise!crawlVars
  <2>1. CASE QueuedOf' = QueuedOf
    BY <1>2, <2>1 DEF EnqueueWindow, QueuedOf, Promise!crawlVars
  <2> QED BY <1>2, <2>1, FindStep
<1>3. ASSUME NEW r \in Runs, SaveCheckpoint(r) PROVE Promise!CrawlNext
  <2> DEFINE c == CatalogOf[r]
  <2>1. c \in Catalogs
    BY DiscoveryAssumption
  <2>2. /\ found' = found /\ grown' = grown
        /\ \A d \in Catalogs : d # c => checkpoint'[d] = checkpoint[d]
    BY <1>0, <1>3, <2>1 DEF SaveCheckpoint, PlainType
  <2>3. CatalogCovered(c)'
    BY <2>1 DEF CoverInv
  <2> QED BY <1>0, <2>1, <2>2, <2>3, MarkStep
<1>4. ASSUME NEW c \in Catalogs, Publish(c) PROVE Promise!CrawlNext
  <2>1. /\ found' = found /\ checkpoint' = checkpoint
        /\ \A d \in Catalogs : d # c => grown'[d] = grown[d]
    BY <1>0, <1>4 DEF Publish, PlainType
  <2>2. CatalogCovered(c)'
    BY DEF CoverInv
  <2> QED BY <1>0, <2>1, <2>2, MarkStep
<1>5. \/ UNCHANGED <<found, checkpoint, grown>>
      \/ \E r \in Runs : EnqueueWindow(r) \/ SaveCheckpoint(r)
      \/ \E c \in Catalogs : Publish(c)
  BY DEF Next, Progress, Begin, RejectWindow, AcceptWindow, SendRequest, Receive,
         DatabaseFails, Again, Kill, vars
<1> QED BY <1>1, <1>2, <1>3, <1>4, <1>5

\* Discovery implements the gap-free crawl: entries enter the queue without a
\* gap behind them, and no checkpoint passes an entry that was not queued.
THEOREM ImplementsCrawl == FromTheStart => (Spec => LeavesNoGap)
<1> SUFFICES ASSUME FromTheStart PROVE Spec => LeavesNoGap
  OBVIOUS
<1>1. Init => Promise!CrawlInit
  BY DiscoveryAssumption DEF Init, Promise!CrawlInit
<1>2. TypeInv /\ CoverInv /\ TypeInv' /\ CoverInv' /\ [Next]_vars
        => [Promise!CrawlNext]_(Promise!crawlVars)
  BY NextCrawls
<1>3. Spec => []TypeInv
  BY InitType, NextType, PTL DEF Spec
<1> QED BY <1>1, <1>2, <1>3, Covered, PTL DEF Spec, LeavesNoGap, Promise!CrawlSpec

=============================================================================
