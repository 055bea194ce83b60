----------------------------- MODULE Discovery -----------------------------
(***************************************************************************)
(* DiscoveryService.run: each run crawls one catalog window by window.     *)
(* The pages of a window are fetched concurrently under the semaphore of   *)
(* their service, classified from left to right, enqueued and recorded in  *)
(* the checkpoint of the catalog, two transactions under the persistence   *)
(* lock of the service.  A catalog stands for a (source, entity type,      *)
(* scope): the key of discovery_checkpoints.                               *)
(*                                                                         *)
(* A page is abstracted to one entry.  Listings are sorted by descending   *)
(* id, so what the source publishes meanwhile moves every entry one page   *)
(* back: page p shows entry p - grown, the entries 1..Size[c] being those  *)
(* of the start and 0, -1, ... the ones published since.                   *)
(***************************************************************************)
EXTENDS Integers, FiniteSets

CONSTANTS
  Runs,         \* invocations of run, each may be repeated
  Services,     \* DiscoveryService objects, each in a process
  Catalogs,
  ServiceOf,    \* the service and the catalog of each run
  CatalogOf,
  Concurrency,  \* per service: the semaphore, and the pages of a window
  Resumes,      \* the runs with resume and without start_page
  StartPage,    \* start_page of the other runs
  MaxPages,     \* max_pages, 0 for None
  Size,         \* the non-empty pages of each catalog at the start
  Growing,      \* the catalogs the source publishes in while they are crawled
  Budget        \* bounds

\* What the environment does: a request or a database call fails, the
\* source publishes, a process is stopped, a run is started again.
Kinds == {"failure", "publish", "kill", "again"}

ASSUME DiscoveryAssumption ==
  /\ ServiceOf \in [Runs -> Services] /\ CatalogOf \in [Runs -> Catalogs]
  /\ Concurrency \in [Services -> Nat \ {0}]
  /\ Resumes \subseteq Runs
  /\ StartPage \in [Runs -> Nat \ {0}]
  /\ MaxPages \in [Runs -> Nat]
  /\ Size \in [Catalogs -> Nat] /\ Growing \subseteq Catalogs
  /\ Budget \in [Kinds -> Nat]

VARIABLES
  found,       \* entries enqueued so far (the queue loses none, see Frontier)
  checkpoint,  \* next_page and completed of each catalog's row
  grown,       \* how many pages the catalog has grown by
  pc,          \* where each run is
  page,        \* the first page of the window
  processed,   \* pages_processed
  window,      \* the reply to each page of the window
  budget

vars == <<found, checkpoint, grown, pc, page, processed, window, budget>>

Replies == {"asked", "sent", "entry", "empty", "error"}
Reply == [is: Replies, entry: Int]
Asked == [is |-> "asked", entry |-> 0]

Labels == {"begin", "fetch", "enqueue", "save", "done", "failed", "killed"}
Open == {"fetch", "enqueue", "save"}
Ended == {"done", "failed", "killed"}

TypeOK ==
  /\ found \in [Catalogs -> SUBSET Int]
  /\ checkpoint \in [Catalogs -> [page: Nat \ {0}, completed: BOOLEAN]]
  /\ grown \in [Catalogs -> Nat]
  /\ pc \in [Runs -> Labels]
  /\ page \in [Runs -> Nat \ {0}]
  /\ processed \in [Runs -> Nat]
  /\ DOMAIN window = Runs
  /\ \A r \in Runs : /\ DOMAIN window[r] \subseteq Nat
                     /\ window[r] \in [DOMAIN window[r] -> Reply]
                     /\ DOMAIN window[r] # {} <=> pc[r] \in Open
  /\ budget \in [Kinds -> Nat]

Init ==
  /\ found = [c \in Catalogs |-> {}]
  /\ checkpoint = [c \in Catalogs |-> [page |-> 1, completed |-> FALSE]]
  /\ grown = [c \in Catalogs |-> 0]
  /\ pc = [r \in Runs |-> "begin"]
  /\ page = [r \in Runs |-> 1]
  /\ processed = [r \in Runs |-> 0]
  /\ window = [r \in Runs |-> <<>>]
  /\ budget = Budget

Spend(kind) ==
  /\ budget[kind] > 0
  /\ budget' = [budget EXCEPT ![kind] = @ - 1]

-----------------------------------------------------------------------------
\* One window.

Limit(r) == Concurrency[ServiceOf[r]]

\* remaining: how many pages the next window has, n of them being processed.
\* (Broken: off by one.)
WindowSizeShort(r, n) ==
  IF MaxPages[r] = 0 \/ MaxPages[r] - n > Limit(r) THEN Limit(r)
  ELSE MaxPages[r] - n - 1
WindowSize(r, n) ==
  IF MaxPages[r] = 0 \/ MaxPages[r] - n >= Limit(r) THEN Limit(r)
  ELSE MaxPages[r] - n

\* The head of the while loop: the window that starts at first, or the end.
Proceed(r, first, n) ==
  LET more == MaxPages[r] = 0 \/ n < MaxPages[r]
      pages == first..(first + WindowSize(r, n) - 1)
  IN  /\ page' = [page EXCEPT ![r] = first]
      /\ processed' = [processed EXCEPT ![r] = n]
      /\ window' = [window EXCEPT ![r] =
                      IF more THEN [p \in pages |-> Asked] ELSE <<>>]
      /\ pc' = [pc EXCEPT ![r] = IF more THEN "fetch" ELSE "done"]

PagesWith(r, replies) == {p \in DOMAIN window[r] : window[r][p].is \in replies}

\* The requests of a service that hold its semaphore.
InFlight(s) ==
  UNION {{r} \X PagesWith(r, {"sent"}) : r \in {q \in Runs : ServiceOf[q] = s}}

\* classify_discovery_window: the first page that is no entry decides, what is
\* behind it is speculative.  (Broken: an error is passed over.)
StopsIgnoringErrors(r) == PagesWith(r, {"empty"})
Stops(r) == PagesWith(r, {"empty", "error"})
Before(p, S) == \A q \in S : p < q
FirstStop(r) == CHOOSE p \in Stops(r) : \A q \in Stops(r) : p <= q
Fetched(r) == PagesWith(r, {"asked", "sent"}) = {}
Rejected(r) == Stops(r) # {} /\ window[r][FirstStop(r)].is = "error"
Terminal(r) == Stops(r) # {} /\ window[r][FirstStop(r)].is = "empty"
Meaningful(r) == {p \in DOMAIN window[r] : Before(p, Stops(r))}
Entries(r) == {window[r][p].entry : p \in Meaningful(r)}

\* next_page.  (Broken: it advances by a full window.)
NextFullWindow(r) ==
  IF Terminal(r) THEN FirstStop(r) ELSE page[r] + Limit(r)
NextPage(r) ==
  IF Terminal(r) THEN FirstStop(r) ELSE page[r] + Cardinality(DOMAIN window[r])

-----------------------------------------------------------------------------

\* get_checkpoint, when the run resumes.
Begin(r) ==
  LET row == checkpoint[CatalogOf[r]]
  IN  /\ pc[r] = "begin"
      /\ IF r \notin Resumes THEN Proceed(r, StartPage[r], 0)
         ELSE IF ~row.completed THEN Proceed(r, row.page, 0)
         ELSE /\ pc' = [pc EXCEPT ![r] = "done"]
              /\ UNCHANGED <<page, processed, window>>
  /\ UNCHANGED <<found, checkpoint, grown, budget>>

\* The semaphore is free.  (Broken: each run has one of its own.)
PermittedAlone(r) == Cardinality(PagesWith(r, {"sent"})) < Limit(r)
Permitted(r) == Cardinality(InFlight(ServiceOf[r])) < Limit(r)

SendRequest(r, p) ==
  /\ pc[r] = "fetch"
  /\ p \in PagesWith(r, {"asked"})
  /\ Permitted(r)
  /\ window' = [window EXCEPT ![r][p].is = "sent"]
  /\ UNCHANGED <<found, checkpoint, grown, pc, page, processed, budget>>

\* What page p of the catalog shows now.
Shown(c, p) ==
  IF p <= Size[c] + grown[c]
  THEN [is |-> "entry", entry |-> p - grown[c]]
  ELSE [is |-> "empty", entry |-> 0]

Receive(r, p) ==
  /\ pc[r] = "fetch"
  /\ p \in PagesWith(r, {"sent"})
  /\ \/ /\ window' = [window EXCEPT ![r][p] = Shown(CatalogOf[r], p)]
        /\ UNCHANGED budget
     \/ /\ window' = [window EXCEPT ![r][p].is = "error"]
        /\ Spend("failure")
  /\ UNCHANGED <<found, checkpoint, grown, pc, page, processed>>

\* A failure before the terminal page: run raises, nothing is stored.
RejectWindow(r) ==
  /\ pc[r] = "fetch" /\ Fetched(r) /\ Rejected(r)
  /\ pc' = [pc EXCEPT ![r] = "failed"]
  /\ window' = [window EXCEPT ![r] = <<>>]
  /\ UNCHANGED <<found, checkpoint, grown, page, processed, budget>>

\* The persistence lock is held between this step and the end of save.  (Broken:
\* a run that raises keeps it.)
KeptByFailed(s) ==
  \E q \in Runs : ServiceOf[q] = s /\ pc[q] \in {"enqueue", "save", "failed"}
Locked(s) == \E q \in Runs : ServiceOf[q] = s /\ pc[q] \in {"enqueue", "save"}

AcceptWindow(r) ==
  /\ pc[r] = "fetch" /\ Fetched(r) /\ ~Rejected(r)
  /\ ~Locked(ServiceOf[r])
  /\ pc' = [pc EXCEPT ![r] = IF Meaningful(r) = {} THEN "save" ELSE "enqueue"]
  /\ UNCHANGED <<found, checkpoint, grown, page, processed, window, budget>>

EnqueueWindow(r) ==
  /\ pc[r] = "enqueue"
  /\ found' = [found EXCEPT ![CatalogOf[r]] = @ \cup Entries(r)]
  /\ pc' = [pc EXCEPT ![r] = "save"]
  /\ UNCHANGED <<checkpoint, grown, page, processed, window, budget>>

\* set_checkpoint, the end of the window and the head of the loop.
SaveCheckpoint(r) ==
  /\ pc[r] = "save"
  /\ checkpoint' = [checkpoint EXCEPT ![CatalogOf[r]] =
                      [page |-> NextPage(r), completed |-> Terminal(r)]]
  /\ IF Terminal(r)
     THEN /\ pc' = [pc EXCEPT ![r] = "done"]
          /\ window' = [window EXCEPT ![r] = <<>>]
          /\ UNCHANGED <<page, processed>>
     ELSE Proceed(r, NextPage(r), processed[r] + Cardinality(DOMAIN window[r]))
  /\ UNCHANGED <<found, grown, budget>>

-----------------------------------------------------------------------------

\* A database call raises: run raises, the lock is released.
DatabaseFails(r) ==
  /\ pc[r] \in {"begin", "enqueue", "save"}
  /\ pc[r] = "begin" => r \in Resumes
  /\ Spend("failure")
  /\ pc' = [pc EXCEPT ![r] = "failed"]
  /\ window' = [window EXCEPT ![r] = <<>>]
  /\ UNCHANGED <<found, checkpoint, grown, page, processed>>

\* A crash, or the cancellation of a service: what is not committed is gone.
Kill(s) ==
  LET gone == {r \in Runs : ServiceOf[r] = s /\ pc[r] \notin Ended}
  IN  /\ Spend("kill")
      /\ gone # {}
      /\ pc' = [r \in Runs |-> IF r \in gone THEN "killed" ELSE pc[r]]
      /\ window' = [r \in Runs |-> IF r \in gone THEN <<>> ELSE window[r]]
      /\ UNCHANGED <<found, checkpoint, grown, page, processed>>

\* The command is given again.
Again(r) ==
  /\ pc[r] \in Ended
  /\ Spend("again")
  /\ pc' = [pc EXCEPT ![r] = "begin"]
  /\ UNCHANGED <<found, checkpoint, grown, page, processed, window>>

Publish(c) ==
  /\ c \in Growing
  /\ Spend("publish")
  /\ grown' = [grown EXCEPT ![c] = @ + 1]
  /\ UNCHANGED <<found, checkpoint, pc, page, processed, window>>

Progress(r) ==
  \/ Begin(r) \/ RejectWindow(r) \/ AcceptWindow(r)
  \/ EnqueueWindow(r) \/ SaveCheckpoint(r)
  \/ \E p \in DOMAIN window[r] : SendRequest(r, p) \/ Receive(r, p)

Next ==
  \/ \E r \in Runs : Progress(r) \/ DatabaseFails(r) \/ Again(r)
  \/ \E s \in Services : Kill(s)
  \/ \E c \in Catalogs : Publish(c)

Spec == Init /\ [][Next]_vars

\* Requests have timeouts and statements end.  The runs that compete for the
\* semaphore and the lock are finite, so weak fairness is enough.
Fairness == \A r \in Runs : WF_vars(Progress(r))

FairSpec == Spec /\ Fairness

-----------------------------------------------------------------------------
\* Properties.

\* A crawl that starts at the first page or at the checkpoint keeps what Crawl
\* promises.
Promise == INSTANCE Crawl WITH
  queued   <- [c \in Catalogs |-> found[c] \cap 1..Size[c]],
  reached  <- [c \in Catalogs |->
                 LET n == checkpoint[c].page - 1 - grown[c]
                 IN  IF n < 0 THEN 0 ELSE IF n > Size[c] THEN Size[c] ELSE n],
  finished <- [c \in Catalogs |-> checkpoint[c].completed]

LeavesNoGap == Promise!CrawlSpec

\* The catalogs of a service together never have more requests under way than
\* its concurrency, however many pages their windows have.
RequestsCapped ==
  \A s \in Services : Cardinality(InFlight(s)) <= Concurrency[s]

\* A completed checkpoint, which makes every later resumed run return at once,
\* means that each entry the catalog had at the start has been queued, whatever
\* failed, was killed and was repeated on the way.
CompletedCoversCatalog ==
  \A c \in Catalogs : checkpoint[c].completed => 1..Size[c] \subseteq found[c]

\* Every run ends, so that in the end all have: the semaphore and the lock come
\* free whatever fails.
RunsEnd == <>[](\A r \in Runs : pc[r] \in Ended)

=============================================================================
