------------------------------- MODULE Crawl -------------------------------
(***************************************************************************)
(* What a crawl of a catalog promises, whatever order its pages arrive in  *)
(* and wherever it is interrupted: entries enter the queue without leaving *)
(* a gap behind them, and the checkpoint never passes an entry that was    *)
(* not queued.  The entries of a catalog that exist when it is crawled for *)
(* the first time are numbered from the newest, 1, to Size[c].             *)
(***************************************************************************)
EXTENDS Integers

CONSTANTS Catalogs, Size

VARIABLES
  queued,    \* the entries that have been handed to the queue
  reached,   \* a crawl that resumes skips this many of the entries
  finished   \* a crawl that resumes does nothing

crawlVars == <<queued, reached, finished>>

CrawlInit ==
  /\ queued = [c \in Catalogs |-> {}]
  /\ reached = [c \in Catalogs |-> 0]
  /\ finished = [c \in Catalogs |-> FALSE]

Find(c, first, last) ==
  /\ 1..(first - 1) \subseteq queued[c]
  /\ first..last \subseteq 1..Size[c]
  /\ queued' = [queued EXCEPT ![c] = @ \cup first..last]
  /\ UNCHANGED <<reached, finished>>

Mark(c, n, done) ==
  /\ 1..n \subseteq queued[c]
  /\ done => 1..Size[c] \subseteq queued[c]
  /\ reached' = [reached EXCEPT ![c] = n]
  /\ finished' = [finished EXCEPT ![c] = done]
  /\ UNCHANGED queued

CrawlNext ==
  \E c \in Catalogs :
    \/ \E first, last \in 1..Size[c] : Find(c, first, last)
    \/ \E n \in 0..Size[c], done \in BOOLEAN : Mark(c, n, done)

CrawlSpec == CrawlInit /\ [][CrawlNext]_crawlVars

=============================================================================
