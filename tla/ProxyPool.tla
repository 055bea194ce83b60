------------------------------ MODULE ProxyPool ------------------------------
(***************************************************************************)
(* ProxyPoolCursor: the pool is a ring, next walks once around it from the *)
(* cursor.  The set of proxies in cooldown_until that have not passed yet  *)
(* is kept by the modules that use the pool.                               *)
(***************************************************************************)
EXTENDS Integers, Sequences

\* The i-th position of a ring of n, counted from position c.
Ring(c, i, n) == ((c - 1 + i) % n) + 1

Least(S) == CHOOSE i \in S : \A j \in S : i <= j

\* How far next may go: the positions whose proxy is neither excluded nor
\* cooling; none when it returns None.
Found(urls, cursor, excluded) ==
  {i \in 0..(Len(urls) - 1) : urls[Ring(cursor, i, Len(urls))] \notin excluded}

\* What next returns, and where it leaves the cursor.
NextUrl(urls, cursor, excluded) ==
  urls[Ring(cursor, Least(Found(urls, cursor, excluded)), Len(urls))]
NextCursor(urls, cursor, excluded) ==
  Ring(cursor, Least(Found(urls, cursor, excluded)) + 1, Len(urls))

=============================================================================
