---------------------------- MODULE MCMemoryMarkets -----------------------------
(***************************************************************************)
(* One or two requests, two candidates and a few orders for MemoryMarkets.  *)
(***************************************************************************)
EXTENDS MemoryMarkets

CONSTANTS r1, u1

MCRequester == [r \in Requests |-> u1]
MCSlug == [r \in Requests |-> "market"]
MCRail == [r \in Requests |-> IF r = r1 THEN "onchain" ELSE "custodial"]

\* The calls of a behaviour that add a row, together, are few; which, is open.
Rows == Len(orders) + Cardinality(awaiting)
          + FoldSet(LAMBDA r, n : n + Len(candidates[r]) + Len(disputes[r]), 0, Requests)
          + FoldSet(LAMBDA d, n : n + evidence[d], 0, Disputes)
Budget == Rows <= 4
=============================================================================
