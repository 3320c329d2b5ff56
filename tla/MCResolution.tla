---------------------------- MODULE MCResolution -------------------------------
(***************************************************************************)
(* Combinations of five calls for Resolution: the request that posts the    *)
(* resolution, and four that meet it and each other in every order.         *)
(***************************************************************************)
EXTENDS ResolutionInvariant

CONSTANTS c1, c2, c3, c4, c5, Yes, No, Ann, Bob

MCShares == [h \in {Ann, Bob} |->
                [o \in {Yes, No} |-> IF h = Bob THEN 2 ELSE IF o = Yes THEN 3 ELSE -1]]

Request == [kind |-> "request"]
Dispute == [kind |-> "dispute"]
Reconcile == [kind |-> "reconcile"]
Review(d, decision) == [kind |-> "review", dispute |-> d, decision |-> decision]
Settle(winner, candidate) == [kind |-> "settle", winner |-> winner, candidate |-> candidate]
Status(s) == [kind |-> "status", status |-> s]

MCScenario(a, b, c, d, e) ==
    [x \in {c1, c2, c3, c4, c5} |->
        CASE x = c1 -> a [] x = c2 -> b [] x = c3 -> c [] x = c4 -> d [] x = c5 -> e]

\* A dispute is dismissed while two settlements name different winners.
TwoSettlements == MCScenario(Request, Dispute, Review(c2, "dismissed"), Settle(Yes, c1), Settle(No, NoCall))
\* Two disputes, and a status that no update may set, meet a settlement.
TwoDisputes == MCScenario(Request, Dispute, Dispute, Status("settled"), Settle(Yes, c1))
\* Two reviews of one dispute, and the oracle.
TwoReviews == MCScenario(Request, Dispute, Review(c2, "under_review"), Review(c2, "withdrawn"), Reconcile)
\* The market is reopened or cancelled, and settlement requested again.
TwoRequests == MCScenario(Request, Request, Status("open"), Status("trading_paused"), Settle(Yes, NoCall))
\* Settlements for an outcome, or a candidate, that the market does not have.
Mistaken == MCScenario(Request, Settle(NoOutcome, NoCall), Settle(Yes, c5), Review(c4, "upheld"), Dispute)

MCScenarios == {TwoSettlements, TwoDisputes, TwoReviews, TwoRequests, Mistaken}

\* One scenario each for the runs that look for one behaviour.
Late == {MCScenario(Request, Dispute, Settle(Yes, c1), Reconcile, Status("cancelled"))}
=============================================================================
