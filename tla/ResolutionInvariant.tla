-------------------------- MODULE ResolutionInvariant --------------------------
(* The inductive invariant of Resolution. *)
EXTENDS Resolution

\* Where a call writes the resolution row; a status update never does.
ResolutionAt(c) ==
    CASE call[c].kind = "request" -> 2
      [] call[c].kind = "dispute" -> 5
      [] call[c].kind = "review" -> 5
      [] call[c].kind = "reconcile" -> 3
      [] call[c].kind = "settle" -> IF call[c].candidate = NoCall THEN 6 ELSE 7
      [] OTHER -> 0

\* Calls that hold the locks on which the invariant rests.
PastOutcomes(c) == Running(c) /\ call[c].kind = "settle" /\ at[c] > 4
PastResolution(c) == Running(c) /\ ResolutionAt(c) > 0 /\ at[c] > ResolutionAt(c)

AtPlan == \A c \in Calls : at[c] <= Len(Plan(c)) + 1

Alone == \A c, e \in Calls : c # e =>
    ~(PastOutcomes(c) /\ PastOutcomes(e)) /\ ~(PastResolution(c) /\ PastResolution(e))

\* A request inserts the only resolution row.
RequestInv == \A c \in Calls : call[c].kind = "request" =>
    /\ seen[c].resolution = NoResolution
    /\ PastResolution(c) => db.resolution = NoResolution

\* A settlement names an outcome of the market, and the positions it read are
\* still those of the table when it commits.
SettleInv == \A c \in Calls : Running(c) /\ call[c].kind = "settle" =>
    /\ at[c] > 3 => call[c].winner \in Outcomes
    /\ at[c] > ResolutionAt(c) + 1 => seen[c].positions = db.positions

\* Positions are untouched or paid.
PositionsInv == db.positions \in {Shares, Worthless}

IInv == TypeOK /\ AtPlan /\ Alone /\ RequestInv /\ SettleInv /\ PositionsInv /\ OneWinner
=============================================================================
