--------------------------- MODULE Resolution_proofs ---------------------------
(* Proofs that the properties of Resolution hold for any calls and any shares. *)
EXTENDS ResolutionInvariant, TLAPS

-----------------------------------------------------------------------------
(* The plans *)

\* What the proofs use of a plan: which statement checks the outcomes, locks
\* the outcomes, writes the resolution row and reads the positions.
PlanFacts(c) ==
    LET n == Len(Plan(c))
        is(i, what, row) == Plan(c)[i][1] = what /\ Plan(c)[i][2] = row
    IN /\ n \in Nat
       /\ n >= ResolutionAt(c)
       /\ ResolutionAt(c) > 0 => is(ResolutionAt(c), "write", "resolution")
       /\ \A i \in 1 .. n :
            /\ is(i, "write", "outcomes") <=> call[c].kind = "settle" /\ i = 4
            /\ is(i, "read", "outcomes") <=> call[c].kind = "settle" /\ i = 3
            /\ is(i, "write", "resolution") <=> i = ResolutionAt(c)
            /\ is(i, "read", "positions") <=> call[c].kind = "settle" /\ i = ResolutionAt(c) + 1
            /\ call[c].kind = "request" => ~is(i, "read", "resolution")

LEMMA PlanOfCall ==
    ASSUME NEW c \in Calls, call[c] \in Call
    PROVE  PlanFacts(c)
<1>1. call[c].kind \in {"request", "dispute", "review", "reconcile", "settle", "status"}
  BY DEF Call
<1>2. CASE call[c].kind = "request"
  <2>1. Plan(c) = RequestPlan  BY <1>2 DEF Plan
  <2> QED  BY <1>2, <2>1 DEF PlanFacts, ResolutionAt, RequestPlan, Read, Write
<1>3. CASE call[c].kind = "dispute"
  <2>1. Plan(c) = DisputePlan  BY <1>3 DEF Plan
  <2> QED  BY <1>3, <2>1 DEF PlanFacts, ResolutionAt, DisputePlan, Read, Write
<1>4. CASE call[c].kind = "review"
  <2>1. Plan(c) = ReviewPlan(call[c].decision)  BY <1>4 DEF Plan
  <2>2. CASE Reinstates(call[c].decision)
    BY <1>4, <2>1, <2>2 DEF PlanFacts, ResolutionAt, ReviewPlan, Read, Write
  <2>3. CASE ~Reinstates(call[c].decision)
    BY <1>4, <2>1, <2>3 DEF PlanFacts, ResolutionAt, ReviewPlan, Read, Write
  <2> QED  BY <2>2, <2>3
<1>5. CASE call[c].kind = "reconcile"
  <2>1. Plan(c) = ReconcilePlan  BY <1>5 DEF Plan
  <2> QED  BY <1>5, <2>1 DEF PlanFacts, ResolutionAt, ReconcilePlan, Read, Write
<1>6. CASE call[c].kind = "settle"
  <2>1. Plan(c) = SettlePlan(call[c].candidate)  BY <1>6 DEF Plan
  <2>2. CASE call[c].candidate = NoCall
    BY <1>6, <2>1, <2>2 DEF PlanFacts, ResolutionAt, SettlePlan, Read, Write
  <2>3. CASE call[c].candidate # NoCall
    BY <1>6, <2>1, <2>3 DEF PlanFacts, ResolutionAt, SettlePlan, Read, Write
  <2> QED  BY <2>2, <2>3
<1>7. CASE call[c].kind = "status"
  <2>1. Plan(c) = StatusPlan  BY <1>7 DEF Plan
  <2> QED  BY <1>7, <2>1 DEF PlanFacts, ResolutionAt, StatusPlan, Read, Write
<1> QED  BY <1>1, <1>2, <1>3, <1>4, <1>5, <1>6, <1>7

-----------------------------------------------------------------------------
(* Locks *)

\* A call past one of its writes holds the row.
LEMMA PastHolds ==
    ASSUME TypeOK, AtPlan, NEW c \in Calls
    PROVE  /\ PastOutcomes(c) => "outcomes" \in Held(c)
           /\ PastResolution(c) => "resolution" \in Held(c)
<1>1. call[c] \in Call /\ at[c] \in Nat \ {0}
  BY DEF TypeOK
<1>2. PlanFacts(c)
  BY <1>1, PlanOfCall
<1>3. Len(Plan(c)) \in Nat /\ at[c] <= Len(Plan(c)) + 1 /\ ResolutionAt(c) \in 0 .. 7
  BY <1>1, <1>2 DEF AtPlan, PlanFacts, ResolutionAt
<1>4. ASSUME NEW i \in 1 .. at[c] - 1, NEW row, Running(c),
             Plan(c)[i][1] = "write", Plan(c)[i][2] = row
      PROVE  row \in Held(c)
  BY <1>4 DEF Held, Written
<1>5. ASSUME PastOutcomes(c) PROVE "outcomes" \in Held(c)
  <2>1. 4 \in 1 .. at[c] - 1 /\ 4 \in 1 .. Len(Plan(c))
    BY <1>1, <1>3, <1>5 DEF PastOutcomes
  <2>2. Plan(c)[4][1] = "write" /\ Plan(c)[4][2] = "outcomes"
    BY <1>2, <1>5, <2>1 DEF PlanFacts, PastOutcomes
  <2> QED  BY <1>4, <1>5, <2>1, <2>2 DEF PastOutcomes
<1>6. ASSUME PastResolution(c) PROVE "resolution" \in Held(c)
  <2> DEFINE r == ResolutionAt(c)
  <2>1. r \in 1 .. at[c] - 1
    BY <1>1, <1>3, <1>6 DEF PastResolution
  <2>2. Plan(c)[r][1] = "write" /\ Plan(c)[r][2] = "resolution"
    BY <1>2, <1>6 DEF PlanFacts, PastResolution
  <2> QED  BY <1>4, <1>6, <2>1, <2>2 DEF PastResolution
<1> QED  BY <1>5, <1>6

\* A call about to read is not at one of these writes.
LEMMA ReadIsNotPast ==
    ASSUME TypeOK, AtPlan, NEW c \in Calls, Does(c, "read")
    PROVE  at[c] \in 1 .. Len(Plan(c)) /\ at[c] # ResolutionAt(c)
           /\ (call[c].kind = "settle" => at[c] # 4)
<1>1. call[c] \in Call /\ at[c] \in Nat \ {0}
  BY DEF TypeOK
<1>2. PlanFacts(c)
  BY <1>1, PlanOfCall
<1>3. at[c] \in 1 .. Len(Plan(c)) /\ Plan(c)[at[c]][1] = "read"
  BY <1>1, <1>2 DEF Does, Finished, PlanFacts
<1> QED  BY <1>2, <1>3 DEF PlanFacts

\* A call that writes the outcomes or the resolution row is alone with it.
LEMMA WriteIsAlone ==
    ASSUME TypeOK, AtPlan, NEW c \in Calls, MayWrite(c), NEW e \in Calls, e # c
    PROVE  /\ call[c].kind = "settle" /\ at[c] = 4 => ~PastOutcomes(e)
           /\ at[c] = ResolutionAt(c) => ~PastResolution(e)
<1>1. call[c] \in Call /\ at[c] \in Nat \ {0}
  BY DEF TypeOK
<1>2. PlanFacts(c)
  BY <1>1, PlanOfCall
<1>3. at[c] \in 1 .. Len(Plan(c)) /\ Does(c, "write") /\ ~Waits(c, e)
  BY <1>1, <1>2 DEF MayWrite, Does, Finished, PlanFacts
<1>4. CASE call[c].kind = "settle" /\ at[c] = 4
  <2>1. Row(c) = "outcomes"
    BY <1>2, <1>3, <1>4 DEF PlanFacts, Row
  <2>2. "outcomes" \notin Held(e)
    BY <1>3, <2>1 DEF Waits, SameRow
  <2>3. at[c] # ResolutionAt(c)
    BY <1>2, <1>3, <2>1 DEF PlanFacts, Row
  <2> QED  BY <2>2, <2>3, PastHolds
<1>5. CASE at[c] = ResolutionAt(c)
  <2>1. Row(c) = "resolution"
    BY <1>2, <1>3, <1>5 DEF PlanFacts, Row
  <2>2. "resolution" \notin Held(e)
    BY <1>3, <2>1 DEF Waits, SameRow
  <2>3. ~(call[c].kind = "settle" /\ at[c] = 4)
    BY <1>2, <1>3, <2>1 DEF PlanFacts, Row
  <2> QED  BY <2>2, <2>3, PastHolds
<1> QED  BY <1>4, <1>5

-----------------------------------------------------------------------------
(* The inductive invariant *)

\* What a call asks for, and with it its plan, never changes.
LEMMA SamePlans ==
    ASSUME UNCHANGED call, NEW c
    PROVE  Plan(c)' = Plan(c) /\ ResolutionAt(c)' = ResolutionAt(c)
  BY DEF Plan, ResolutionAt

LEMMA InitInv == ASSUME Init PROVE IInv
<1> USE ResolutionAssumption
<1>1. TypeOK
  <2>1. NoResolution \in ResolutionRow /\ Worthless \in Positions /\ Shares \in Positions
    BY DEF NoResolution, ResolutionRow, Worthless, Positions
  <2>2. seen \in [Calls -> [resolution : ResolutionRow, positions : Positions]]
    BY <2>1 DEF Init, NothingSeen
  <2>3. db \in Tables
    BY <2>1 DEF Init, Tables, MarketStatuses, TradingStatuses, PendingStatuses
  <2> QED  BY <2>2, <2>3 DEF Init, TypeOK
<1>2. \A c \in Calls : at[c] = 1 /\ seen[c].resolution = NoResolution
  BY DEF Init, NothingSeen
<1>3. ASSUME NEW c \in Calls
      PROVE  /\ at[c] <= Len(Plan(c)) + 1
             /\ ~PastOutcomes(c) /\ ~PastResolution(c)
             /\ call[c].kind = "settle" => ~(at[c] > 3) /\ ~(at[c] > ResolutionAt(c) + 1)
  <2>1. PlanFacts(c)
    BY <1>1, PlanOfCall DEF TypeOK
  <2>2. ResolutionAt(c) \in 0 .. 7
    BY DEF ResolutionAt
  <2> QED  BY <1>2, <2>1, <2>2 DEF PlanFacts, PastOutcomes, PastResolution
<1>4. AtPlan /\ Alone /\ RequestInv /\ SettleInv
  BY <1>2, <1>3 DEF AtPlan, Alone, RequestInv, SettleInv
<1>5. PositionsInv
  BY DEF Init, PositionsInv
<1>6. OneWinner
  BY DEF Init, OneWinner, NoResolution
<1> QED  BY <1>1, <1>4, <1>5, <1>6 DEF IInv

\* A call that ends without effect leaves the others as they were.
LEMMA EndKeeps ==
    ASSUME IInv, NEW c \in Calls, NEW how \in {"refused", "aborted"}, End(c, how), UNCHANGED db
    PROVE  IInv'
<1> USE DEF IInv
<1>1. TypeOK'
  <2>1. NothingSeen \in [resolution : ResolutionRow, positions : Positions]
    BY DEF NothingSeen, NoResolution, ResolutionRow, Worthless, Positions
  <2>2. seen' \in [Calls -> [resolution : ResolutionRow, positions : Positions]]
    BY <2>1 DEF TypeOK, End
  <2> QED  BY <2>2 DEF TypeOK, End
<1>2. \A e \in Calls : Running(e)' => Running(e) /\ e # c /\ seen'[e] = seen[e]
  BY DEF TypeOK, End, Running
<1>3. \A e \in Calls : /\ Plan(e)' = Plan(e) /\ ResolutionAt(e)' = ResolutionAt(e)
                       /\ at'[e] = at[e] /\ call'[e] = call[e]
  BY SamePlans DEF End
<1>4. \A e \in Calls : /\ PastOutcomes(e)' => PastOutcomes(e)
                       /\ PastResolution(e)' => PastResolution(e)
  BY <1>2, <1>3 DEF PastOutcomes, PastResolution
<1>5. AtPlan'
  BY <1>3 DEF AtPlan
<1>6. Alone'
  BY <1>4 DEF Alone
<1>7. RequestInv'
  <2>1. \A e \in Calls : seen'[e] = seen[e] \/ seen'[e].resolution = NoResolution
    BY DEF TypeOK, End, NothingSeen
  <2> QED  BY <1>3, <1>4, <2>1 DEF RequestInv
<1>8. SettleInv'
  BY <1>2, <1>3 DEF SettleInv
<1>9. PositionsInv' /\ OneWinner'
  BY DEF PositionsInv, OneWinner
<1> QED  BY <1>1, <1>5, <1>6, <1>7, <1>8, <1>9

LEMMA ReadKeeps ==
    ASSUME IInv, NEW c \in Calls, ReadRow(c)
    PROVE  IInv'
<1> USE DEF IInv
<1>1. call[c] \in Call /\ at[c] \in Nat \ {0} /\ PlanFacts(c)
  BY PlanOfCall DEF TypeOK
<1>2. Does(c, "read") /\ ~Refuses(c, Row(c)) /\ UNCHANGED <<call, status, db>>
      /\ at' = [at EXCEPT ![c] = @ + 1] /\ seen' = [seen EXCEPT ![c] = Remember(c, Row(c))]
  BY DEF ReadRow, Advance
<1>3. /\ at[c] \in 1 .. Len(Plan(c)) /\ at[c] # ResolutionAt(c)
      /\ call[c].kind = "settle" => at[c] # 4
  BY <1>2, ReadIsNotPast
<1>4. \A e \in Calls : /\ Plan(e)' = Plan(e) /\ ResolutionAt(e)' = ResolutionAt(e)
                       /\ Running(e)' = Running(e) /\ call'[e] = call[e]
                       /\ e # c => at'[e] = at[e] /\ seen'[e] = seen[e]
  BY <1>2, SamePlans DEF Running, TypeOK
<1>5. at'[c] = at[c] + 1 /\ seen'[c] = Remember(c, Row(c))
  BY <1>2 DEF TypeOK
<1>6. ResolutionAt(c) \in 0 .. 7
  BY DEF ResolutionAt
<1>7. Remember(c, Row(c)) \in [resolution : ResolutionRow, positions : Positions]
  <2>1. NoResolution \in ResolutionRow
    BY DEF NoResolution, ResolutionRow
  <2>2. db.resolution \in ResolutionRow /\ db.positions \in Positions
    BY DEF TypeOK, Tables
  <2>3. seen[c] \in [resolution : ResolutionRow, positions : Positions]
    BY DEF TypeOK
  <2> QED  BY <2>1, <2>2, <2>3 DEF Remember, FoundResolution
<1>8. TypeOK'
  BY <1>1, <1>2, <1>7 DEF TypeOK
<1>9. \A e \in Calls : /\ PastOutcomes(e)' => PastOutcomes(e)
                       /\ PastResolution(e)' => PastResolution(e)
  BY <1>1, <1>3, <1>4, <1>5, <1>6 DEF PastOutcomes, PastResolution
<1>10. AtPlan'
  <2>1. at'[c] <= Len(Plan(c)) + 1
    BY <1>1, <1>3, <1>5 DEF PlanFacts
  <2> QED  BY <1>4, <2>1 DEF AtPlan
<1>11. Alone'
  BY <1>9 DEF Alone
<1>12. RequestInv'
  <2>1. call[c].kind = "request" => Row(c) # "resolution"
    BY <1>1, <1>2, <1>3 DEF PlanFacts, Does, Row
  <2>2. call[c].kind = "request" => seen'[c].resolution = seen[c].resolution
    BY <1>5, <2>1 DEF Remember, TypeOK
  <2> QED  BY <1>2, <1>4, <1>9, <2>2 DEF RequestInv
<1>13. SettleInv'
  <2>1. CASE call[c].kind = "settle"
    <3>1. at[c] = 3 => call[c].winner \in Outcomes
      <4>1. at[c] = 3 => Row(c) = "outcomes"
        BY <1>1, <1>3, <2>1 DEF PlanFacts, Row
      <4> QED  BY <1>2, <4>1 DEF Refuses, RefusesOutcome
    <3>2. at[c] = ResolutionAt(c) + 1 => seen'[c].positions = db.positions
      <4>1. at[c] = ResolutionAt(c) + 1 => Row(c) = "positions"
        BY <1>1, <1>3, <2>1 DEF PlanFacts, Row
      <4> QED  BY <1>5, <4>1 DEF Remember, TypeOK
    <3>3. Row(c) = "positions" => at[c] = ResolutionAt(c) + 1
      BY <1>1, <1>2, <1>3, <2>1 DEF PlanFacts, Does, Row
    <3>4. Row(c) # "positions" => seen'[c].positions = seen[c].positions
      BY <1>5 DEF Remember, TypeOK
    <3>5. Running(c) => /\ at'[c] > 3 => call[c].winner \in Outcomes
                        /\ at'[c] > ResolutionAt(c) + 1 => seen'[c].positions = db.positions
      BY <1>1, <1>5, <1>6, <2>1, <3>1, <3>2, <3>3, <3>4 DEF SettleInv
    <3> QED  BY <1>2, <1>4, <3>5 DEF SettleInv
  <2>2. CASE call[c].kind # "settle"
    BY <1>2, <1>4, <2>2 DEF SettleInv
  <2> QED  BY <2>1, <2>2
<1>14. PositionsInv' /\ OneWinner'
  BY <1>2 DEF PositionsInv, OneWinner
<1> QED  BY <1>8, <1>10, <1>11, <1>12, <1>13, <1>14

LEMMA WriteKeeps ==
    ASSUME IInv, NEW c \in Calls, WriteRow(c)
    PROVE  IInv'
<1> USE DEF IInv
<1>1. call[c] \in Call /\ at[c] \in Nat \ {0} /\ PlanFacts(c)
  BY PlanOfCall DEF TypeOK
<1>2. MayWrite(c) /\ ~Duplicate(c) /\ UNCHANGED <<call, status, db, seen>>
      /\ at' = [at EXCEPT ![c] = @ + 1]
  BY DEF WriteRow, Advance
<1>3. at[c] \in 1 .. Len(Plan(c)) /\ Plan(c)[at[c]][1] = "write"
  BY <1>1, <1>2 DEF MayWrite, Does, Finished, PlanFacts
<1>4. \A e \in Calls : /\ Plan(e)' = Plan(e) /\ ResolutionAt(e)' = ResolutionAt(e)
                       /\ Running(e)' = Running(e) /\ call'[e] = call[e] /\ seen'[e] = seen[e]
                       /\ e # c => at'[e] = at[e]
  BY <1>2, SamePlans DEF Running, TypeOK
<1>5. at'[c] = at[c] + 1 /\ ResolutionAt(c) \in 0 .. 7
  BY <1>2 DEF TypeOK, ResolutionAt
<1>6. TypeOK'
  BY <1>1, <1>2 DEF TypeOK
<1>7. \A e \in Calls : e # c => /\ PastOutcomes(e)' => PastOutcomes(e)
                                /\ PastResolution(e)' => PastResolution(e)
  BY <1>4 DEF PastOutcomes, PastResolution
<1>8. PastOutcomes(c)' => PastOutcomes(c) \/ (call[c].kind = "settle" /\ at[c] = 4)
  BY <1>1, <1>4, <1>5 DEF PastOutcomes
<1>9. PastResolution(c)' => PastResolution(c) \/ at[c] = ResolutionAt(c)
  BY <1>1, <1>4, <1>5 DEF PastResolution
<1>10. AtPlan'
  <2>1. at'[c] <= Len(Plan(c)) + 1
    BY <1>1, <1>3, <1>5 DEF PlanFacts
  <2> QED  BY <1>4, <2>1 DEF AtPlan
<1>11. Alone'
  <2>1. \A e \in Calls : e # c => /\ ~(PastOutcomes(c)' /\ PastOutcomes(e)')
                                  /\ ~(PastResolution(c)' /\ PastResolution(e)')
    BY <1>2, <1>7, <1>8, <1>9, WriteIsAlone DEF Alone
  <2>2. \A d, e \in Calls : d # e /\ d # c /\ e # c =>
          ~(PastOutcomes(d)' /\ PastOutcomes(e)') /\ ~(PastResolution(d)' /\ PastResolution(e)')
    BY <1>7 DEF Alone
  <2> QED  BY <2>1, <2>2 DEF Alone
<1>12. RequestInv'
  <2>1. ASSUME call[c].kind = "request", at[c] = ResolutionAt(c)
        PROVE  db.resolution = NoResolution
    <3>1. Row(c) = "resolution"
      BY <1>1, <1>3, <2>1 DEF PlanFacts, Row
    <3> QED  BY <1>2, <2>1, <3>1 DEF Duplicate, RequestInv
  <2> QED  BY <1>2, <1>4, <1>7, <1>9, <2>1 DEF RequestInv
<1>13. SettleInv'
  <2>1. call[c].kind = "settle" => at[c] # 3 /\ at[c] # ResolutionAt(c) + 1
    BY <1>1, <1>3 DEF PlanFacts
  <2>2. call[c].kind = "settle" /\ at'[c] > 3 => at[c] > 3
    BY <1>1, <1>5, <2>1
  <2>3. call[c].kind = "settle" /\ at'[c] > ResolutionAt(c) + 1 => at[c] > ResolutionAt(c) + 1
    BY <1>1, <1>5, <2>1
  <2> QED  BY <1>2, <1>4, <2>2, <2>3 DEF SettleInv
<1>14. PositionsInv' /\ OneWinner'
  BY <1>2 DEF PositionsInv, OneWinner
<1> QED  BY <1>6, <1>10, <1>11, <1>12, <1>13, <1>14

\* Whether a finished call holds the rows that its effect depends on.
LEMMA FinishedIsPast ==
    ASSUME TypeOK, AtPlan, NEW c \in Calls, Running(c), Finished(c)
    PROVE  /\ PlanFacts(c)
           /\ call[c].kind # "status" => PastResolution(c)
           /\ call[c].kind = "settle" =>
                PastOutcomes(c) /\ at[c] > 3 /\ at[c] > ResolutionAt(c) + 1
<1>1. call[c] \in Call /\ at[c] \in Nat \ {0} /\ PlanFacts(c)
  BY PlanOfCall DEF TypeOK
<1>2. call[c].kind \in {"request", "dispute", "review", "reconcile", "settle", "status"}
  BY <1>1 DEF Call
<1>3. Len(Plan(c)) \in Nat /\ Len(Plan(c)) >= ResolutionAt(c) /\ at[c] > Len(Plan(c))
  BY <1>1 DEF PlanFacts, Finished
<1>4. call[c].kind # "status" => PastResolution(c)
  BY <1>1, <1>2, <1>3 DEF PastResolution, ResolutionAt
<1>5. ASSUME call[c].kind = "settle"
      PROVE  PastOutcomes(c) /\ at[c] > 3 /\ at[c] > ResolutionAt(c) + 1
  <2>1. Len(Plan(c)) > ResolutionAt(c) /\ ResolutionAt(c) \in {6, 7}
    <3>1. Plan(c) = SettlePlan(call[c].candidate)  BY <1>5 DEF Plan
    <3> QED  BY <1>5, <3>1 DEF SettlePlan, ResolutionAt, Read, Write
  <2> QED  BY <1>1, <1>3, <1>5, <2>1 DEF PastOutcomes
<1> QED  BY <1>1, <1>4, <1>5

LEMMA EffectTyped ==
    ASSUME IInv, NEW c \in Calls, Running(c), Finished(c)
    PROVE  Effect(c) \in Tables
<1> USE ResolutionAssumption DEF IInv
<1>1. call[c] \in Call /\ db \in Tables /\ seen[c].resolution \in ResolutionRow
      /\ seen[c].positions \in Positions
  BY DEF TypeOK
<1>2. call[c].kind \in {"request", "dispute", "review", "reconcile", "settle", "status"}
  BY <1>1 DEF Call
<1> USE DEF Tables, MarketStatuses, PendingStatuses, OpenDispute, ClosedDispute
<1>3. CASE call[c].kind = "request"
  <2>1. [candidate |-> c, status |-> "pending_oracle", winner |-> NoOutcome] \in ResolutionRow
    BY DEF ResolutionRow
  <2> QED  BY <1>1, <1>3, <2>1 DEF Effect, RequestEffect
<1>4. CASE call[c].kind = "dispute"
  <2>1. [db.resolution EXCEPT !.status = "disputed"] \in ResolutionRow
    BY <1>1 DEF ResolutionRow
  <2>2. Effect(c) = DisputeEffect(c)
    BY <1>4 DEF Effect
  <2>3. [db.disputes EXCEPT ![c] = "open"] \in [Calls -> {"none"} \cup OpenDispute \cup ClosedDispute]
    BY <1>1
  <2>4. "disputed" \in MarketStatuses
    OBVIOUS
  <2> HIDE DEF MarketStatuses, OpenDispute, ClosedDispute
  <2> QED  BY <1>1, <2>1, <2>2, <2>3, <2>4 DEF DisputeEffect
<1>5. CASE call[c].kind = "review"
  <2>1. /\ [db.resolution EXCEPT !.status = "disputed"] \in ResolutionRow
        /\ [db.resolution EXCEPT !.status = "pending_oracle"] \in ResolutionRow
    BY <1>1 DEF ResolutionRow
  <2>2. Effect(c) = ReviewEffect(c)
    BY <1>5 DEF Effect
  <2>3. call[c].dispute \in Calls /\ call[c].decision \in Decisions
    BY <1>1, <1>5 DEF Call
  <2>5. {"awaiting_resolution", "disputed"} \subseteq MarketStatuses
    OBVIOUS
  <2>4. [db.disputes EXCEPT ![call[c].dispute] = call[c].decision]
          \in [Calls -> {"none"} \cup OpenDispute \cup ClosedDispute]
    BY <1>1, <2>3 DEF Decisions
  <2> HIDE DEF MarketStatuses, OpenDispute, ClosedDispute
  <2>6. CASE Reinstates(call[c].decision)
    BY <1>1, <2>1, <2>2, <2>4, <2>5, <2>6 DEF ReviewEffect
  <2>7. CASE ~Reinstates(call[c].decision)
    BY <1>1, <2>1, <2>2, <2>4, <2>5, <2>7 DEF ReviewEffect
  <2> QED  BY <2>6, <2>7
<1>6. CASE call[c].kind = "reconcile"
  <2>1. [db.resolution EXCEPT !.status = seen[c].resolution.status] \in ResolutionRow
    BY <1>1 DEF ResolutionRow
  <2> QED  BY <1>1, <1>6, <2>1 DEF Effect, ReconcileEffect
<1>7. CASE call[c].kind = "settle"
  <2>1. call[c].winner \in Outcomes
    BY <1>7, FinishedIsPast DEF SettleInv
  <2>2. Effect(c) = SettleEffect(c)
    BY <1>7 DEF Effect
  <2>3. [db.resolution EXCEPT !.status = "finalized", !.winner = call[c].winner] \in ResolutionRow
    BY <1>1, <2>1 DEF ResolutionRow
  <2>4. OutcomeStatuses(call[c].winner) \in [Outcomes -> {"active", "winning", "losing"}]
    BY DEF OutcomeStatuses
  <2>5. Worthless \in Positions
    BY DEF Worthless, Positions
  <2>6. [h \in Holders |-> db.payout[h] + seen[c].positions[h][call[c].winner]] \in [Holders -> Int]
    BY <1>1, <2>1 DEF Positions
  <2>7. "settled" \in MarketStatuses
    OBVIOUS
  <2> HIDE DEF MarketStatuses, OpenDispute, ClosedDispute
  <2> QED  BY <1>1, <2>2, <2>3, <2>4, <2>5, <2>6, <2>7 DEF SettleEffect
<1>8. CASE call[c].kind = "status"
  <2>1. call[c].status \in MarketStatuses
    BY <1>1, <1>8 DEF Call
  <2> QED  BY <1>1, <1>8, <2>1 DEF Effect, StatusEffect
<1> QED  BY <1>2, <1>3, <1>4, <1>5, <1>6, <1>7, <1>8

\* What each effect does to the parts the properties speak of.
LEMMA EffectFacts ==
    ASSUME IInv, NEW c \in Calls, Running(c), Finished(c)
    PROVE  /\ call[c].kind # "settle" =>
                /\ Effect(c).positions = db.positions /\ Effect(c).payout = db.payout
                /\ Effect(c).outcomes = db.outcomes
           /\ call[c].kind = "settle" =>
                /\ Effect(c).positions = Worthless
                /\ Effect(c).payout =
                     [h \in Holders |-> db.payout[h] + db.positions[h][call[c].winner]]
                /\ Effect(c).outcomes = OutcomeStatuses(call[c].winner)
                /\ Effect(c).resolution.winner = call[c].winner /\ call[c].winner \in Outcomes
           /\ call[c].kind = "status" => Effect(c).resolution = db.resolution
           /\ call[c].kind = "request" =>
                db.resolution = NoResolution /\ Effect(c).resolution.winner = NoOutcome
           /\ call[c].kind # "request" => Effect(c).resolution.candidate = db.resolution.candidate
           /\ call[c].kind \notin {"request", "settle"} =>
                Effect(c).resolution.winner = db.resolution.winner
<1> USE DEF IInv
<1>1. call[c] \in Call /\ db \in Tables
  BY DEF TypeOK
<1>2. call[c].kind \in {"request", "dispute", "review", "reconcile", "settle", "status"}
  BY <1>1 DEF Call
<1> USE DEF Tables, ResolutionRow
<1>3. CASE call[c].kind = "request"
  BY <1>1, <1>3, FinishedIsPast DEF Effect, RequestEffect, RequestInv
<1>4. CASE call[c].kind = "dispute"
  BY <1>1, <1>4 DEF Effect, DisputeEffect
<1>5. CASE call[c].kind = "review"
  BY <1>1, <1>5 DEF Effect, ReviewEffect
<1>6. CASE call[c].kind = "reconcile"
  BY <1>1, <1>6 DEF Effect, ReconcileEffect
<1>7. CASE call[c].kind = "settle"
  <2>1. call[c].winner \in Outcomes /\ seen[c].positions = db.positions
    BY <1>7, FinishedIsPast DEF SettleInv
  <2> QED  BY <1>1, <1>7, <2>1 DEF Effect, SettleEffect
<1>8. CASE call[c].kind = "status"
  BY <1>1, <1>8 DEF Effect, StatusEffect
<1> QED  BY <1>2, <1>3, <1>4, <1>5, <1>6, <1>7, <1>8

LEMMA CommitKeeps ==
    ASSUME IInv, NEW c \in Calls, Commit(c)
    PROVE  IInv'
<1> USE ResolutionAssumption DEF IInv
<1>1. Running(c) /\ Finished(c) /\ db' = Effect(c) /\ End(c, "committed")
  BY DEF Commit
<1>2. call[c].kind # "status" => PastResolution(c)
  BY <1>1, FinishedIsPast
<1>3. call[c].kind = "settle" => PastOutcomes(c)
  BY <1>1, FinishedIsPast
<1>4. \A e \in Calls : Running(e)' => Running(e) /\ e # c /\ seen'[e] = seen[e]
  BY <1>1 DEF TypeOK, End, Running
<1>5. \A e \in Calls : /\ Plan(e)' = Plan(e) /\ ResolutionAt(e)' = ResolutionAt(e)
                       /\ at'[e] = at[e] /\ call'[e] = call[e]
  BY <1>1, SamePlans DEF End
<1>6. \A e \in Calls : /\ PastOutcomes(e)' => PastOutcomes(e)
                       /\ PastResolution(e)' => PastResolution(e)
  BY <1>4, <1>5 DEF PastOutcomes, PastResolution
<1>7. TypeOK'
  <2>1. NothingSeen \in [resolution : ResolutionRow, positions : Positions]
    BY DEF NothingSeen, NoResolution, ResolutionRow, Worthless, Positions
  <2>2. seen' \in [Calls -> [resolution : ResolutionRow, positions : Positions]]
    BY <1>1, <2>1 DEF TypeOK, End
  <2>3. db' \in Tables
    BY <1>1, EffectTyped
  <2> QED  BY <1>1, <2>2, <2>3 DEF TypeOK, End
<1>8. AtPlan' /\ Alone'
  BY <1>5, <1>6 DEF AtPlan, Alone
<1>9. RequestInv'
  <2>1. \A e \in Calls : seen'[e] = seen[e] \/ seen'[e].resolution = NoResolution
    BY <1>1 DEF TypeOK, End, NothingSeen
  <2>2. ASSUME NEW e \in Calls, call[e].kind = "request", PastResolution(e)'
        PROVE  db'.resolution = NoResolution
    <3>1. PastResolution(e) /\ e # c
      BY <1>4, <1>6, <2>2 DEF PastResolution
    <3>2. call[c].kind = "status"
      BY <1>2, <3>1 DEF Alone
    <3>3. Effect(c).resolution = db.resolution
      BY <1>1, <3>2, EffectFacts
    <3> QED  BY <1>1, <2>2, <3>1, <3>3 DEF RequestInv
  <2> QED  BY <1>5, <2>1, <2>2 DEF RequestInv
<1>10. SettleInv'
  <2>1. ASSUME NEW e \in Calls, Running(e)', call[e].kind = "settle", at[e] > ResolutionAt(e) + 1
        PROVE  seen'[e].positions = db'.positions
    <3>1. PastOutcomes(e) /\ e # c
      <4>1. ResolutionAt(e) \in {6, 7} /\ at[e] \in Nat
        BY <2>1 DEF ResolutionAt, TypeOK
      <4> QED  BY <1>4, <2>1, <4>1 DEF PastOutcomes
    <3>2. call[c].kind # "settle"
      BY <1>3, <3>1 DEF Alone
    <3>3. Effect(c).positions = db.positions
      BY <1>1, <3>2, EffectFacts
    <3> QED  BY <1>1, <1>4, <2>1, <3>3 DEF SettleInv
  <2> QED  BY <1>4, <1>5, <2>1 DEF SettleInv
<1>11. PositionsInv'
  BY <1>1, EffectFacts DEF PositionsInv
<1>12. OneWinner'
  <2>1. CASE call[c].kind = "settle"
    <3>1. db'.outcomes = OutcomeStatuses(call[c].winner) /\ db'.resolution.winner = call[c].winner
          /\ call[c].winner \in Outcomes
      BY <1>1, <2>1, EffectFacts
    <3> QED  BY <3>1 DEF OneWinner, OutcomeStatuses
  <2>2. CASE call[c].kind # "settle"
    <3>1. db'.outcomes = db.outcomes
      BY <1>1, <2>2, EffectFacts
    <3>2. db'.resolution.winner = db.resolution.winner
      <4>1. CASE call[c].kind = "request"
        <5>1. db.resolution = NoResolution /\ Effect(c).resolution.winner = NoOutcome
          BY <1>1, <4>1, EffectFacts
        <5> QED  BY <1>1, <5>1 DEF NoResolution
      <4>2. CASE call[c].kind # "request"
        BY <1>1, <2>2, <4>2, EffectFacts
      <4> QED  BY <4>1, <4>2
    <3> QED  BY <3>1, <3>2 DEF OneWinner
  <2> QED  BY <2>1, <2>2
<1> QED  BY <1>7, <1>8, <1>9, <1>10, <1>11, <1>12

LEMMA NextKeeps == ASSUME IInv, [Next]_vars PROVE IInv'
<1>1. CASE Next
  <2>1. PICK c \in Calls : ReadRow(c) \/ Refuse(c) \/ WriteRow(c) \/ RejectDuplicate(c)
                           \/ Commit(c) \/ Abort(c) \/ BreakDeadlock(c)
    BY <1>1 DEF Next
  <2>2. CASE ReadRow(c)  BY <2>2, ReadKeeps
  <2>3. CASE Refuse(c)  BY <2>3, EndKeeps DEF Refuse
  <2>4. CASE WriteRow(c)  BY <2>4, WriteKeeps
  <2>5. CASE RejectDuplicate(c)  BY <2>5, EndKeeps DEF RejectDuplicate
  <2>6. CASE Commit(c)  BY <2>6, CommitKeeps
  <2>7. CASE Abort(c)  BY <2>7, EndKeeps DEF Abort
  <2>8. CASE BreakDeadlock(c)  BY <2>8, EndKeeps DEF BreakDeadlock
  <2> QED  BY <2>1, <2>2, <2>3, <2>4, <2>5, <2>6, <2>7, <2>8
<1>2. CASE UNCHANGED vars
  <2> USE <1>2 DEF vars
  <2>1. \A c \in Calls : /\ Plan(c)' = Plan(c) /\ ResolutionAt(c)' = ResolutionAt(c)
                         /\ PastOutcomes(c)' = PastOutcomes(c)
                         /\ PastResolution(c)' = PastResolution(c)
    BY SamePlans DEF PastOutcomes, PastResolution, Running
  <2>2. TypeOK' /\ PositionsInv' /\ OneWinner'
    BY DEF IInv, TypeOK, PositionsInv, OneWinner
  <2>3. AtPlan' /\ Alone' /\ RequestInv' /\ SettleInv'
    BY <2>1 DEF IInv, AtPlan, Alone, RequestInv, SettleInv, Running
  <2> QED  BY <2>2, <2>3 DEF IInv
<1> QED  BY <1>1, <1>2

-----------------------------------------------------------------------------
(* The theorems *)

\* The inductive invariant holds in every reachable state, whatever the calls
\* of update_market_status, request_settlement, settle_market and the others
\* are and however their statements interleave.
THEOREM ResolutionInv == Spec => []IInv
  BY InitInv, NextKeeps, PTL DEF Spec

\* Rows and locals keep their types, whatever calls run together.
THEOREM ResolutionTyped == Spec => []TypeOK
<1>1. IInv => TypeOK
  BY DEF IInv
<1> QED  BY <1>1, ResolutionInv, PTL

\* Any number of calls of settle_market leaves one winning outcome at most,
\* the one named by the resolution row.
THEOREM WinnerAgrees == Spec => []OneWinner
<1>1. IInv => OneWinner
  BY DEF IInv
<1> QED  BY <1>1, ResolutionInv, PTL

\* No call replaces the resolution row or its candidate once it is posted.
THEOREM ResolutionIsKept == Spec => OneResolution
<1>1. IInv /\ [Next]_vars
        => [db.resolution # NoResolution => db'.resolution.candidate = db.resolution.candidate]_vars
  <2> SUFFICES ASSUME IInv, Next, db.resolution # NoResolution
               PROVE  db'.resolution.candidate = db.resolution.candidate
    OBVIOUS
  <2>1. CASE UNCHANGED db
    BY <2>1
  <2>2. CASE \E c \in Calls : Commit(c)
    <3>1. PICK c \in Calls : Commit(c)
      BY <2>2
    <3> QED  BY <3>1, EffectFacts DEF Commit
  <2> QED
    BY <2>1, <2>2 DEF Next, ReadRow, WriteRow, Refuse, RejectDuplicate, Abort, BreakDeadlock, Advance
<1> QED  BY <1>1, ResolutionInv, PTL DEF Spec, OneResolution

\* However settle_market, disputes, reviews and failures interleave, shares are
\* redeemed together, once, for one winner: Resolution implements Claims.
THEOREM SharesArePaidOnce == Spec => PaidOnceForOneWinner
<1>1. Init => PaidOnce!Init
  BY DEF Init, PaidOnce!Init
<1>2. IInv /\ [Next]_vars => [PaidOnce!Next]_<<db.positions, db.payout>>
  <2> SUFFICES ASSUME IInv, Next
               PROVE  [PaidOnce!Next]_<<db.positions, db.payout>>
    BY DEF vars
  <2>1. CASE UNCHANGED db
    BY <2>1
  <2>2. CASE \E c \in Calls : Commit(c)
    <3>1. PICK c \in Calls : Commit(c)
      BY <2>2
    <3>2. CASE call[c].kind # "settle"
      BY <3>1, <3>2, EffectFacts DEF Commit
    <3>3. CASE call[c].kind = "settle"
      <4> DEFINE w == call[c].winner
      <4>1. /\ w \in Outcomes /\ db'.positions = Worthless
            /\ db'.payout = [h \in Holders |-> db.payout[h] + db.positions[h][w]]
        BY <3>1, <3>3, EffectFacts DEF Commit
      <4>2. CASE db.positions = Shares
        <5>1. PaidOnce!Redeem(w)
          BY <4>1, <4>2 DEF PaidOnce!Redeem, PaidOnce!Worthless, Worthless
        <5> QED  BY <4>1, <5>1 DEF PaidOnce!Next
      <4>3. CASE db.positions = Worthless
        <5>1. db.payout \in [Holders -> Int]
          BY DEF IInv, TypeOK, Tables
        <5>2. db'.payout = db.payout
          BY <4>1, <4>3, <5>1 DEF Worthless
        <5> QED  BY <4>1, <4>3, <5>2
      <4> QED  BY <4>2, <4>3 DEF IInv, PositionsInv
    <3> QED  BY <3>2, <3>3
  <2> QED
    BY <2>1, <2>2 DEF Next, ReadRow, WriteRow, Refuse, RejectDuplicate, Abort, BreakDeadlock, Advance
<1> QED  BY <1>1, <1>2, ResolutionInv, PTL DEF Spec, PaidOnceForOneWinner, PaidOnce!Spec
=============================================================================
