------------------------------ MODULE Resolution -------------------------------
(***************************************************************************)
(* Resolution of one market whose positions exist: the calls that request   *)
(* settlement, raise and review disputes, reconcile with the oracle, settle *)
(* and change the market's status, running concurrently against PostgreSQL. *)
(*                                                                         *)
(* Each call is one transaction and a plan of statements.  A statement that *)
(* reads sees what is committed then (READ COMMITTED); one that writes      *)
(* locks its row until the transaction ends, so the effect of a transaction *)
(* is installed by its commit.                                              *)
(***************************************************************************)
EXTENDS Integers, Sequences, FiniteSets

CONSTANTS
    Calls,        \* calls of the API; a dispute and a candidate are named by the call that inserts them
    NoCall,
    Outcomes,
    NoOutcome,
    Holders,
    Shares,       \* Shares[h][o]: the positions when trading ends
    Orders,       \* the active orders of the market
    Scenarios     \* the combinations of calls a behaviour may consist of

TradingStatuses == {"pending_liquidity", "open", "trading_paused"}
PendingStatuses == {"awaiting_resolution", "disputed"}
MarketStatuses == TradingStatuses \cup PendingStatuses \cup {"settled", "cancelled"}

OpenDispute == {"open", "under_review"}
ClosedDispute == {"dismissed", "upheld", "withdrawn"}
Decisions == {"under_review"} \cup ClosedDispute

Call ==
    [kind : {"request", "dispute", "reconcile"}]
      \cup [kind : {"review"}, dispute : Calls, decision : Decisions]
      \cup [kind : {"settle"}, winner : Outcomes \cup {NoOutcome}, candidate : Calls \cup {NoCall}]
      \cup [kind : {"status"}, status : MarketStatuses]

ASSUME ResolutionAssumption ==
    /\ NoCall \notin Calls
    /\ NoOutcome \notin Outcomes
    /\ Shares \in [Holders -> [Outcomes -> Int]]
    /\ Scenarios \subseteq [Calls -> Call]

VARIABLES
    call,         \* what each call asks for
    at,           \* the next statement of each call
    status,       \* whether a call is running, and how it ended
    seen,         \* the rows a call has read and still uses
    db            \* the committed tables

vars == <<call, at, status, seen, db>>

-----------------------------------------------------------------------------
(* Tables *)

Worthless == [h \in Holders |-> [o \in Outcomes |-> 0]]
NoResolution == [candidate |-> NoCall, status |-> "none", winner |-> NoOutcome]

ResolutionRow == [candidate : Calls \cup {NoCall},
                  status : {"none", "pending_oracle", "disputed", "finalized"},
                  winner : Outcomes \cup {NoOutcome}]
Positions == [Holders -> [Outcomes -> Int]]

Tables == [market : MarketStatuses,
           resolution : ResolutionRow,
           candidate : {"none", "proposed", "rejected", "confirmed"},
           disputes : [Calls -> {"none"} \cup OpenDispute \cup ClosedDispute],
           outcomes : [Outcomes -> {"active", "winning", "losing"}],
           positions : Positions,
           orders : SUBSET Orders,
           payout : [Holders -> Int]]

NothingSeen == [resolution |-> NoResolution, positions |-> Worthless]

TypeOK ==
    /\ call \in [Calls -> Call]
    /\ at \in [Calls -> Nat \ {0}]
    /\ status \in [Calls -> {"running", "refused", "aborted", "committed"}]
    /\ seen \in [Calls -> [resolution : ResolutionRow, positions : Positions]]
    /\ db \in Tables

-----------------------------------------------------------------------------
(* The statements of each call, in the order of its source *)

Read(row) == <<"read", row>>
Write(row) == <<"write", row>>

RequestPlan == <<Read("market"), Write("resolution"), Write("market")>>

DisputePlan == <<Read("market"), Read("resolution"), Read("disputes"),
                 Write("market"), Write("resolution"), Write("candidate")>>

Reinstates(decision) == decision \in {"dismissed", "withdrawn"}

ReviewPlan(decision) ==
    IF Reinstates(decision)
    THEN <<Read("dispute"), Read("resolution"), Write("dispute"), Write("market"),
           Write("resolution"), Write("candidate")>>
    ELSE <<Read("dispute"), Read("resolution"), Write("dispute"), Write("market"),
           Write("resolution")>>

ReconcilePlan == <<Read("resolution"), Write("candidate"), Write("resolution")>>

StatusPlan == <<Read("market"), Write("market")>>

\* Mutant: the positions are read before any row is locked.
SettlePlanReadingFirst(candidate) ==
    <<Read("market"), Read("disputes"), Read("outcomes"), Read("positions"),
      Write("outcomes"), Read("resolution"), Write("resolution"),
      Write("positions"), Write("orders"), Write("market")>>

SettlePlan(candidate) ==
    IF candidate = NoCall
    THEN <<Read("market"), Read("disputes"), Read("outcomes"),
           Write("outcomes"), Read("resolution"), Write("resolution"),
           Read("positions"), Write("positions"), Write("orders"), Write("market")>>
    ELSE <<Read("market"), Read("disputes"), Read("outcomes"),
           Write("outcomes"), Read("resolution"), Write("candidate"), Write("resolution"),
           Read("positions"), Write("positions"), Write("orders"), Write("market")>>

Plan(c) ==
    CASE call[c].kind = "request" -> RequestPlan
      [] call[c].kind = "dispute" -> DisputePlan
      [] call[c].kind = "review" -> ReviewPlan(call[c].decision)
      [] call[c].kind = "reconcile" -> ReconcilePlan
      [] call[c].kind = "settle" -> SettlePlan(call[c].candidate)
      [] call[c].kind = "status" -> StatusPlan

-----------------------------------------------------------------------------
(* What a call concludes from the rows it reads *)

SomeDisputeOpen == \E d \in Calls : db.disputes[d] \in OpenDispute

AllowedNextStatuses(from) ==
    CASE from = "pending_liquidity" -> {"open", "cancelled"}
      [] from = "open" -> {"trading_paused", "cancelled"}
      [] from = "trading_paused" -> {"open", "cancelled"}
      [] OTHER -> {}

RefusesMarket(c) ==
    CASE call[c].kind = "request" -> db.market \notin TradingStatuses
      [] call[c].kind = "status" -> call[c].status \notin AllowedNextStatuses(db.market)
      [] OTHER -> db.market \notin PendingStatuses

\* A settlement without a resolution row would insert one; the others refuse.
RefusesResolution(c) ==
    call[c].kind \in {"dispute", "reconcile"} /\ db.resolution = NoResolution

RefusesDispute(c) == db.disputes[call[c].dispute] \notin OpenDispute

RefusesOutcome(c) == call[c].winner \notin Outcomes

Refuses(c, row) ==
    CASE row = "market" -> RefusesMarket(c)
      [] row = "resolution" -> RefusesResolution(c)
      [] row = "disputes" -> SomeDisputeOpen
      [] row = "dispute" -> RefusesDispute(c)
      [] row = "outcomes" -> RefusesOutcome(c)
      [] OTHER -> FALSE

\* settle_market looks the row up by candidate when it is given one.
FoundResolution(c) ==
    IF call[c].kind = "settle" /\ call[c].candidate \notin {NoCall, db.resolution.candidate}
    THEN NoResolution
    ELSE db.resolution

Remember(c, row) ==
    CASE row = "resolution" -> [seen[c] EXCEPT !.resolution = FoundResolution(c)]
      [] row = "positions" -> [seen[c] EXCEPT !.positions = db.positions]
      [] OTHER -> seen[c]
-----------------------------------------------------------------------------
(* What a transaction leaves in the tables *)

RequestEffect(c) ==
    [db EXCEPT !.market = "awaiting_resolution",
               !.candidate = "proposed",
               !.resolution = [candidate |-> c, status |-> "pending_oracle", winner |-> NoOutcome]]

DisputeEffect(c) ==
    [db EXCEPT !.market = "disputed",
               !.candidate = "rejected",
               !.resolution.status = "disputed",
               !.disputes[c] = "open"]

ReviewEffect(c) ==
    LET reinstates == Reinstates(call[c].decision)
    IN [db EXCEPT !.disputes[call[c].dispute] = call[c].decision,
                  !.market = IF reinstates THEN "awaiting_resolution" ELSE "disputed",
                  !.candidate = IF reinstates THEN "proposed" ELSE @,
                  !.resolution.status = IF reinstates THEN "pending_oracle" ELSE "disputed"]

\* Mutant: the status of the candidate's row becomes that of the resolution.
ReconcileEffectByCandidate(c) == [db EXCEPT !.resolution.status = db.candidate]

\* The payload is written back as it was read, with what the oracle adds.
ReconcileEffect(c) == [db EXCEPT !.resolution.status = seen[c].resolution.status]

StatusEffect(c) == [db EXCEPT !.market = call[c].status]

\* Mutant: the other outcomes are left as they were.
WinnerStatusOnly(winner) == [db.outcomes EXCEPT ![winner] = "winning"]

\* First every outcome is set to losing, then the winner to winning.
OutcomeStatuses(winner) == [o \in Outcomes |-> IF o = winner THEN "winning" ELSE "losing"]

SettleEffect(c) ==
    LET winner == call[c].winner
    IN [db EXCEPT !.market = "settled",
                  !.outcomes = OutcomeStatuses(winner),
                  !.candidate = IF call[c].candidate = NoCall THEN @ ELSE "confirmed",
                  !.resolution = [@ EXCEPT !.status = "finalized", !.winner = winner],
                  !.positions = Worthless,
                  !.orders = {},
                  !.payout = [h \in Holders |-> @[h] + seen[c].positions[h][winner]]]

Effect(c) ==
    CASE call[c].kind = "request" -> RequestEffect(c)
      [] call[c].kind = "dispute" -> DisputeEffect(c)
      [] call[c].kind = "review" -> ReviewEffect(c)
      [] call[c].kind = "reconcile" -> ReconcileEffect(c)
      [] call[c].kind = "settle" -> SettleEffect(c)
      [] call[c].kind = "status" -> StatusEffect(c)

-----------------------------------------------------------------------------
(* Row locks *)

Running(c) == status[c] = "running"
Finished(c) == at[c] > Len(Plan(c))

\* The next statement of a call: what it does, and to which row.
Does(c, what) == Running(c) /\ ~Finished(c) /\ Plan(c)[at[c]][1] = what
Row(c) == Plan(c)[at[c]][2]

\* The rows a call has updated or inserted.
Written(c) == LET plan == Plan(c)
              IN {plan[i][2] : i \in {j \in 1 .. at[c] - 1 : plan[j][1] = "write"}}

\* Mutant: a call that fails does not leave its session.
HeldAfterFailure(c) == IF status[c] \in {"running", "aborted"} THEN Written(c) ELSE {}

\* They are locked until the session is left, which ends the transaction
\* by commit or rollback.
Held(c) == IF Running(c) THEN Written(c) ELSE {}

\* Only the dispute rows of a market are several.
SameRow(c, e) == Row(c) = "dispute" => call[c].dispute = call[e].dispute

Waits(c, e) == Does(c, "write") /\ e # c /\ Row(c) \in Held(e) /\ SameRow(c, e)
MayWrite(c) == Does(c, "write") /\ \A e \in Calls : ~Waits(c, e)

\* Mutant: only settlements are checked against the index.
DuplicateSettlement(c) ==
    /\ Row(c) = "resolution"
    /\ call[c].kind = "settle"
    /\ seen[c].resolution = NoResolution
    /\ db.resolution # NoResolution

\* market_resolutions.market_id is unique.
Duplicate(c) ==
    /\ Row(c) = "resolution"
    /\ call[c].kind \in {"request", "settle"}
    /\ seen[c].resolution = NoResolution
    /\ db.resolution # NoResolution

-----------------------------------------------------------------------------
(* Steps *)

End(c, how) ==
    /\ status' = [status EXCEPT ![c] = how]
    /\ seen' = [seen EXCEPT ![c] = NothingSeen]
    /\ UNCHANGED <<call, at>>

Advance(c) ==
    /\ at' = [at EXCEPT ![c] = @ + 1]
    /\ UNCHANGED <<call, status, db>>

\* A read from which the call goes on.
ReadRow(c) ==
    /\ Does(c, "read")
    /\ ~Refuses(c, Row(c))
    /\ seen' = [seen EXCEPT ![c] = Remember(c, Row(c))]
    /\ Advance(c)

\* A read after which the call raises NotFoundError or ConflictError.
Refuse(c) ==
    /\ Does(c, "read")
    /\ Refuses(c, Row(c))
    /\ End(c, "refused")
    /\ UNCHANGED db

\* A write, once nobody else holds the row.
WriteRow(c) ==
    /\ MayWrite(c)
    /\ ~Duplicate(c)
    /\ UNCHANGED seen
    /\ Advance(c)

\* An insert that the unique index rejects.
RejectDuplicate(c) ==
    /\ MayWrite(c)
    /\ Duplicate(c)
    /\ End(c, "aborted")
    /\ UNCHANGED db

Commit(c) ==
    /\ Running(c) /\ Finished(c)
    /\ db' = Effect(c)
    /\ End(c, "committed")

\* The client leaves, the oracle or the connection fails: rollback.
Abort(c) ==
    /\ Running(c)
    /\ at[c] > 1
    /\ End(c, "aborted")
    /\ UNCHANGED db

\* PostgreSQL aborts one of the transactions that wait in a circle.
BreakDeadlock(c) ==
    /\ \E circle \in SUBSET {d \in Calls : \E e \in Calls : Waits(d, e)} :
          /\ c \in circle
          /\ \A d \in circle : \E e \in circle : Waits(d, e)
          /\ \A e \in circle : \E d \in circle : Waits(d, e)
    /\ End(c, "aborted")
    /\ UNCHANGED db

Progress(c) == ReadRow(c) \/ Refuse(c) \/ WriteRow(c) \/ RejectDuplicate(c) \/ Commit(c) \/ BreakDeadlock(c)

Init ==
    /\ call \in Scenarios
    /\ at = [c \in Calls |-> 1]
    /\ status = [c \in Calls |-> "running"]
    /\ seen = [c \in Calls |-> NothingSeen]
    /\ \E market \in {"open", "trading_paused"} :
         db = [market |-> market,
               resolution |-> NoResolution,
               candidate |-> "none",
               disputes |-> [c \in Calls |-> "none"],
               outcomes |-> [o \in Outcomes |-> "active"],
               positions |-> Shares,
               orders |-> Orders,
               payout |-> [h \in Holders |-> 0]]

Next == \E c \in Calls :
    \/ ReadRow(c)
    \/ Refuse(c)
    \/ WriteRow(c)
    \/ RejectDuplicate(c)
    \/ Commit(c)
    \/ Abort(c)
    \/ BreakDeadlock(c)

\* A call that has begun is run to its end by the event loop and the database;
\* nobody has to make a call.
Begun(c) == at[c] > 1 /\ Running(c)
Fairness == \A c \in Calls : WF_vars(Begun(c) /\ Progress(c))

Spec == Init /\ [][Next]_vars /\ Fairness

-----------------------------------------------------------------------------
(* Properties *)

\* However many settlements run, at most one outcome is marked as the winner,
\* and it is the one that the resolution row names.
OneWinner ==
    {o \in Outcomes : db.outcomes[o] = "winning"} = {db.resolution.winner} \cap Outcomes

\* A market keeps its first resolution row and candidate, also when an
\* unguarded status update lets settlement be requested again.
OneResolution ==
    [][db.resolution # NoResolution => db'.resolution.candidate = db.resolution.candidate]_vars

\* All shares are redeemed together, once, for one winner, whatever runs
\* beside the settlement and however often the market is settled.
PaidOnce == INSTANCE Claims WITH holdings <- db.positions, payout <- db.payout
PaidOnceForOneWinner == PaidOnce!Spec

\* No call waits for ever for a row: circles of waiting calls are broken and a
\* call that ends leaves no lock behind.
CallsEnd == \A c \in Calls : Begun(c) ~> ~Running(c)

\* "Cannot finalize while an active dispute is still open": no market is
\* settled with a dispute that nobody has decided.
NoSettlementBesideOpenDispute == db.market = "settled" => ~SomeDisputeOpen

\* update_market_status allows no transition out of a settled market, and no
\* other call is meant to make one.
SettledStaysSettled == [][db.market = "settled" => db'.market = "settled"]_vars
=============================================================================
