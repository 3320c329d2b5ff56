------------------------------- MODULE Automation ------------------------------
(***************************************************************************)
(* Rolling up/down markets and the automation that settles them: the        *)
(* rolling cycle and the settlement run of the admin API, each an HTTP      *)
(* request that reads the markets once and then acts on them one at a time, *)
(* overlapping with each other, with users, with disputes and with the      *)
(* assertion on the chain.  A call of the market repository checks what it  *)
(* reads without a lock and writes later, whatever has happened since: a    *)
(* check and a write are two steps here, and locks only put them in order.  *)
(***************************************************************************)
EXTENDS Integers, Sequences, FiniteSets, SequencesExt, FiniteSetsExt

CONSTANTS
    Workers,      \* requests that the API serves at once
    Cycles,       \* payloads of the rolling cycle
    Runs,         \* payloads of the settlement run
    NoJob,
    NoSymbol,
    Prices,       \* Prices[symbol][t]: what the exchange's candles show
    Liveness,     \* oracle_liveness_minutes
    PageSize,     \* the default limit of list_markets
    MaxTime,      \* bound: the last instant of any scenario
    Scenarios     \* the oracle's mode, and bounds: the payloads each request may have, the
                  \* end of time, restarts of the API, calls of users, admin and callback

ASSUME AutomationAssumption ==
    /\ Cycles \subseteq [symbol : DOMAIN Prices, interval : Nat \ {0}, lookahead : Nat \ {0},
                         autoOpen : BOOLEAN, request : BOOLEAN, finalize : BOOLEAN]
    /\ Runs \subseteq [reconcile : BOOLEAN, finalize : BOOLEAN,
                       includeDisputed : BOOLEAN, dryRun : BOOLEAN]
    /\ NoJob \notin Cycles \cup Runs
    /\ {Liveness, MaxTime} \subseteq Nat
    /\ Scenarios \subseteq [mode : {"simulated", "live"}, serves : [Workers -> SUBSET (Cycles \cup Runs)],
                            until : 0..MaxTime, crashes : Nat, calls : Nat]
    /\ PageSize \in Nat \ {0}

VARIABLES
    now,          \* minutes
    scenario,
    sourced,      \* whether the rolling settlement source has been inserted
    market,       \* the rows of markets, with their resolution
    created,      \* the slugs in the order their rows were created
    chain,        \* the assertion of each market on the chain
    task,         \* what each request is doing
    crashes,      \* how often the API has stopped
    calls,        \* how many calls others have made
    handling      \* calls of others that passed their checks and have not yet written

vars == <<now, scenario, sourced, market, created, chain, task, crashes, calls, handling>>

-----------------------------------------------------------------------------
(* Windows *)

FloorToInterval(t, interval) == t - (t % interval)

WindowSlug(p, start) == [symbol |-> p.symbol, interval |-> p.interval, start |-> start]

Window(p, t, offset) == WindowSlug(p, FloorToInterval(t, p.interval) + offset * p.interval)

Slugs == UNION {{Window(p, t, k) : t \in 0..MaxTime, k \in 0..(p.lookahead - 1)} : p \in Cycles}

EndOf(slug) == slug.start + slug.interval

\* Mutant: a window is over as soon as it has begun.
Begun(slug, t) == slug.start <= t

Elapsed(slug, t) == EndOf(slug) <= t

-----------------------------------------------------------------------------
(* Rows *)

TradingStatuses == {"pending_liquidity", "open", "trading_paused"}
PendingStatuses == {"awaiting_resolution", "disputed"}
RollingStatuses == {"open", "pending_liquidity"}
Winners == {"YES", "NO"}

\* known is what final_payload says of the assertion.
Assertions == {"none", "submitted", "failed", "asserted", "disputed", "settled_true", "settled_false"}

\* The prices a cycle settles by.
Reference(p) == [symbol |-> p.symbol, interval |-> p.interval]
NoReference == [symbol |-> NoSymbol, interval |-> 0]

Row == [status : {"absent", "settled", "cancelled"} \cup TradingStatuses \cup PendingStatuses,
        due : 0..(MaxTime + Liveness) \cup {EndOf(s) : s \in Slugs},
        requester : {"none", "user", "cycle"},
        known : Assertions,
        disputes : SUBSET Nat,  \* those that are open or under review
        winner : {"none"} \cup Winners,
        settler : {"none", "callback", "run", "cycle"},
        reference : {NoReference} \cup {Reference(p) : p \in Cycles}]

Absent == [status |-> "absent", due |-> 0, requester |-> "none", known |-> "none",
           disputes |-> {}, winner |-> "none", settler |-> "none", reference |-> NoReference]

Idle == [phase |-> "idle", job |-> NoJob, at |-> 0, listed |-> {}, offset |-> 0,
         todo |-> {}, seen |-> "none", winner |-> "none"]

Phases == {"idle", "create", "source", "insert", "open", "opening", "due", "requesting", "price",
           "settle", "settling", "inspect", "record", "derive", "finalize", "finalizing"}

Task == [phase : Phases, job : Cycles \cup Runs \cup {NoJob}, at : 0..MaxTime, listed : SUBSET Slugs,
         offset : Nat, todo : SUBSET Slugs, seen : Assertions, winner : {"none"} \cup Winners]

\* A call of somebody else, with the payload of the resolution as it read it;
\* a dispute has the number of the call that opened it.
Statuses == TradingStatuses \cup {"cancelled"}
Decisions == {"under_review", "dismissed", "upheld", "withdrawn"}

Call == [id : Nat, kind : {"status", "request", "dispute", "review", "reconcile", "settle"}, slug : Slugs,
         argument : {"none"} \cup Statuses \cup Decisions \cup Winners, dispute : Nat, seen : Assertions]

TypeOK ==
    /\ scenario \in Scenarios /\ sourced \in BOOLEAN
    /\ now \in 0..scenario.until /\ crashes \in 0..scenario.crashes /\ calls \in 0..scenario.calls
    /\ market \in [Slugs -> Row]
    /\ created \in Seq(Slugs)
    /\ chain \in [Slugs -> Assertions]
    /\ task \in [Workers -> Task]
    /\ handling \subseteq Call

Init ==
    /\ now = 0
    /\ scenario \in Scenarios
    /\ sourced = FALSE
    /\ market = [s \in Slugs |-> Absent]
    /\ created = <<>>
    /\ chain = [s \in Slugs |-> "none"]
    /\ task = [w \in Workers |-> Idle]
    /\ crashes = 0
    /\ calls = 0
    /\ handling = {}

Live == scenario.mode = "live"

\* list_markets: the newest rows.
Page == {created[i] : i \in {j \in DOMAIN created : j > Len(created) - PageSize}}

\* They come newest first, and a request goes through them in this order.
Foremost(slug, slugs) ==
    \E i \in DOMAIN created : /\ created[i] = slug
                             /\ \A j \in DOMAIN created : j > i => created[j] \notin slugs

Goes(w, next) == task' = [task EXCEPT ![w] = next]
Stops(w) == task' = [task EXCEPT ![w] = Idle]

-----------------------------------------------------------------------------
(* update_market_status, request_settlement and settle_market *)

AllowedNextStatuses(from) ==
    CASE from = "pending_liquidity" -> {"open", "cancelled"}
      [] from = "open" -> {"trading_paused", "cancelled"}
      [] from = "trading_paused" -> {"open", "cancelled"}
      [] OTHER -> {}

MayRequest(slug) == market[slug].status \in TradingStatuses

\* Mutant: nothing keeps a market from a second resolution.
AlwaysUnresolved(slug) == TRUE

\* A market has one resolution: the insert of a second one is refused.
Unresolved(slug) == market[slug].requester = "none"

Requested(slug, requester) ==
    /\ market' = [market EXCEPT ![slug].status = "awaiting_resolution",
                                ![slug].due = now + Liveness,
                                ![slug].requester = requester,
                                ![slug].known = "submitted"]
    /\ chain' = IF Live THEN [chain EXCEPT ![slug] = "submitted"] ELSE chain

\* The status and then the disputes are read; when the last of them is closed
\* the review leaves a pending status, so one moment shows what both reads show.
MaySettle(slug) == market[slug].status \in PendingStatuses /\ market[slug].disputes = {}

\* Who merges the payload read it after the check and writes it back later.
Merged(slug, seen) == {seen, market[slug].known}

Settled(slug, winner, settler, reference, seen) ==
    \E known \in Merged(slug, seen) :
        market' = [market EXCEPT ![slug].status = "settled", ![slug].winner = winner,
                                 ![slug].settler = settler, ![slug].reference = reference,
                                 ![slug].known = known]

-----------------------------------------------------------------------------
(* The rolling cycle *)

\* Mutant: a market that was never opened is not considered.
IsDueOpen(slug, t) == market[slug].status = "open" /\ Elapsed(slug, t)

IsDue(slug, t) == market[slug].status \in RollingStatuses /\ Elapsed(slug, t)

StartCycle(w, p) ==
    /\ task[w].phase = "idle" /\ p \in scenario.serves[w]
    /\ Goes(w, [task[w] EXCEPT !.phase = "create", !.job = p, !.at = now, !.listed = Page,
                            !.todo = {s \in Page : p.request /\ IsDue(s, now)}])
    /\ UNCHANGED <<now, scenario, sourced, market, created, chain, crashes, calls, handling>>

Wanted(w) == Window(task[w].job, task[w].at, task[w].offset)

SkipExisting(w) ==
    /\ task[w].phase = "create" /\ task[w].offset < task[w].job.lookahead
    /\ Wanted(w) \in task[w].listed
    /\ Goes(w, [task[w] EXCEPT !.offset = @ + 1])
    /\ UNCHANGED <<now, scenario, sourced, market, created, chain, crashes, calls, handling>>

ReadSource(w) ==
    /\ task[w].phase = "create" /\ task[w].offset < task[w].job.lookahead
    /\ Wanted(w) \notin task[w].listed
    /\ Goes(w, [task[w] EXCEPT !.phase = IF sourced THEN "insert" ELSE "source"])
    /\ UNCHANGED <<now, scenario, sourced, market, created, chain, crashes, calls, handling>>

\* The code of a settlement source is unique: the second insert ends the request.
CreateSource(w) ==
    /\ task[w].phase = "source"
    /\ sourced' = TRUE
    /\ IF sourced THEN Stops(w) ELSE Goes(w, [task[w] EXCEPT !.phase = "insert"])
    /\ UNCHANGED <<now, scenario, market, created, chain, crashes, calls, handling>>

\* Mutant: nothing keeps two markets from one slug.
NeverTaken(slug) == FALSE

Taken(slug) == market[slug].status # "absent"

\* The slug of a market is unique: the second insert ends the request.
CreateDirectMarket(w) ==
    LET slug == Wanted(w)
    IN /\ task[w].phase = "insert"
       /\ IF Taken(slug)
          THEN Stops(w) /\ UNCHANGED <<market, created>>
          ELSE /\ market' = [market EXCEPT ![slug] = [Absent EXCEPT !.status = "pending_liquidity",
                                                                    !.due = EndOf(slug)]]
               /\ created' = Append(created, slug)
               /\ Goes(w, [task[w] EXCEPT !.phase = IF task[w].job.autoOpen THEN "open" ELSE "create",
                                      !.listed = @ \cup {slug}, !.offset = @ + 1])
       /\ UNCHANGED <<now, scenario, sourced, chain, crashes, calls, handling>>

\* The market that was created last.
Created(w) == Window(task[w].job, task[w].at, task[w].offset - 1)

OpenCreated(w) ==
    /\ task[w].phase = "open"
    /\ IF "open" \in AllowedNextStatuses(market[Created(w)].status)
       THEN Goes(w, [task[w] EXCEPT !.phase = "opening"])
       ELSE Stops(w)
    /\ UNCHANGED <<now, scenario, sourced, market, created, chain, crashes, calls, handling>>

Opened(w) ==
    /\ task[w].phase = "opening"
    /\ market' = [market EXCEPT ![Created(w)].status = "open"]
    /\ Goes(w, [task[w] EXCEPT !.phase = "create"])
    /\ UNCHANGED <<now, scenario, sourced, created, chain, crashes, calls, handling>>

EndCreation(w) ==
    /\ task[w].phase = "create" /\ task[w].offset = task[w].job.lookahead
    /\ IF task[w].todo = {} THEN Stops(w)
       ELSE Goes(w, [task[w] EXCEPT !.phase = "due", !.at = 0, !.listed = {}, !.offset = 0])
    /\ UNCHANGED <<now, scenario, sourced, market, created, chain, crashes, calls, handling>>

Handles(w, phase, slug) == task[w].phase = phase /\ slug \in task[w].todo /\ Foremost(slug, task[w].todo)

\* The loop over the due markets goes on after a market whatever happened to it.
NextDue(w, slug, phase) ==
    IF task[w].todo = {slug} THEN Stops(w)
    ELSE Goes(w, [task[w] EXCEPT !.phase = phase, !.todo = @ \ {slug}, !.seen = "none", !.winner = "none"])

\* Another call on the market has passed its check and still has to write.
Contended(w, slug) ==
    \/ \E v \in Workers \ {w} : /\ task[v].phase \in {"requesting", "settling", "record", "finalizing"}
                              /\ slug \in task[v].todo
    \/ \E c \in handling : c.slug = slug

RequestDue(w, slug) ==
    /\ Handles(w, "due", slug)
    /\ MayRequest(slug)
    /\ Goes(w, [task[w] EXCEPT !.phase = "requesting"])
    /\ UNCHANGED <<now, scenario, sourced, market, created, chain, crashes, calls, handling>>

RequestRecorded(w, slug) ==
    /\ Handles(w, "requesting", slug)
    /\ Unresolved(slug)
    /\ Requested(slug, "cycle")
    /\ IF task[w].job.finalize THEN Goes(w, [task[w] EXCEPT !.phase = "price"]) ELSE NextDue(w, slug, "due")
    /\ UNCHANGED <<now, scenario, sourced, created, crashes, calls, handling>>

\* Refused by the check or by the database, or the oracle cannot be reached:
\* a warning.
RequestFails(w, slug) ==
    /\ \/ Handles(w, "due", slug) /\ ~MayRequest(slug)
       \/ Handles(w, "requesting", slug) /\ (Live \/ ~Unresolved(slug))
    /\ NextDue(w, slug, "due")
    /\ UNCHANGED <<now, scenario, sourced, market, created, chain, crashes, calls, handling>>

\* Mutant: open and close are swapped.
CandleReversed(p, slug) == [open |-> Prices[p.symbol][slug.start + p.interval],
                            close |-> Prices[p.symbol][slug.start]]

\* The candle of the cycle's own symbol and interval that begins with the window.
Candle(p, slug) == [open |-> Prices[p.symbol][slug.start],
                    close |-> Prices[p.symbol][Min({slug.start + p.interval, now})]]

WinnerCode(candle) == IF candle.close > candle.open THEN "YES" ELSE "NO"

ComputeWinner(w, slug) ==
    /\ Handles(w, "price", slug)
    /\ Goes(w, [task[w] EXCEPT !.phase = "settle", !.winner = WinnerCode(Candle(task[w].job, slug))])
    /\ UNCHANGED <<now, scenario, sourced, market, created, chain, crashes, calls, handling>>

\* The candles cannot be fetched: a warning, and the market stays awaiting_resolution.
PriceFails(w, slug) ==
    /\ Handles(w, "price", slug)
    /\ NextDue(w, slug, "due")
    /\ UNCHANGED <<now, scenario, sourced, market, created, chain, crashes, calls, handling>>

SettleDue(w, slug) ==
    /\ Handles(w, "settle", slug)
    /\ IF MaySettle(slug)
       THEN Goes(w, [task[w] EXCEPT !.phase = "settling", !.seen = market[slug].known])
       ELSE NextDue(w, slug, "due")
    /\ UNCHANGED <<now, scenario, sourced, market, created, chain, crashes, calls, handling>>

SettledDue(w, slug) ==
    /\ Handles(w, "settling", slug)
    /\ Settled(slug, task[w].winner, "cycle", Reference(task[w].job), task[w].seen)
    /\ NextDue(w, slug, "due")
    /\ UNCHANGED <<now, scenario, sourced, created, chain, crashes, calls, handling>>

\* Locks taken in a circle with another call: the database ends one of them.
SettlementFails(w, slug) ==
    /\ Handles(w, "settling", slug) /\ Contended(w, slug)
    /\ NextDue(w, slug, "due")
    /\ UNCHANGED <<now, scenario, sourced, market, created, chain, crashes, calls, handling>>

-----------------------------------------------------------------------------
(* The settlement run *)

\* The markets of get_settlement_queue, from the first page of list_markets.
SettlementQueue == {s \in Page : market[s].status \in PendingStatuses}

Processed(p, slug) ==
    /\ market[slug].status = "disputed" => p.includeDisputed
    /\ market[slug].due <= now

StartRun(w, p) ==
    LET todo == {s \in SettlementQueue : Processed(p, s)}
    IN /\ task[w].phase = "idle" /\ p \in scenario.serves[w] /\ todo # {}
       /\ Goes(w, [task[w] EXCEPT !.phase = "inspect", !.job = p, !.todo = todo])
       /\ UNCHANGED <<now, scenario, sourced, market, created, chain, crashes, calls, handling>>

\* What the receipt and getAssertion show; without a transaction, nothing is asked.
OnChain(slug) == IF Live THEN chain[slug] ELSE market[slug].known

ReadAssertion(w, slug) ==
    /\ Handles(w, "inspect", slug)
    /\ IF task[w].job.reconcile /\ ~task[w].job.dryRun
       THEN Goes(w, [task[w] EXCEPT !.phase = "record", !.seen = OnChain(slug)])
       ELSE Goes(w, [task[w] EXCEPT !.phase = "derive"])
    /\ UNCHANGED <<now, scenario, sourced, market, created, chain, crashes, calls, handling>>

\* The chain cannot be reached: a warning, and the next market.
ReconcileFails(w, slug) ==
    /\ Handles(w, "inspect", slug) /\ Live
    /\ task[w].job.reconcile /\ ~task[w].job.dryRun
    /\ NextDue(w, slug, "inspect")
    /\ UNCHANGED <<now, scenario, sourced, market, created, chain, crashes, calls, handling>>

RecordFails(w, slug) ==
    /\ Handles(w, "record", slug) /\ Contended(w, slug)
    /\ NextDue(w, slug, "inspect")
    /\ UNCHANGED <<now, scenario, sourced, market, created, chain, crashes, calls, handling>>

RecordAssertion(w, slug) ==
    /\ Handles(w, "record", slug)
    /\ market' = [market EXCEPT ![slug].known = task[w].seen]
    /\ Goes(w, [task[w] EXCEPT !.phase = "derive"])
    /\ UNCHANGED <<now, scenario, sourced, created, chain, crashes, calls, handling>>

\* Mutant: the state of the assertion stands for the code of the outcome.
DeriveState(known) == IF known = "submitted" THEN "none" ELSE known

\* Mutant: an assertion that is not known to be true is false.
DeriveAnyway(known) == IF known = "settled_true" THEN "YES" ELSE "NO"

\* A payload of getAssertion always holds assertion_resolution, which is
\* false until the assertion is settled.
DeriveOracleWinnerCode(known) ==
    CASE known = "settled_true" -> "YES"
      [] known \in {"asserted", "disputed", "settled_false"} -> "NO"
      [] OTHER -> "none"

DeriveWinner(w, slug) ==
    LET winner == DeriveOracleWinnerCode(market[slug].known)
        p == task[w].job
    IN /\ Handles(w, "derive", slug)
       /\ IF p.finalize /\ ~p.dryRun /\ winner # "none"
          THEN Goes(w, [task[w] EXCEPT !.phase = "finalize", !.winner = winner])
          ELSE NextDue(w, slug, "inspect")
       /\ UNCHANGED <<now, scenario, sourced, market, created, chain, crashes, calls, handling>>

FinalizeDue(w, slug) ==
    /\ Handles(w, "finalize", slug)
    /\ IF MaySettle(slug)
       THEN Goes(w, [task[w] EXCEPT !.phase = "finalizing", !.seen = market[slug].known])
       ELSE NextDue(w, slug, "inspect")
    /\ UNCHANGED <<now, scenario, sourced, market, created, chain, crashes, calls, handling>>

FinalizedDue(w, slug) ==
    /\ Handles(w, "finalizing", slug)
    /\ Settled(slug, task[w].winner, "run", NoReference, task[w].seen)
    /\ NextDue(w, slug, "inspect")
    /\ UNCHANGED <<now, scenario, sourced, created, chain, crashes, calls, handling>>

FinalizeFails(w, slug) ==
    /\ Handles(w, "finalizing", slug) /\ Contended(w, slug)
    /\ NextDue(w, slug, "inspect")
    /\ UNCHANGED <<now, scenario, sourced, market, created, chain, crashes, calls, handling>>

-----------------------------------------------------------------------------
(* Users, the oracle's callback, the chain and the clock *)

\* A call that passes its check.
Checked(kind, slug, argument, dispute, seen) ==
    /\ calls < scenario.calls /\ calls' = calls + 1
    /\ handling' = handling \cup {[id |-> calls + 1, kind |-> kind, slug |-> slug, argument |-> argument,
                                   dispute |-> dispute, seen |-> seen]}
    /\ UNCHANGED <<now, scenario, sourced, market, created, chain, task, crashes>>

UpdateMarketStatus(slug, status) ==
    /\ status \in AllowedNextStatuses(market[slug].status)
    /\ Checked("status", slug, status, 0, "none")

RequestSettlement(slug) == MayRequest(slug) /\ Checked("request", slug, "none", 0, "none")

CreateDispute(slug) ==
    MaySettle(slug) /\ Checked("dispute", slug, "none", calls + 1, market[slug].known)

ReviewDispute(slug, dispute, decision) ==
    dispute \in market[slug].disputes /\ Checked("review", slug, decision, dispute, market[slug].known)

ReconcileOracleResolution(slug) ==
    ~Unresolved(slug) /\ Checked("reconcile", slug, "none", 0, OnChain(slug))

\* The callback names the winner; nobody asks the chain, or whether there is one.
FinalizeOracleSettlement(slug, winner) ==
    MaySettle(slug) /\ Checked("settle", slug, winner, 0, market[slug].known)

Answered(c) ==
    /\ handling' = handling \ {c}
    /\ UNCHANGED <<now, scenario, sourced, created, task, crashes, calls>>

StatusUpdated(c) ==
    /\ c.kind = "status"
    /\ market' = [market EXCEPT ![c.slug].status = c.argument]
    /\ Answered(c) /\ UNCHANGED chain

SettlementRequested(c) ==
    /\ c.kind = "request"
    /\ IF Unresolved(c.slug) THEN Requested(c.slug, "user") ELSE UNCHANGED <<market, chain>>
    /\ Answered(c)

DisputeCreated(c) ==
    /\ c.kind = "dispute"
    /\ \E known \in Merged(c.slug, c.seen) :
          market' = [market EXCEPT ![c.slug].status = "disputed", ![c.slug].known = known,
                                   ![c.slug].disputes = @ \cup {c.dispute}]
    /\ Answered(c) /\ UNCHANGED chain

\* A dispute that another review has closed meanwhile may come under review again.
DisputeReviewed(c) ==
    /\ c.kind = "review"
    /\ \E known \in Merged(c.slug, c.seen) :
          market' = [market EXCEPT
              ![c.slug].status = IF c.argument \in {"dismissed", "withdrawn"} THEN "awaiting_resolution"
                                 ELSE "disputed",
              ![c.slug].disputes = IF c.argument = "under_review" THEN @ \cup {c.dispute}
                                   ELSE @ \ {c.dispute},
              ![c.slug].known = known]
    /\ Answered(c) /\ UNCHANGED chain

AssertionRecorded(c) ==
    /\ c.kind = "reconcile"
    /\ market' = [market EXCEPT ![c.slug].known = c.seen]
    /\ Answered(c) /\ UNCHANGED chain

OracleSettlementFinalized(c) ==
    /\ c.kind = "settle"
    /\ Settled(c.slug, c.argument, "callback", NoReference, c.seen)
    /\ Answered(c) /\ UNCHANGED chain

NextAssertion(state) ==
    CASE state = "submitted" -> {"asserted", "failed"}
      [] state = "asserted" -> {"disputed", "settled_true"}
      [] state = "disputed" -> {"settled_true", "settled_false"}
      [] OTHER -> {}

ChainStep(slug) ==
    /\ \E state \in NextAssertion(chain[slug]) : chain' = [chain EXCEPT ![slug] = state]
    /\ UNCHANGED <<now, scenario, sourced, market, created, task, crashes, calls, handling>>

Tick ==
    /\ now < scenario.until
    /\ now' = now + 1
    /\ UNCHANGED <<scenario, sourced, market, created, chain, task, crashes, calls, handling>>

\* The API stops: what a request had read is gone, what it had committed stays.
Crash(w) ==
    /\ task[w].phase # "idle" /\ crashes < scenario.crashes
    /\ crashes' = crashes + 1
    /\ Stops(w)
    /\ UNCHANGED <<now, scenario, sourced, market, created, chain, calls, handling>>

CycleStep(w) ==
    \/ SkipExisting(w) \/ ReadSource(w) \/ CreateSource(w) \/ CreateDirectMarket(w)
    \/ OpenCreated(w) \/ Opened(w) \/ EndCreation(w)
    \/ \E s \in task[w].todo :
        \/ RequestDue(w, s) \/ RequestRecorded(w, s) \/ RequestFails(w, s)
        \/ ComputeWinner(w, s) \/ PriceFails(w, s)
        \/ SettleDue(w, s) \/ SettledDue(w, s) \/ SettlementFails(w, s)

RunStep(w) ==
    \E s \in task[w].todo :
        \/ ReadAssertion(w, s) \/ ReconcileFails(w, s) \/ RecordAssertion(w, s) \/ RecordFails(w, s)
        \/ DeriveWinner(w, s) \/ FinalizeDue(w, s) \/ FinalizedDue(w, s) \/ FinalizeFails(w, s)

CallStarts(s) ==
    \/ \E status \in Statuses : UpdateMarketStatus(s, status)
    \/ RequestSettlement(s)
    \/ CreateDispute(s) \/ ReconcileOracleResolution(s)
    \/ \E d \in market[s].disputes, decision \in Decisions : ReviewDispute(s, d, decision)
    \/ \E winner \in Winners : FinalizeOracleSettlement(s, winner)

CallEnds(c) ==
    \/ StatusUpdated(c) \/ SettlementRequested(c)
    \/ DisputeCreated(c) \/ DisputeReviewed(c)
    \/ AssertionRecorded(c) \/ OracleSettlementFinalized(c)

Environment ==
    \/ \E s \in Slugs : CallStarts(s) \/ ChainStep(s)
    \/ \E c \in handling : CallEnds(c)
    \/ Tick

Next ==
    \/ \E w \in Workers :
        \/ \E p \in Cycles : StartCycle(w, p)
        \/ CycleStep(w)
        \/ \E p \in Runs : StartRun(w, p)
        \/ RunStep(w)
        \/ Crash(w)
    \/ Environment

\* A request that was accepted is served, the scheduler posts every payload
\* again and again, and the oracle is not out of reach every time; nobody else
\* has to act.
Spec ==
    /\ Init /\ [][Next]_vars
    /\ \A w \in Workers : WF_vars(CycleStep(w)) /\ WF_vars(RunStep(w))
    /\ \A w \in Workers : /\ SF_vars(\E s \in Slugs : RequestRecorded(w, s))
                         /\ \A p \in Cycles : SF_vars(StartCycle(w, p))

-----------------------------------------------------------------------------
(* Properties *)

\* Overlapping cycles that each read the markets before the other wrote leave
\* one market per window, whose row is created once.
OneMarketPerWindow == IsInjective(created)

\* The cycle asks for a settlement only when the window is over, and a market
\* it settled is one for which settlement had been requested.
CycleWaitsForWindow ==
    \A s \in Slugs :
        /\ market[s].requester = "cycle" => EndOf(s) <= now
        /\ market[s].status = "settled" => market[s].requester # "none"

\* A market that a cycle for its own symbol and interval settled went to the
\* side its window's prices took, however late, and beside whom, it settled.
SettledByItsPrices ==
    \A s \in Slugs :
        market[s].settler = "cycle" /\ market[s].reference = [symbol |-> s.symbol, interval |-> s.interval] =>
            (market[s].winner = "YES" <=> Prices[s.symbol][EndOf(s)] > Prices[s.symbol][s.start])

\* While the oracle is simulated no payload ever names an outcome: whatever
\* payloads calls write back, and in whatever order, the settlement run
\* settles nothing; cycles and the callback do.
SimulatedRunSettlesNothing == ~Live => \A s \in Slugs : market[s].settler # "run"

\* Of the cycles that found a market due, however stale the status they read,
\* only the one whose own request was recorded goes on to settle it; so no
\* cycle settles a market that a cycle has settled.
Settling(w, s) == /\ task[w].phase \in {"price", "settle", "settling"}
                  /\ s \in task[w].todo /\ Foremost(s, task[w].todo)

CyclesSettleOnce ==
    \A w \in Workers, s \in Slugs :
        Settling(w, s) => /\ market[s].requester = "cycle" /\ market[s].settler # "cycle"
                          /\ \A v \in Workers \ {w} : ~Settling(v, s)

\* A window that is over does not stay without a request while it trades:
\* whatever requests died or failed, a later cycle records one.  (A market
\* that a late status update reopens after its request may trade for ever.)
ElapsedMarketsRequested ==
    \A s \in Slugs :
        (/\ market[s].status \in RollingStatuses /\ Elapsed(s, now)
         /\ market[s].requester = "none")
            ~> (market[s].requester # "none" \/ market[s].status \notin RollingStatuses)

\* The settlement run finalizes a market only with the outcome of an
\* assertion that has been settled true or false.
FinalizedBySettledAssertion ==
    \A s \in Slugs :
        market[s].settler = "run" =>
            chain[s] = IF market[s].winner = "YES" THEN "settled_true" ELSE "settled_false"
=============================================================================
