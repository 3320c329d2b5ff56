--------------------------- MODULE AutomationInvariant ---------------------------
(***************************************************************************)
(* The inductive invariant of Automation, on which its proofs rest.         *)
(***************************************************************************)
EXTENDS Automation

CyclePhases == {"create", "source", "insert", "open", "opening", "due", "requesting", "price",
                "settle", "settling"}
RunPhases == {"inspect", "record", "derive", "finalize", "finalizing"}

IsOwn(reference, slug) == reference = [symbol |-> slug.symbol, interval |-> slug.interval]

\* The winner that the prices of a window give.
IsRight(winner, slug) == winner = "YES" <=> Prices[slug.symbol][EndOf(slug)] > Prices[slug.symbol][slug.start]

\* What the payload of a simulated oracle may say.
Undecided == {"none", "submitted"}

\* A row is created once, and only what was created has a row.
CreatedInv ==
    /\ IsInjective(created)
    /\ \A s \in Slugs : market[s].status # "absent" <=> \E i \in DOMAIN created : created[i] = s

\* Whatever became of a row by late writes, it is pending, disputed or settled
\* only after a request, and its winner is right if its own cycle chose it.
RowFacts(row, s) ==
    /\ row.status = "absent" => row.requester = "none"
    /\ row.requester = "cycle" => EndOf(s) <= now
    /\ row.status \in PendingStatuses \cup {"settled"} => row.requester # "none"
    /\ row.disputes # {} \/ row.settler # "none" => row.requester # "none"
    /\ row.settler = "cycle" /\ IsOwn(row.reference, s) => IsRight(row.winner, s)
    /\ ~Live => row.known \in Undecided /\ row.settler # "run"

MarketInv == \A s \in Slugs : RowFacts(market[s], s)

\* What a request has read or computed, and still holds when it writes.
TaskFacts(t) ==
    /\ t.phase \in CyclePhases => t.job \in Cycles /\ \A s \in t.todo : EndOf(s) <= now
    /\ t.phase \in RunPhases => t.job \in Runs
    /\ t.phase \in {"source", "insert"} => t.offset < t.job.lookahead
    /\ t.phase \in {"open", "opening"} => t.offset - 1 \in 0..(t.job.lookahead - 1)
    /\ t.phase = "opening" => market[Window(t.job, t.at, t.offset - 1)].status # "absent"
    /\ \A s \in t.todo : market[s].status # "absent"
    /\ t.phase \in {"settle", "settling", "finalize", "finalizing"} => t.winner \in Winners
    /\ t.phase \in {"settle", "settling"} =>
           \A s \in t.todo : Foremost(s, t.todo) /\ IsOwn(Reference(t.job), s) => IsRight(t.winner, s)
    /\ t.phase \in {"settling", "finalizing"} =>
           \A s \in t.todo : Foremost(s, t.todo) => market[s].requester # "none"
    /\ ~Live => t.phase \notin {"finalize", "finalizing"} /\ t.seen \in Undecided

TaskInv == \A w \in Workers : TaskFacts(task[w])

CallFacts(c) ==
    /\ market[c.slug].status # "absent"
    /\ c.kind = "status" => c.argument \in Statuses
    /\ c.kind = "settle" => c.argument \in Winners
    /\ c.kind \in {"dispute", "review", "settle"} => market[c.slug].requester # "none"
    /\ ~Live => c.seen \in Undecided

CallInv == \A c \in handling : CallFacts(c)

IInv == TypeOK /\ CreatedInv /\ MarketInv /\ TaskInv /\ CallInv
===============================================================================
