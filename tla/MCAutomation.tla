------------------------------ MODULE MCAutomation -----------------------------
(***************************************************************************)
(* Two requests, two symbols and windows of one minute for Automation.      *)
(***************************************************************************)
EXTENDS AutomationInvariant

CONSTANTS BTC, ETH

\* The prices rise, rise and fall; those of the other symbol the other way round.
MCPrices == [s \in {BTC, ETH} |-> [t \in 0..6 |-> IF (s = BTC) = (t \in {1, 2, 4, 5}) THEN 2 ELSE 1]]

Payload(s, lookahead, autoOpen, finalize) ==
    [symbol |-> s, interval |-> 1, lookahead |-> lookahead, autoOpen |-> autoOpen,
     request |-> TRUE, finalize |-> finalize]

Own == Payload(BTC, 1, TRUE, TRUE)
Other == Payload(ETH, 1, FALSE, TRUE)
MCCycles == {Own, Other}

Scheduled == [reconcile |-> TRUE, finalize |-> TRUE, includeDisputed |-> FALSE, dryRun |-> FALSE]
Manual == [reconcile |-> FALSE, finalize |-> TRUE, includeDisputed |-> TRUE, dryRun |-> FALSE]
MCRuns == {Scheduled, Manual}

CONSTANTS w1, w2
Serving(a, b) == [w \in {w1, w2} |-> IF w = w1 THEN a ELSE b]

Bounded(m, serves, until, restarts, others) ==
    [mode |-> m, serves |-> serves, until |-> until, crashes |-> restarts, calls |-> others]

\* Two cycles overlap, and one of them dies.
Overlap == Serving({Own}, {Own})
\* Two cycles overlap with a call of somebody else.
Twins == Serving({Other}, {Other})
\* A cycle for another symbol finds the windows of this one.
TwoSymbols == Serving({Own}, {Other})
\* A run overlaps with the cycle that asked for the settlement a minute ago.
LateRun == Serving({Own}, {Scheduled})
\* Cycle and runs in turn, beside two calls of others.
OneWorker == Serving({Own, Scheduled, Manual}, {})

MCScenarios == {Bounded("simulated", Overlap, 1, 1, 0), Bounded("simulated", Twins, 1, 0, 1),
                Bounded("simulated", TwoSymbols, 1, 0, 0), Bounded("live", LateRun, 2, 0, 0),
                Bounded("simulated", OneWorker, 1, 0, 2)}

Uncertain == {Bounded("live", LateRun, 2, 0, 0)}
===============================================================================
