SPECIFICATION Spec
CONSTANTS
    c1 = c1
    c2 = c2
    c3 = c3
    c4 = c4
    c5 = c5
    Yes = Yes
    No = No
    Ann = Ann
    Bob = Bob
    NoCall = NoCall
    NoOutcome = NoOutcome
    Calls = {c1, c2, c3, c4, c5}
    Outcomes = {Yes, No}
    Holders = {Ann, Bob}
    Shares <- MCShares
    Orders = {Ann}
    Scenarios <- Late
CHECK_DEADLOCK FALSE
INVARIANTS NoSettlementBesideOpenDispute
