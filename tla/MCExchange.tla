----------------------------- MODULE MCExchange -----------------------------
(* Instances of Exchange for TLC: who asks for what, by workload. *)
EXTENDS ExchangeInvariant, TLC

CONSTANTS Ann, Bob, Cyd, o1, o2, o3,
          RunWorkloads    \* names of the workloads a run starts from

Order(u, side, x, p, q) ==
    [user |-> u, side |-> side, order_type |-> "limit", outcome |-> x, price |-> p, quantity |-> q]

TwoUsers == {Ann, Bob}
ThreeUsers == {Ann, Bob, Cyd}

Workloads == [
    \* a buyer, a cheaper and a dearer seller: partial fills, price improvement
    partial |-> o1 :> Order(Ann, "buy", 1, 3, 2) @@ o2 :> Order(Bob, "sell", 1, 2, 1)
                @@ o3 :> Order(Bob, "sell", 1, 3, 2),
    \* orders of one user on both sides
    own |-> o1 :> Order(Ann, "buy", 1, 2, 1) @@ o2 :> Order(Ann, "sell", 1, 1, 1)
            @@ o3 :> Order(Bob, "sell", 1, 2, 2),
    \* the other outcome; a buyer whose limit is too low
    outcomes |-> o1 :> Order(Ann, "buy", 2, 1, 1) @@ o2 :> Order(Bob, "sell", 2, 2, 2)
                 @@ o3 :> Order(Ann, "buy", 2, 3, 1),
    \* two makers at one price, and a taker that cannot take both
    queueing |-> o1 :> Order(Ann, "sell", 1, 2, 1) @@ o2 :> Order(Bob, "sell", 1, 2, 1)
                 @@ o3 :> Order(Cyd, "buy", 1, 2, 1),
    \* requests the API refuses beside one it takes
    refused |-> o1 :> Order(Ann, "buy", 1, 4, 1)
                @@ o2 :> [Order(Ann, "buy", 1, 2, 1) EXCEPT !.order_type = "market"]
                @@ o3 :> Order(Ann, "sell", 1, 3, 1),
    \* one user, two orders, money for one of them
    rivals |-> o1 :> Order(Ann, "buy", 1, 3, 1) @@ o2 :> Order(Ann, "buy", 2, 2, 1),
    \* three outcomes: the last one is sold
    third |-> o1 :> Order(Ann, "buy", 3, 2, 1) @@ o2 :> Order(Bob, "sell", 3, 2, 2)
              @@ o3 :> Order(Cyd, "buy", 3, 3, 1)]

MCRequests == UNION {{Workloads[w][o] : o \in DOMAIN Workloads[w]} : w \in RunWorkloads}

MCInit == /\ \E w \in RunWorkloads : request = Workloads[w]
          /\ Init
MCSpec == MCInit /\ [][Next]_vars
MCFairSpec == MCSpec /\ Fairness
=============================================================================
