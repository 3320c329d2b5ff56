---------------------------- MODULE AtomicExchange ----------------------------
(***************************************************************************)
(* What trading promises, seen from outside: an order meets its            *)
(* counterparties at one moment, in price and time order and at their      *)
(* prices, takes as much as there is, and money and shares change hands    *)
(* with it.  Nothing is said of requests under way, the queue, the loop    *)
(* over the candidates, transactions, row locks or failures.               *)
(***************************************************************************)
EXTENDS Tally

CONSTANTS Users, OrderIds, Outcomes, Unit, Requests, InitialFunds

VARIABLES request,  \* the payload of each order
          born,     \* when it was sent
          orders,   \* its status and what is left of it
          cash,     \* what each user has
          shares    \* shares[u][x], the shares of outcome x that u holds

vars == <<request, born, orders, cash, shares>>

Buys(o) == request[o].side = "buy"
Owner(o) == request[o].user
Listed(o) == orders[o].status # "absent"
Resting(o) == orders[o].status \in {"open", "partially_filled"}

Init == /\ request \in [OrderIds -> Requests]
        /\ born = [o \in OrderIds |-> 0]
        /\ orders = [o \in OrderIds |-> [status |-> "absent", remaining |-> 0]]
        /\ cash = [u \in Users |-> InitialFunds]
        /\ shares = [u \in Users |-> [x \in Outcomes |-> 0]]

-----------------------------------------------------------------------------
\* An order is sent, later than every order in the book.
Send(o) ==
    /\ ~Listed(o)
    /\ born' = [born EXCEPT ![o] = born'[o]]
    /\ \A p \in OrderIds : Listed(p) => born[p] < born'[o]
    /\ UNCHANGED <<request, orders, cash, shares>>

Valid(o) ==
    /\ request[o].order_type = "limit" /\ request[o].quantity > 0
    /\ request[o].price > 0 /\ request[o].price < Unit

Place(o) ==
    /\ ~Listed(o) /\ Valid(o)
    /\ orders' = [orders EXCEPT ![o] = [status |-> "pending_acceptance",
                                        remaining |-> request[o].quantity]]
    /\ UNCHANGED <<request, born, cash, shares>>

Close(o) ==
    /\ Listed(o)
    /\ \E s \in {"cancelled", "rejected"} : orders' = [orders EXCEPT ![o].status = s]
    /\ UNCHANGED <<request, born, cash, shares>>

Fund(u) ==
    /\ cash' = [cash EXCEPT ![u] = cash'[u]]
    /\ cash'[u] >= cash[u]
    /\ UNCHANGED <<request, born, orders, shares>>

-----------------------------------------------------------------------------
(* Matching *)

\* Resting orders of others, on the other side of the same outcome, whose limit
\* order k meets.
Counterparties(k) ==
    {m \in OrderIds :
        /\ Resting(m) /\ Owner(m) # Owner(k)
        /\ request[m].outcome = request[k].outcome /\ request[m].side # request[k].side
        /\ IF Buys(k) THEN request[m].price <= request[k].price
                      ELSE request[m].price >= request[k].price}

\* m is better for k than n: by its price, then by its age.
Before(k, m, n) ==
    \/ request[m].price = request[n].price /\ born[m] < born[n]
    \/ IF Buys(k) THEN request[m].price < request[n].price
                  ELSE request[m].price > request[n].price

\* How much k may take of each counterparty: in order, and as much as there is.
Takings(k) ==
    {take \in [Counterparties(k) -> 0 .. orders[k].remaining] :
        /\ \A m \in Counterparties(k) : take[m] <= orders[m].remaining
        /\ \A m, n \in Counterparties(k) :
             Before(k, m, n) /\ take[n] > 0 => take[m] = orders[m].remaining
        /\ Tally(take) <= orders[k].remaining
        /\ \/ Tally(take) = orders[k].remaining
           \/ \A m \in Counterparties(k) : take[m] = orders[m].remaining}

\* Order o when q more of it was traded.
Traded(o, q) ==
    LET left == orders[o].remaining - q
    IN  [status    |-> IF left = request[o].quantity THEN "open"
                       ELSE IF left = 0 THEN "filled" ELSE "partially_filled",
         remaining |-> left]

\* What u pays for a share traded between k and m, at the price of m.
Pays(k, m, u) ==
    IF u \notin {Owner(k), Owner(m)} THEN 0
    ELSE IF (u = Owner(k)) <=> Buys(k) THEN request[m].price ELSE Unit - request[m].price

\* The shares a trade of one unit between k and m gives to u.
Wins(bet, k, m, u, x) ==
    IF \/ u = Owner(k) /\ x = bet[k]
       \/ u = Owner(m) /\ x = bet[m] THEN 1 ELSE 0

\* A buyer is given the outcome that was traded, a seller some other one.
Bets == {bet \in [OrderIds -> Outcomes] : \A o \in OrderIds : Buys(o) <=> bet[o] = request[o].outcome}

\* An order takes once, when it is accepted; what is left of it then rests.
Match(k) ==
    /\ orders[k].status = "pending_acceptance"
    /\ \E take \in Takings(k) :
        /\ orders' = [o \in OrderIds |->
                        IF o = k THEN Traded(k, Tally(take))
                        ELSE IF o \in DOMAIN take /\ take[o] > 0 THEN Traded(o, take[o])
                        ELSE orders[o]]
        /\ cash' = [u \in Users |->
                      cash[u] - Tally([m \in DOMAIN take |-> take[m] * Pays(k, m, u)])]
        /\ \E bet \in Bets :
             shares' = [u \in Users |-> [x \in Outcomes |->
                          shares[u][x] + Tally([m \in DOMAIN take |-> take[m] * Wins(bet, k, m, u, x)])]]
    /\ UNCHANGED <<request, born>>

Next ==
    \/ \E o \in OrderIds : Send(o) \/ Place(o) \/ Close(o) \/ Match(o)
    \/ \E u \in Users : Fund(u)

Spec == Init /\ [][Next]_vars
=============================================================================
