-------------------------- MODULE ExchangeInvariant --------------------------
(***************************************************************************)
(* The inductive invariant behind the safety properties of Exchange.       *)
(*                                                                         *)
(* The properties speak of the committed tables, but the engine builds its *)
(* next version row by row in a transaction, writing the taker's own row   *)
(* last.  Pending is the version it would commit if it stopped now.  Every *)
(* version is Consistent, and EngineInv says how the open transaction may  *)
(* differ from the committed tables.                                       *)
(***************************************************************************)
EXTENDS Exchange

Pending == IF Matching THEN UpdateTaker(tx, eng.taker, eng.matched, eng.remaining) ELSE tx

Inserted(t, o) == t.orders[o].status # "absent"

Consistent(t) ==
    /\ \A i \in DOMAIN t.trades :
         Inserted(t, t.trades[i].taker) /\ Inserted(t, t.trades[i].maker)
    /\ \A o \in OrderIds : OrderAgrees(t, o) /\ WithinReserved(t, o)
    /\ \A x \in Outcomes : Backed(t, x)
    /\ Debits(t.accounts) = Credits(t.accounts)
    /\ \A u \in Users : t.accounts[u].credit = PaidBy(t, u)
    /\ NumOutcomes = 2 =>
         \A u \in Users, x \in Outcomes : t.positions[u][x] = WonBy(t, u, x)

Started == {o \in OrderIds : intake[o] # "idle"}

\* Orders are in the tables once their request has inserted them, only valid
\* ones get there, and created_at tells any two of them apart.
IntakeInv ==
    /\ \A o \in OrderIds :
         /\ intake[o] \in {"idle", "market_read", "balance_read", "checked"} => ~Inserted(db, o)
         /\ intake[o] \in {"inserted", "failed"} => Inserted(db, o)
         /\ intake[o] \in {"market_read", "balance_read", "checked"} => ValidRequest(o)
    /\ \A o \in Started : born[o] < Cardinality(Started)
    /\ \A o, p \in Started : o # p => born[o] # born[p]

\* Whatever names an order names one that exists.
NamesInv ==
    /\ \A o \in cancelling : Inserted(db, o)
    /\ \A i \in DOMAIN queue : Inserted(db, queue[i])
    /\ eng.phase # "idle" => Inserted(db, eng.taker)

NewInTx == Len(db.trades) + 1 .. Len(tx.trades)

\* The open transaction: who is locked, which rows it has touched, what the
\* candidates it is done with look like, and whom it has traded with.
MatchingInv ==
    /\ Active(db, eng.taker)
    /\ eng.locked = Candidates(eng.taker)
    /\ eng.left \subseteq eng.locked
    /\ \A o \in OrderIds : o \notin eng.locked \ eng.left => tx.orders[o] = db.orders[o]
    /\ \A m \in eng.locked : Inserted(tx, m)
    /\ \A m \in eng.locked \ eng.left :
         SameOwner(eng.taker, m) \/ eng.remaining = 0 \/ ~Resting(tx, m)
    /\ Len(db.trades) <= Len(tx.trades)
    /\ \A i \in NewInTx :
         /\ tx.trades[i].taker = eng.taker
         /\ tx.trades[i].maker \in eng.locked
         /\ \A n \in eng.locked :
              /\ n # tx.trades[i].maker
              /\ ~SameOwner(eng.taker, n)
              /\ Resting(tx, n)
              => ~Precedes(n, tx.trades[i].maker)

EngineInv == IF Matching THEN MatchingInv ELSE tx = db

IInv ==
    /\ TypeOK
    /\ Consistent(db) /\ Consistent(Pending)
    /\ IntakeInv
    /\ NamesInv
    /\ EngineInv
    /\ BookUncrossed

-----------------------------------------------------------------------------
(* The open transaction against AtomicExchange: what it has taken so far of *)
(* each counterparty accounts for everything it has changed, so the commit  *)
(* is one Match.                                                            *)

Met == {m \in eng.locked : ~SameOwner(eng.taker, m)}
Taken == [m \in Met |-> db.orders[m].remaining - tx.orders[m].remaining]
Bet == [o \in OrderIds |-> PositionOutcome(o)]

Owed(u) == [m \in Met |-> Taken[m] * AtOnce!Pays(eng.taker, m, u)]
Gains(u, x) == [m \in Met |-> Taken[m] * AtOnce!Wins(Bet, eng.taker, m, u, x)]

\* Whoever is served before one that something was taken of has nothing left.
TakenInOrder ==
    \A m, n \in Met :
        AtOnce!Before(eng.taker, m, n) /\ Taken[n] > 0 => tx.orders[m].remaining = 0

TakenRow(m) ==
    /\ Taken[m] \in Nat
    /\ tx.orders[m].status =
          IF Taken[m] = 0 THEN db.orders[m].status
          ELSE IF tx.orders[m].remaining = 0 THEN "filled" ELSE "partially_filled"

TakingInv ==
    /\ \A m \in eng.locked \ Met : tx.orders[m] = db.orders[m]
    /\ \A m \in Met : TakenRow(m)
    /\ TakenInOrder
    /\ eng.remaining + Tally(Taken) = db.orders[eng.taker].remaining
    /\ \A u \in Users :
         /\ tx.accounts[u].debit = db.accounts[u].debit
         /\ tx.accounts[u].credit = db.accounts[u].credit + Tally(Owed(u))
         /\ \A x \in Outcomes : tx.positions[u][x] = db.positions[u][x] + Tally(Gains(u, x))

AtomicInv == Matching => TakingInv

-----------------------------------------------------------------------------
(* Commands: an order has one, and is not matched before it is processed.   *)

InHand == {queue[i] : i \in DOMAIN queue} \cup (IF eng.phase = "idle" THEN {} ELSE {eng.taker})

CommandsInv ==
    /\ \A i, j \in DOMAIN queue : queue[i] = queue[j] => i = j
    /\ eng.phase # "idle" => \A i \in DOMAIN queue : queue[i] # eng.taker
    /\ \A o \in InHand : intake[o] \in {"failed", "done"}
    /\ \A o \in OrderIds : o \in InHand \/ intake[o] = "inserted" => ~Resting(db, o)

\* If neither API nor engine dies, a pending order is still with its request, in
\* the queue or with the engine, whatever the queue loses (the LPUSH and its
\* failure path against the engine's pop).
NoneForgotten ==
    {"api", "engine"} \cap Faults = {} =>
        \A o \in OrderIds : db.orders[o].status = "pending_acceptance" =>
            o \in InHand \/ intake[o] \in {"inserted", "failed"}
==============================================================================
