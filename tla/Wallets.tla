--------------------------------- MODULE Wallets ---------------------------------
(***************************************************************************)
(* A user's wallets, one of which is primary.  In PostgreSQL a call clears  *)
(* the flags of the wallets that were there when its statement began,       *)
(* waiting for the lock of each, and writes its own wallet in a later       *)
(* statement; in memory a handler awaits nothing, and all wallets are of    *)
(* the one profile.                                                         *)
(***************************************************************************)
EXTENDS Integers, FiniteSets

CONSTANTS Users, Founder, Addresses, Callers, Stores, None

WalletsAssumption ==
    /\ Founder \in Users /\ Addresses # {} /\ None \notin Addresses /\ Stores \subseteq {"postgres", "memory"}
    /\ IsFiniteSet(Callers)

VARIABLES
    store,
    wallets,    \* by address, which is unique
    updating    \* what each request to the API is doing

vars == <<store, wallets, updating>>

NoWallet == [owner |-> None, primary |-> FALSE]

Call == [op : {"none", "write"}, by : Users \cup {None}, address : Addresses \cup {None},
         primary : BOOLEAN, create : BOOLEAN,
         found : SUBSET Addresses,     \* rows that the statement still has to lock
         locked : SUBSET Addresses]

Waiting == [op |-> "none", by |-> None, address |-> None, primary |-> FALSE, create |-> FALSE,
            found |-> {}, locked |-> {}]

TypeOK ==
    /\ store \in Stores
    /\ wallets \in [Addresses -> [owner : Users \cup {None}, primary : BOOLEAN]]
    /\ updating \in [Callers -> Call]

SeededWallet == CHOOSE a \in Addresses : TRUE

Init ==
    /\ store \in Stores
    /\ wallets = [a \in Addresses |-> IF store = "memory" /\ a = SeededWallet
                                      THEN [owner |-> Founder, primary |-> TRUE] ELSE NoWallet]
    /\ updating = [c \in Callers |-> Waiting]

OwnedBy(u) == {a \in Addresses : wallets[a].owner = u}

\* In memory, every wallet is of the one profile.
Profile(u) == IF store = "memory" THEN Founder ELSE u

\* The wallets that a call of this user may touch.
Reach(u) == OwnedBy(Profile(u))

LockedByOthers(c) == UNION {updating[d].locked : d \in Callers \ {c}}

Begins(c, call) ==
    /\ updating[c].op = "none"
    /\ store = "memory" => \A d \in Callers : updating[d].op = "none"
    /\ updating' = [updating EXCEPT ![c] = call]
    /\ UNCHANGED <<store, wallets>>

\* Mutant: the wallets that were primary keep the flag.
ClearsNothing(u, primary) == {}

\* What a new primary wallet clears: the wallets there are when the statement
\* begins, and none that is inserted while it waits.
ClearPrimary(u, primary) == IF primary THEN Reach(u) ELSE {}

CreateWallet(c, u, a, primary) ==
    Begins(c, [Waiting EXCEPT !.op = "write", !.by = Profile(u), !.address = a, !.primary = primary,
                              !.create = TRUE, !.found = ClearPrimary(u, primary)])

UpdateWallet(c, u, a, primary) ==
    Begins(c, [Waiting EXCEPT !.op = "write", !.by = Profile(u), !.address = a, !.primary = primary,
                              !.found = ClearPrimary(u, primary)])

\* A row is locked and updated; the flag shows at the commit.
ClearFound(c, a) ==
    /\ a \in updating[c].found \ LockedByOthers(c)
    /\ updating' = [updating EXCEPT ![c].found = @ \ {a}, ![c].locked = @ \cup {a}]
    /\ UNCHANGED <<store, wallets>>

\* Insert or update, and commit; or roll back, when the address is taken or not the user's.
WriteWallet(c) ==
    LET call == updating[c]
        cleared == [a \in Addresses |-> IF a \in call.locked THEN [wallets[a] EXCEPT !.primary = FALSE] ELSE wallets[a]]
        refused == IF call.create THEN wallets[call.address].owner # None ELSE call.address \notin Reach(call.by)
    IN /\ call.op = "write" /\ call.found = {}
       /\ call.address \notin LockedByOthers(c)
       /\ wallets' = IF refused THEN wallets
                     ELSE [cleared EXCEPT ![call.address] =
                              [owner |-> IF call.create THEN call.by ELSE @.owner, primary |-> call.primary]]
       /\ updating' = [updating EXCEPT ![c] = Waiting]
       /\ UNCHANGED store

\* A call that waits and holds locks may be part of a circle: the database ends it.
RolledBack(c) ==
    LET call == updating[c]
    IN /\ call.op = "write" /\ call.locked # {}
       /\ (IF call.found = {} THEN {call.address} ELSE call.found) \cap LockedByOthers(c) # {}
       /\ updating' = [updating EXCEPT ![c] = Waiting]
       /\ UNCHANGED <<store, wallets>>

\* A row that is gone is neither cleared nor updated, even if its address comes back.
Misses(call, a) ==
    [call EXCEPT !.found = @ \ {a}, !.address = IF @ = a /\ ~call.create THEN None ELSE @]

DeleteWallet(u, a) ==
    /\ a \in Reach(u)
    /\ \A c \in Callers : a \notin updating[c].locked
    /\ store = "memory" => \A c \in Callers : updating[c].op = "none"
    /\ wallets' = [wallets EXCEPT ![a] = NoWallet]
    /\ updating' = [c \in Callers |-> Misses(updating[c], a)]
    /\ UNCHANGED store

Next ==
    \/ \E c \in Callers, u \in Users, a \in Addresses, primary \in BOOLEAN :
           CreateWallet(c, u, a, primary) \/ UpdateWallet(c, u, a, primary)
    \/ \E c \in Callers : WriteWallet(c) \/ RolledBack(c)
    \/ \E c \in Callers, a \in Addresses : ClearFound(c, a)
    \/ \E u \in Users, a \in Addresses : DeleteWallet(u, a)

-----------------------------------------------------------------------------
(* Properties *)

\* A call does not see the wallets that others insert after it began to clear:
\* beside an existing wallet as well as without one, two may end up primary.
\* But no sequence of overlapping calls leaves more primary wallets than there
\* are calls at once, and in memory one.
PrimaryWallets ==
    \A u \in Users :
        Cardinality({a \in Addresses : wallets[a].owner = u /\ wallets[a].primary})
            <= IF store = "memory" THEN 1 ELSE Cardinality(Callers)
=============================================================================
