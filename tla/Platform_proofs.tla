----------------------------- MODULE Platform_proofs -----------------------------
(***************************************************************************)
(* Proofs of what the parts of the API around the exchange promise, for any *)
(* number of users, calls, rows, transactions and websockets.  The parts    *)
(* share no variable: each has an inductive invariant of its own.           *)
(***************************************************************************)
EXTENDS Platform, FiniteSetTheorems, SequenceTheorems, TLAPS

\* The publication's invariant, for the proposals of either part.
PP == INSTANCE Publication_proofs WITH Users <- Requesters
QQ == INSTANCE Publication_proofs WITH
          Users <- Requesters, Proposals <- Repeated, MaxRequests <- MaxRepeated, Titles <- {}, Keys <- {}

\* An instance of a module brings its own copies of the operators on finite sets.
LEMMA OwnFiniteSets ==
    \A S : /\ (W!IsFiniteSet(S) <=> IsFiniteSet(S)) /\ (C!IsFiniteSet(S) <=> IsFiniteSet(S))
           /\ W!Cardinality(S) = Cardinality(S) /\ C!Cardinality(S) = Cardinality(S)
           /\ O!Cardinality(S) = Cardinality(S)
<1>1. \A S : (W!IsFiniteSet(S) <=> IsFiniteSet(S)) /\ (C!IsFiniteSet(S) <=> IsFiniteSet(S))
  BY DEF W!IsFiniteSet, C!IsFiniteSet, IsFiniteSet
<1>2. \A S : W!Cardinality(S) = Cardinality(S)
  BY DEF W!Cardinality, Cardinality
<1>3. \A S : C!Cardinality(S) = Cardinality(S)
  BY DEF C!Cardinality, Cardinality
<1>4. \A S : O!Cardinality(S) = Cardinality(S)
  BY DEF O!Cardinality, Cardinality
<1> QED
  BY <1>1, <1>2, <1>3, <1>4

-----------------------------------------------------------------------------
(* Wallets: the inductive invariant *)

Primaries(u) == {a \in Addresses : wallets[a].owner = u /\ wallets[a].primary}

\* The calls that will write a primary wallet, and what such a call clears before.
Coming(u) == {c \in Callers : updating[c].op = "write" /\ updating[c].primary /\ updating[c].by = u}

Clears(c) == updating[c].found \cup updating[c].locked

\* Those that began before any of these wallets was there to be found.
Missing(Y, u) == {c \in Coming(u) : Y \cap Clears(c) = {}}

WalletLimit == IF store = "memory" THEN 1 ELSE Cardinality(Callers)

WalletCalls ==
    \A c \in Callers :
        /\ updating[c].op # "none" => /\ updating[c].by \in Users
                                      /\ updating[c].create => updating[c].address \in Addresses
                                      /\ store = "memory" => updating[c].by = Founder
        /\ \A d \in Callers \ {c} : store = "memory" => updating[c].op = "none" \/ updating[d].op = "none"

\* Primary wallets that stand together, and the calls that will clear none of
\* them, are of calls that were all under way when the first was committed.
WalletCount(u) ==
    /\ IsFiniteSet(Primaries(u))
    /\ \A Y \in SUBSET Primaries(u) : Y # {} => Cardinality(Y) + Cardinality(Missing(Y, u)) <= WalletLimit

WalletInv == W!WalletsAssumption /\ W!TypeOK /\ WalletCalls /\ \A u \in Users : WalletCount(u)

-----------------------------------------------------------------------------
(* Wallets: every step keeps it *)

LEMMA WalletSizes ==
    ASSUME W!WalletsAssumption, W!TypeOK
    PROVE  /\ IsFiniteSet(Callers) /\ Cardinality(Callers) \in Nat /\ WalletLimit \in Nat
           /\ \A Y, u : IsFiniteSet(Missing(Y, u)) /\ Cardinality(Missing(Y, u)) \in Nat
<1>1. IsFiniteSet(Callers) /\ Cardinality(Callers) \in Nat
  BY OwnFiniteSets, FS_CardinalityType DEF W!WalletsAssumption
<1>2. ASSUME NEW Y, NEW u
      PROVE  IsFiniteSet(Missing(Y, u)) /\ Cardinality(Missing(Y, u)) \in Nat
  <2>1. Missing(Y, u) \subseteq Callers
    BY DEF Missing, Coming
  <2> QED
    BY <1>1, <2>1, FS_Subset, FS_CardinalityType
<1> QED
  BY <1>1, <1>2 DEF WalletLimit

\* A step that adds no primary wallet of a user, and no call that misses one.
LEMMA WalletCountStays ==
    ASSUME W!WalletsAssumption, W!TypeOK, W!TypeOK', NEW u, WalletCount(u), UNCHANGED store,
           Primaries(u)' \subseteq Primaries(u),
           \A Y \in SUBSET Primaries(u)' : Y # {} => Missing(Y, u)' \subseteq Missing(Y, u)
    PROVE  WalletCount(u)'
<1>1. WalletLimit' = WalletLimit /\ WalletLimit \in Nat
  BY WalletSizes DEF WalletLimit
<1>2. IsFiniteSet(Primaries(u)) /\ IsFiniteSet(Primaries(u)')
  BY FS_Subset DEF WalletCount
<1>3. ASSUME NEW Y \in SUBSET Primaries(u)', Y # {}
      PROVE  Cardinality(Y) + Cardinality(Missing(Y, u)') <= WalletLimit'
  <2>1. Cardinality(Y) + Cardinality(Missing(Y, u)) <= WalletLimit
    BY <1>3 DEF WalletCount
  <2>2. IsFiniteSet(Y) /\ Cardinality(Y) \in Nat
    BY <1>2, FS_Subset, FS_CardinalityType
  <2>3. /\ Cardinality(Missing(Y, u)') <= Cardinality(Missing(Y, u))
        /\ Cardinality(Missing(Y, u)) \in Nat /\ Cardinality(Missing(Y, u)') \in Nat
    BY <1>3, WalletSizes, FS_Subset, FS_CardinalityType
  <2> QED
    BY <1>1, <2>1, <2>2, <2>3
<1> QED
  BY <1>2, <1>3 DEF WalletCount

LEMMA WalletBeginsKeeps ==
    ASSUME WalletInv, NEW c \in Callers, NEW u \in Users, NEW a \in Addresses, NEW primary \in BOOLEAN,
           W!CreateWallet(c, u, a, primary) \/ W!UpdateWallet(c, u, a, primary)
    PROVE  WalletInv'
<1> USE DEF WalletInv
<1> DEFINE by == W!Profile(u)
           found == W!ClearPrimary(u, primary)
           created == [W!Waiting EXCEPT !.op = "write", !.by = by, !.address = a, !.primary = primary,
                                        !.create = TRUE, !.found = found]
           updated == [W!Waiting EXCEPT !.op = "write", !.by = by, !.address = a, !.primary = primary,
                                        !.found = found]
<1>1. by \in Users /\ (store = "memory" => by = Founder)
  BY DEF W!Profile, W!WalletsAssumption
<1>2. found \in SUBSET Addresses /\ (primary => found = W!OwnedBy(by))
  BY DEF W!ClearPrimary, W!Reach, W!OwnedBy
<1>3. W!Begins(c, created) \/ W!Begins(c, updated)
  BY DEF W!CreateWallet, W!UpdateWallet
<1> HIDE DEF by, found
<1>4. /\ created \in W!Call /\ updated \in W!Call
      /\ \A call \in {created, updated} :
             /\ call.op = "write" /\ call.by = by /\ call.address = a /\ call.primary = primary
             /\ call.found = found /\ call.locked = {}
  BY <1>1, <1>2 DEF W!Waiting, W!Call
<1>5. PICK call \in W!Call :
          /\ W!Begins(c, call) /\ call.op = "write" /\ call.by = by /\ call.address = a
          /\ call.primary = primary /\ call.found = found /\ call.locked = {}
  BY <1>3, <1>4
<1>6. /\ updating' = [updating EXCEPT ![c] = call] /\ UNCHANGED <<store, wallets>>
      /\ store = "memory" => \A d \in Callers : updating[d].op = "none"
  BY <1>5 DEF W!Begins
<1>7. updating' \in [Callers -> W!Call] /\ updating'[c] = call /\ \A d \in Callers \ {c} : updating'[d] = updating[d]
  BY <1>6 DEF W!TypeOK
<1>8. W!WalletsAssumption' /\ W!TypeOK'
  BY <1>6, <1>7 DEF W!WalletsAssumption, W!TypeOK
<1>9. WalletCalls'
  BY <1>1, <1>5, <1>6, <1>7 DEF WalletCalls
<1>10. ASSUME NEW v \in Users
       PROVE  WalletCount(v)'
  <2>1. Primaries(v)' = Primaries(v)
    BY <1>6 DEF Primaries
  <2>2. ASSUME NEW Y \in SUBSET Primaries(v), Y # {}
        PROVE  Missing(Y, v)' \subseteq Missing(Y, v)
    <3>1. c \in Coming(v)' => Y \subseteq Clears(c)'
      BY <1>2, <1>5, <1>7 DEF Coming, Clears, Primaries, W!OwnedBy
    <3>2. c \notin Missing(Y, v)'
      BY <2>2, <3>1 DEF Missing
    <3> QED
      BY <1>7, <3>2 DEF Missing, Coming, Clears
  <2> QED
    BY <1>6, <1>8, <2>1, <2>2, WalletCountStays
<1> QED
  BY <1>8, <1>9, <1>10

LEMMA ClearFoundKeeps ==
    ASSUME WalletInv, NEW c \in Callers, NEW a \in Addresses, W!ClearFound(c, a)
    PROVE  WalletInv'
<1> USE DEF WalletInv
<1> DEFINE call == [updating[c] EXCEPT !.found = @ \ {a}, !.locked = @ \cup {a}]
<1>1. updating[c] \in W!Call /\ a \in updating[c].found
  BY DEF W!ClearFound, W!TypeOK
<1>2. updating' = [updating EXCEPT ![c] = call] /\ UNCHANGED <<store, wallets>>
  BY <1>1 DEF W!ClearFound, W!Call, W!TypeOK
<1>3. /\ call \in W!Call /\ call.op = updating[c].op /\ call.by = updating[c].by
      /\ call.address = updating[c].address /\ call.create = updating[c].create /\ call.primary = updating[c].primary
      /\ call.found \cup call.locked = updating[c].found \cup updating[c].locked
  BY <1>1 DEF W!Call
<1> HIDE DEF call
<1>4. updating' \in [Callers -> W!Call] /\ updating'[c] = call /\ \A d \in Callers \ {c} : updating'[d] = updating[d]
  BY <1>2, <1>3 DEF W!TypeOK
<1>5. W!WalletsAssumption' /\ W!TypeOK'
  BY <1>2, <1>4 DEF W!WalletsAssumption, W!TypeOK
<1>6. WalletCalls'
  BY <1>2, <1>3, <1>4 DEF WalletCalls
<1>7. ASSUME NEW v \in Users
      PROVE  WalletCount(v)'
  <2>1. Primaries(v)' = Primaries(v)
    BY <1>2 DEF Primaries
  <2>2. \A Y : Missing(Y, v)' \subseteq Missing(Y, v)
    BY <1>3, <1>4 DEF Missing, Coming, Clears
  <2> QED
    BY <1>2, <1>5, <2>1, <2>2, WalletCountStays
<1> QED
  BY <1>5, <1>6, <1>7

\* A call ends, and adds no primary wallet of a user.
LEMMA WalletEndsKeeps ==
    ASSUME WalletInv, NEW c \in Callers, updating' = [updating EXCEPT ![c] = W!Waiting], UNCHANGED store,
           wallets' \in [Addresses -> [owner : Users \cup {None}, primary : BOOLEAN]]
    PROVE  /\ W!WalletsAssumption' /\ W!TypeOK' /\ WalletCalls'
           /\ \A v \in Users : Primaries(v)' \subseteq Primaries(v) => WalletCount(v)'
<1> USE DEF WalletInv
<1>1. W!Waiting \in W!Call /\ W!Waiting.op = "none"
  BY DEF W!Waiting, W!Call
<1>2. updating' \in [Callers -> W!Call] /\ updating'[c].op = "none" /\ \A d \in Callers \ {c} : updating'[d] = updating[d]
  BY <1>1 DEF W!TypeOK
<1>3. W!WalletsAssumption' /\ W!TypeOK'
  BY <1>2 DEF W!WalletsAssumption, W!TypeOK
<1>4. WalletCalls'
  BY <1>2 DEF WalletCalls
<1>5. \A Y, v : Missing(Y, v)' \subseteq Missing(Y, v)
  BY <1>2 DEF Missing, Coming, Clears
<1> QED
  BY <1>3, <1>4, <1>5, WalletCountStays

\* The call that commits a primary wallet was under way with those that stay
\* primary, and with those that will not clear what it leaves.
LEMMA WalletCommitted ==
    ASSUME WalletInv, NEW c \in Callers, NEW w \in Addresses, NEW u \in Users, UNCHANGED store,
           c \in Coming(u), updating'[c].op = "none", \A d \in Callers \ {c} : updating'[d] = updating[d],
           Primaries(u)' \subseteq (Primaries(u) \ Clears(c)) \cup {w}, W!TypeOK'
    PROVE  WalletCount(u)'
<1> USE DEF WalletInv
<1>1. WalletLimit' = WalletLimit /\ WalletLimit \in Nat
  BY WalletSizes DEF WalletLimit
<1>2. IsFiniteSet(Primaries(u)) /\ IsFiniteSet(Primaries(u)')
  <2>1. IsFiniteSet(Primaries(u) \cup {w})
    BY FS_AddElement DEF WalletCount
  <2> QED
    BY <2>1, FS_Subset DEF WalletCount
<1>3. \A Y : Missing(Y, u)' \subseteq Missing(Y, u) \ {c}
  BY DEF Missing, Coming, Clears
<1>4. ASSUME NEW Y \in SUBSET Primaries(u)', Y # {}
      PROVE  Cardinality(Y) + Cardinality(Missing(Y, u)') <= WalletLimit
  <2>1. IsFiniteSet(Y) /\ Cardinality(Y) \in Nat
    BY <1>2, FS_Subset, FS_CardinalityType
  <2>2. IsFiniteSet(Missing(Y, u)) /\ Cardinality(Missing(Y, u)') \in Nat
    BY <1>3, WalletSizes, FS_Subset, FS_CardinalityType
  <2>3. CASE w \notin Y
    <3>1. Y \subseteq Primaries(u)
      BY <2>3
    <3>2. Cardinality(Y) + Cardinality(Missing(Y, u)) <= WalletLimit
      BY <1>4, <3>1 DEF WalletCount
    <3>3. Cardinality(Missing(Y, u)') <= Cardinality(Missing(Y, u)) /\ Cardinality(Missing(Y, u)) \in Nat
      BY <1>3, <2>2, FS_Subset, FS_CardinalityType
    <3> QED
      BY <1>1, <2>1, <2>2, <3>2, <3>3
  <2>4. CASE w \in Y /\ Y \ {w} # {}
    <3> DEFINE rest == Y \ {w}
    <3>1. rest \subseteq Primaries(u) /\ rest # {} /\ rest \cap Clears(c) = {}
      BY <2>4
    <3>2. Cardinality(rest) + Cardinality(Missing(rest, u)) <= WalletLimit
      BY <3>1 DEF WalletCount
    <3>3. Cardinality(rest) = Cardinality(Y) - 1
      BY <2>1, <2>4, FS_RemoveElement
    <3> HIDE DEF rest
    <3>4. c \in Missing(rest, u)
      BY <3>1 DEF Missing
    <3>5. IsFiniteSet(Missing(rest, u)) /\ Cardinality(Missing(rest, u)) \in Nat
      BY WalletSizes
    <3>6. /\ Cardinality(Missing(rest, u) \ {c}) = Cardinality(Missing(rest, u)) - 1
          /\ IsFiniteSet(Missing(rest, u) \ {c})
      BY <3>4, <3>5, FS_RemoveElement
    <3>7. Missing(Y, u)' \subseteq Missing(rest, u) \ {c}
      <4>1. rest \subseteq Y
        BY DEF rest
      <4>2. Missing(Y, u) \subseteq Missing(rest, u)
        BY <4>1 DEF Missing
      <4> QED
        BY <1>3, <4>2
    <3>8. Cardinality(Missing(Y, u)') <= Cardinality(Missing(rest, u)) - 1
      BY <3>6, <3>7, FS_Subset
    <3> QED
      BY <1>1, <2>1, <2>2, <3>2, <3>3, <3>5, <3>8
  <2>5. CASE Y = {w}
    <3>1. Cardinality(Y) = 1
      BY <2>5, FS_Singleton
    <3>2. CASE store = "memory"
      <4>1. Missing(Y, u)' = {}
        BY <1>3, <3>2 DEF Missing, Coming, WalletCalls
      <4>2. Cardinality(Missing(Y, u)') = 0
        BY <4>1, FS_EmptySet
      <4> QED
        BY <3>1, <3>2, <4>2 DEF WalletLimit
    <3>3. CASE store # "memory"
      <4>1. /\ Cardinality(Callers \ {c}) = Cardinality(Callers) - 1 /\ IsFiniteSet(Callers \ {c})
            /\ Cardinality(Callers) \in Nat
        BY WalletSizes, FS_RemoveElement
      <4>2. Missing(Y, u)' \subseteq Callers \ {c}
        BY <1>3 DEF Missing, Coming
      <4>3. Cardinality(Missing(Y, u)') <= Cardinality(Callers) - 1
        BY <4>1, <4>2, FS_Subset
      <4> QED
        BY <2>2, <3>1, <3>3, <4>1, <4>3 DEF WalletLimit
    <3> QED
      BY <3>2, <3>3
  <2> QED
    BY <1>4, <2>3, <2>4, <2>5
<1> QED
  BY <1>1, <1>2, <1>4 DEF WalletCount

LEMMA WriteWalletKeeps ==
    ASSUME WalletInv, NEW c \in Callers, W!WriteWallet(c)
    PROVE  WalletInv'
<1> USE DEF WalletInv
<1> DEFINE u == updating[c].by
           w == updating[c].address
           refused == IF updating[c].create THEN wallets[w].owner # None ELSE w \notin W!Reach(u)
           cleared == [a \in Addresses |-> IF a \in updating[c].locked THEN [wallets[a] EXCEPT !.primary = FALSE]
                                           ELSE wallets[a]]
           owner == IF updating[c].create THEN u ELSE cleared[w].owner
           row == [owner |-> owner, primary |-> updating[c].primary]
<1>1. /\ updating[c] \in W!Call /\ updating[c].op = "write" /\ updating[c].found = {}
      /\ u \in Users /\ (store = "memory" => u = Founder)
      /\ updating' = [updating EXCEPT ![c] = W!Waiting] /\ UNCHANGED store
      /\ updating[c].create => w \in Addresses
  BY DEF W!WriteWallet, W!TypeOK, WalletCalls
<1>2. W!Reach(u) = W!OwnedBy(u) /\ W!OwnedBy(u) \subseteq Addresses
  BY <1>1 DEF W!Reach, W!Profile, W!OwnedBy
<1> DEFINE Rows == [owner : Users \cup {None}, primary : BOOLEAN]
<1>3. wallets \in [Addresses -> Rows]
  BY DEF W!TypeOK
<1>4. CASE refused
  <2>1. wallets' = wallets
    BY <1>4 DEF W!WriteWallet
  <2>2. \A v \in Users : Primaries(v)' \subseteq Primaries(v)
    BY <2>1 DEF Primaries
  <2> QED
    BY <1>1, <1>3, <2>1, <2>2, WalletEndsKeeps
<1>5. CASE ~refused
  <2>1. w \in Addresses /\ wallets' = [cleared EXCEPT ![w] = row]
    <3>1. w \in Addresses
      BY <1>1, <1>2, <1>5
    <3>2. wallets' = [cleared EXCEPT ![w] = [owner |-> IF updating[c].create THEN updating[c].by ELSE @.owner,
                                             primary |-> updating[c].primary]]
      BY <1>5 DEF W!WriteWallet
    <3> QED
      BY <3>1, <3>2
  <2>2. /\ cleared \in [Addresses -> Rows]
        /\ \A a \in Addresses : /\ cleared[a].owner = wallets[a].owner
                                /\ cleared[a].primary => wallets[a].primary /\ a \notin updating[c].locked
    <3>1. ASSUME NEW a \in Addresses
          PROVE  /\ cleared[a] \in Rows /\ cleared[a].owner = wallets[a].owner
                 /\ cleared[a].primary => wallets[a].primary /\ a \notin updating[c].locked
      <4>1. wallets[a] \in Rows
        BY <1>3
      <4> QED
        BY <4>1
    <3> QED
      BY <3>1
  <2>3. owner = u /\ row \in Rows
    BY <1>1, <1>2, <1>5, <2>1, <2>2 DEF W!OwnedBy, W!Call
  <2>4. /\ wallets' \in [Addresses -> Rows] /\ wallets'[w] = row
        /\ \A a \in Addresses \ {w} : wallets'[a] = cleared[a]
    <3> HIDE DEF cleared, row, Rows
    <3> QED
      BY <2>1, <2>2, <2>3
  <2>5. W!WalletsAssumption' /\ W!TypeOK' /\ WalletCalls'
    BY <1>1, <2>4, WalletEndsKeeps
  <2>6. \A v \in Users : Primaries(v)' \ {w} \subseteq Primaries(v) \ updating[c].locked
    <3> HIDE DEF cleared, row, Rows
    <3> QED
      BY <2>2, <2>4 DEF Primaries
  <2>7. \A v \in Users : w \in Primaries(v)' => v = u /\ updating[c].primary
    BY <2>3, <2>4 DEF Primaries
  <2>8. ASSUME NEW v \in Users
        PROVE  WalletCount(v)'
    <3>1. CASE w \notin Primaries(v)'
      BY <1>1, <2>4, <2>6, <3>1, WalletEndsKeeps
    <3>2. CASE w \in Primaries(v)'
      <4>1. c \in Coming(v) /\ Clears(c) = updating[c].locked
        BY <1>1, <2>7, <3>2 DEF Coming, Clears
      <4>2. Primaries(v)' \subseteq (Primaries(v) \ Clears(c)) \cup {w}
        BY <2>6, <4>1
      <4>3. updating'[c].op = "none" /\ \A d \in Callers \ {c} : updating'[d] = updating[d]
        BY <1>1 DEF W!TypeOK, W!Waiting
      <4> QED
        BY <1>1, <2>1, <2>5, <4>1, <4>2, <4>3, WalletCommitted
    <3> QED
      BY <3>1, <3>2
  <2> QED
    BY <2>5, <2>8
<1> QED
  BY <1>4, <1>5

LEMMA RolledBackKeeps ==
    ASSUME WalletInv, NEW c \in Callers, W!RolledBack(c)
    PROVE  WalletInv'
<1>1. updating' = [updating EXCEPT ![c] = W!Waiting] /\ UNCHANGED <<store, wallets>>
  BY DEF W!RolledBack
<1>2. \A v \in Users : Primaries(v)' \subseteq Primaries(v)
  BY <1>1 DEF Primaries
<1> QED
  BY <1>1, <1>2, WalletEndsKeeps DEF WalletInv, W!TypeOK

LEMMA DeleteWalletKeeps ==
    ASSUME WalletInv, NEW u \in Users, NEW w \in Addresses, W!DeleteWallet(u, w)
    PROVE  WalletInv'
<1> USE DEF WalletInv
<1>1. /\ wallets' = [wallets EXCEPT ![w] = W!NoWallet] /\ store' = store
      /\ updating' = [c \in Callers |-> W!Misses(updating[c], w)]
      /\ \A c \in Callers : w \notin updating[c].locked
  BY DEF W!DeleteWallet
<1>2. wallets'[w] = W!NoWallet /\ \A a \in Addresses \ {w} : wallets'[a] = wallets[a]
  BY <1>1 DEF W!TypeOK
<1>3. ASSUME NEW c \in Callers
      PROVE  /\ updating'[c] \in W!Call
             /\ updating'[c].op = updating[c].op /\ updating'[c].by = updating[c].by
             /\ updating'[c].primary = updating[c].primary /\ updating'[c].create = updating[c].create
             /\ updating'[c].create => updating'[c].address = updating[c].address
             /\ updating'[c].found = updating[c].found \ {w} /\ updating'[c].locked = updating[c].locked
  <2>1. updating[c] \in W!Call /\ updating'[c] = W!Misses(updating[c], w)
    BY <1>1 DEF W!TypeOK
  <2> QED
    BY <2>1 DEF W!Misses, W!Call
<1>4. W!WalletsAssumption' /\ W!TypeOK'
  <2>1. updating' \in [Callers -> W!Call]
    BY <1>1, <1>3
  <2>2. wallets' \in [Addresses -> [owner : Users \cup {None}, primary : BOOLEAN]]
    BY <1>1 DEF W!TypeOK, W!NoWallet
  <2> QED
    BY <1>1, <2>1, <2>2 DEF W!WalletsAssumption, W!TypeOK
<1>5. WalletCalls'
  BY <1>1, <1>3 DEF WalletCalls
<1>6. ASSUME NEW v \in Users
      PROVE  WalletCount(v)'
  <2>1. Primaries(v)' \subseteq Primaries(v) \ {w}
    <3>1. ~W!NoWallet.primary
      BY DEF W!NoWallet
    <3> QED
      BY <1>2, <3>1 DEF Primaries
  <2>2. ASSUME NEW Y \in SUBSET Primaries(v)'
        PROVE  Missing(Y, v)' \subseteq Missing(Y, v)
    <3>1. w \notin Y
      BY <2>1
    <3>2. \A c \in Callers : Y \cap Clears(c)' = Y \cap Clears(c)
      BY <1>3, <3>1 DEF Clears
    <3> QED
      BY <1>3, <3>2 DEF Missing, Coming
  <2> QED
    BY <1>1, <1>4, <2>1, <2>2, WalletCountStays
<1> QED
  BY <1>4, <1>5, <1>6

LEMMA WalletInit ==
    ASSUME W!WalletsAssumption, W!Init
    PROVE  WalletInv
<1>1. W!SeededWallet \in Addresses
  BY DEF W!SeededWallet, W!WalletsAssumption
<1>2. W!TypeOK
  BY <1>1 DEF W!TypeOK, W!Init, W!WalletsAssumption, W!Waiting, W!Call, W!NoWallet
<1>3. \A c \in Callers : updating[c].op = "none"
  BY DEF W!Init, W!Waiting
<1>4. WalletCalls
  BY <1>3 DEF WalletCalls
<1>5. ASSUME NEW u \in Users
      PROVE  WalletCount(u)
  <2>1. IsFiniteSet({}) /\ Cardinality({}) = 0 /\ IsFiniteSet({W!SeededWallet}) /\ Cardinality({W!SeededWallet}) = 1
    BY FS_EmptySet, FS_Singleton
  <2>2. Primaries(u) \subseteq IF store = "memory" THEN {W!SeededWallet} ELSE {}
    BY DEF Primaries, W!Init, W!NoWallet
  <2>3. \A Y : Missing(Y, u) = {}
    BY <1>3 DEF Missing, Coming
  <2>4. IsFiniteSet(Primaries(u))
    BY <2>1, <2>2, FS_Subset
  <2>5. ASSUME NEW Y \in SUBSET Primaries(u), Y # {}
        PROVE  store = "memory" /\ Y = {W!SeededWallet}
    BY <2>2, <2>5
  <2> QED
    BY <2>1, <2>3, <2>4, <2>5 DEF WalletCount, WalletLimit
<1> QED
  BY <1>2, <1>4, <1>5 DEF WalletInv

LEMMA WalletNext ==
    ASSUME WalletInv, W!Next
    PROVE  WalletInv'
BY WalletBeginsKeeps, ClearFoundKeeps, WriteWalletKeeps, RolledBackKeeps, DeleteWalletKeeps DEF W!Next

LEMMA WalletStutter ==
    ASSUME WalletInv, UNCHANGED walletVars
    PROVE  WalletInv'
<1>1. store' = store /\ wallets' = wallets /\ updating' = updating
  BY DEF walletVars
<1>2. (W!WalletsAssumption /\ W!TypeOK)'
  BY <1>1 DEF WalletInv, W!WalletsAssumption, W!TypeOK
<1>3. WalletCalls'
  BY <1>1 DEF WalletInv, WalletCalls
<1>4. ASSUME NEW u \in Users
      PROVE  WalletCount(u)'
  <2>1. /\ Primaries(u)' = Primaries(u) /\ WalletLimit' = WalletLimit
        /\ \A Y : Missing(Y, u)' = Missing(Y, u)
    BY <1>1 DEF Primaries, Missing, Coming, Clears, WalletLimit
  <2>2. WalletCount(u)
    BY DEF WalletInv
  <2> QED
    BY <2>1, <2>2 DEF WalletCount
<1> QED
  BY <1>2, <1>3, <1>4 DEF WalletInv

LEMMA WalletSuffices ==
    ASSUME WalletInv
    PROVE  W!PrimaryWallets
<1> SUFFICES ASSUME NEW u \in Users
             PROVE  Cardinality(Primaries(u)) <= WalletLimit
  BY OwnFiniteSets DEF W!PrimaryWallets, Primaries, WalletLimit
<1>1. /\ IsFiniteSet(Primaries(u)) /\ WalletLimit \in Nat
      /\ Cardinality(Primaries(u)) \in Nat /\ Cardinality(Missing(Primaries(u), u)) \in Nat
  BY WalletSizes, FS_CardinalityType DEF WalletInv, WalletCount
<1>2. CASE Primaries(u) = {}
  BY <1>1, <1>2, FS_EmptySet
<1>3. CASE Primaries(u) # {}
  <2>1. Cardinality(Primaries(u)) + Cardinality(Missing(Primaries(u), u)) <= WalletLimit
    BY <1>3 DEF WalletInv, WalletCount
  <2> QED
    BY <1>1, <2>1
<1> QED
  BY <1>2, <1>3

-----------------------------------------------------------------------------
(* The gateway: the inductive invariant *)

\* The events a websocket subscribed for, by their number.
Due(x, i) == i \in 1..Len(dispatched) /\ i > x.from /\ dispatched[i] = x.market

\* The websocket reads the channel that its market still has in the map; what
\* it got and what waits there are due, in order, and all there is unless it lagged.
Hears(x) ==
    LET ch == channels[x.channel]
        waiting == (x.at + 1)..Len(ch)
    IN x.phase = "listening" =>
           /\ x.market \in Markets /\ x.channel = channelOf[x.market] /\ x.channel \in DOMAIN channels
           /\ x.at <= Len(ch) /\ x.from <= Len(dispatched)
           /\ \A i, j \in DOMAIN x.got : i < j => x.got[i] < x.got[j]
           /\ \A i \in DOMAIN x.got : Due(x, x.got[i])
           /\ \A i \in DOMAIN x.got, j \in waiting : x.got[i] < ch[j]
           /\ \A j \in waiting : Due(x, ch[j])
           /\ ~x.lagged =>
                  \A i : Due(x, i) => (\E j \in DOMAIN x.got : x.got[j] = i) \/ (\E j \in waiting : ch[j] = i)

\* A market has one channel, and a channel one market; it holds events in order.
ChannelsInv ==
    /\ \A m, n \in Markets : channelOf[m] = channelOf[n] /\ channelOf[m] # 0 => m = n
    /\ \A c \in DOMAIN channels :
           /\ \A i \in DOMAIN channels[c] : channels[c][i] <= Len(dispatched)
           /\ \A i, j \in DOMAIN channels[c] : i < j => channels[c][i] < channels[c][j]

GatewayInv ==
    /\ G!GatewayAssumption /\ G!TypeOK /\ ChannelsInv
    /\ \A k \in Clients : Hears(clients[k]) /\ (clients[k].phase = "finding" => clients[k].market \in Markets)

-----------------------------------------------------------------------------
(* The gateway: every step keeps it *)

LEMMA GatewayTypes ==
    ASSUME G!TypeOK
    PROVE  /\ Len(dispatched) \in Nat /\ Len(wire) \in Nat /\ Len(channels) \in Nat
           /\ DOMAIN channels = 1..Len(channels) /\ DOMAIN dispatched = 1..Len(dispatched)
           /\ \A c \in DOMAIN channels : /\ channels[c] \in Seq(1..MaxEvents) /\ Len(channels[c]) \in Nat
                                         /\ DOMAIN channels[c] = 1..Len(channels[c])
           /\ \A k \in Clients : /\ clients[k] \in G!Client
                                 /\ clients[k].at \in Nat /\ clients[k].from \in Nat
                                 /\ clients[k].got \in Seq(1..MaxEvents)
BY DEF G!TypeOK, G!Client

LEMMA AwayFacts ==
    G!Away \in G!Client /\ G!Away.phase = "away" /\ G!Away.got = <<>> /\ ~G!Away.lagged
<1>1. <<>> \in Seq(1..MaxEvents)
  OBVIOUS
<1> QED
  BY <1>1 DEF G!Away, G!Client

\* What one client does leaves the others as they were.
LEMMA ClientKeeps ==
    ASSUME GatewayInv, NEW k \in Clients, NEW x \in G!Client, Hears(x), x.phase = "finding" => x.market \in Markets,
           clients' = [clients EXCEPT ![k] = x],
           UNCHANGED <<running, wire, channelOf, channels, dispatching, dispatched>>
    PROVE  GatewayInv'
<1>1. \A y : Hears(y)' <=> Hears(y)
  BY DEF Hears, Due
<1>2. clients'[k] = x /\ \A l \in Clients \ {k} : clients'[l] = clients[l]
  BY DEF GatewayInv, G!TypeOK
<1>3. G!GatewayAssumption' /\ G!TypeOK' /\ ChannelsInv'
  BY DEF GatewayInv, G!GatewayAssumption, G!TypeOK, ChannelsInv
<1>4. ASSUME NEW l \in Clients
      PROVE  Hears(clients'[l]) /\ (clients'[l].phase = "finding" => clients'[l].market \in Markets)
  BY <1>2 DEF GatewayInv
<1> QED
  BY <1>1, <1>3, <1>4 DEF GatewayInv

\* The map gets a channel for a market that has none, and keeps the others.
LEMMA OrInsertFacts ==
    ASSUME G!GatewayAssumption, G!TypeOK, ChannelsInv, NEW m \in Markets, G!OrInsertChannel(m), UNCHANGED dispatched
    PROVE  /\ channels' \in Seq(Seq(1..MaxEvents)) /\ DOMAIN channels \subseteq DOMAIN channels'
           /\ channelOf' \in [Markets -> 0..Len(channels')] /\ channelOf'[m] \in DOMAIN channels'
           /\ \A c \in DOMAIN channels : channels'[c] = channels[c]
           /\ \A n \in Markets : channelOf[n] # 0 => channelOf'[n] = channelOf[n]
           /\ ChannelsInv'
<1>1. CASE channelOf[m] # 0
  <2>1. UNCHANGED <<channels, channelOf>>
    BY <1>1 DEF G!OrInsertChannel
  <2> QED
    BY <1>1, <2>1 DEF G!TypeOK, ChannelsInv
<1>2. CASE channelOf[m] = 0
  <2> DEFINE new == Len(channels) + 1
  <2>1. channels' = Append(channels, <<>>) /\ channelOf' = [channelOf EXCEPT ![m] = new]
    BY <1>2 DEF G!OrInsertChannel
  <2>2. channels \in Seq(Seq(1..MaxEvents)) /\ <<>> \in Seq(1..MaxEvents) /\ channelOf \in [Markets -> 0..Len(channels)]
    BY DEF G!TypeOK
  <2>3. /\ channels' \in Seq(Seq(1..MaxEvents)) /\ Len(channels') = new /\ channels'[new] = <<>>
        /\ \A c \in 1..Len(channels) : channels'[c] = channels[c]
    BY <2>1, <2>2, AppendProperties
  <2>4. DOMAIN channels = 1..Len(channels) /\ DOMAIN channels' = 1..new /\ Len(channels) \in Nat
    BY <2>2, <2>3
  <2>5. /\ channelOf' \in [Markets -> 0..new] /\ channelOf'[m] = new
        /\ \A n \in Markets \ {m} : channelOf'[n] = channelOf[n] /\ channelOf'[n] # new
    BY <2>1, <2>2, <2>4
  <2>6. ChannelsInv'
    <3>1. \A n, o \in Markets : channelOf'[n] = channelOf'[o] /\ channelOf'[n] # 0 => n = o
      BY <2>5 DEF ChannelsInv
    <3>2. \A c \in DOMAIN channels' : c \in DOMAIN channels \/ channels'[c] = <<>>
      BY <2>3, <2>4
    <3> QED
      BY <2>3, <2>4, <3>1, <3>2 DEF ChannelsInv
  <2> QED
    BY <1>2, <2>2, <2>3, <2>4, <2>5, <2>6
<1> QED
  BY <1>1, <1>2

LEMMA HearsStays ==
    ASSUME G!TypeOK, NEW x, Hears(x), UNCHANGED dispatched,
           DOMAIN channels \subseteq DOMAIN channels', \A c \in DOMAIN channels : channels'[c] = channels[c],
           \A n \in Markets : channelOf[n] # 0 => channelOf'[n] = channelOf[n]
    PROVE  Hears(x)'
<1> SUFFICES ASSUME x.phase = "listening"
             PROVE  Hears(x)'
  BY DEF Hears
<1>1. x.market \in Markets /\ x.channel = channelOf[x.market] /\ x.channel \in DOMAIN channels
  BY DEF Hears
<1>2. x.channel # 0
  BY <1>1, GatewayTypes
<1> QED
  BY <1>1, <1>2 DEF Hears, Due

\* A receiver that subscribes now is due nothing yet.
LEMMA NewHears ==
    ASSUME G!TypeOK, NEW m \in Markets, channelOf[m] \in DOMAIN channels, NEW k \in Clients, NEW next,
           next = G!Listening(k, m, channelOf[m], Len(channels[channelOf[m]]))
    PROVE  \E x \in G!Client : x.phase = "listening" /\ Hears(x) /\ next = [clients EXCEPT ![k] = x]
<1> DEFINE ch == channels[channelOf[m]]
           x == [G!Away EXCEPT !.phase = "listening", !.market = m, !.channel = channelOf[m],
                               !.at = Len(ch), !.from = Len(dispatched)]
<1>1. channelOf[m] \in Nat /\ Len(ch) \in Nat /\ Len(dispatched) \in Nat
  BY GatewayTypes
<1>2. /\ x \in G!Client /\ x.phase = "listening" /\ x.market = m /\ x.channel = channelOf[m]
      /\ x.at = Len(ch) /\ x.from = Len(dispatched) /\ x.got = <<>>
  BY <1>1, AwayFacts DEF G!Away, G!Client
<1>3. next = [clients EXCEPT ![k] = x]
  BY DEF G!Listening
<1> HIDE DEF x
<1>4. (x.at + 1)..Len(ch) = {} /\ DOMAIN x.got = {}
  BY <1>1, <1>2
<1>5. \A i : ~Due(x, i)
  BY <1>1, <1>2 DEF Due
<1>6. Hears(x)
  BY <1>1, <1>2, <1>4, <1>5 DEF Hears
<1> QED
  BY <1>2, <1>3, <1>6

LEMMA SubscribeKeeps ==
    ASSUME GatewayInv, NEW k \in Clients, NEW m \in Markets, G!Subscribe(k, m)
    PROVE  GatewayInv'
<1>1. UNCHANGED <<running, wire, channelOf, channels, dispatching, dispatched>>
  BY DEF G!Subscribe
<1>2. CASE channelOf[m] # 0
  <2>1. channelOf[m] \in DOMAIN channels
    BY <1>2, GatewayTypes DEF GatewayInv, G!TypeOK
  <2>2. clients' = G!Listening(k, m, channelOf[m], Len(channels[channelOf[m]]))
    BY <1>2 DEF G!Subscribe
  <2>3. PICK x \in G!Client : x.phase = "listening" /\ Hears(x) /\ clients' = [clients EXCEPT ![k] = x]
    BY <2>1, <2>2, NewHears DEF GatewayInv
  <2> QED
    BY <1>1, <2>3, ClientKeeps
<1>3. CASE channelOf[m] = 0
  <2> DEFINE x == [G!Away EXCEPT !.phase = "finding", !.market = m]
  <2>1. x \in G!Client /\ x.phase = "finding" /\ x.market = m
    BY AwayFacts DEF G!Away, G!Client
  <2>2. clients' = [clients EXCEPT ![k] = x]
    BY <1>3 DEF G!Subscribe
  <2> HIDE DEF x
  <2>3. Hears(x)
    BY <2>1 DEF Hears
  <2> QED
    BY <1>1, <2>1, <2>2, <2>3, ClientKeeps
<1> QED
  BY <1>2, <1>3

LEMMA SubscribeNewKeeps ==
    ASSUME GatewayInv, NEW k \in Clients, G!SubscribeNew(k)
    PROVE  GatewayInv'
<1> USE DEF GatewayInv
<1>1. PICK m \in Markets : m = clients[k].market
  BY DEF G!SubscribeNew
<1>2. /\ G!OrInsertChannel(m) /\ UNCHANGED <<running, wire, dispatching, dispatched>>
      /\ clients' = G!Listening(k, m, channelOf'[m], Len(channels'[channelOf'[m]]))
  BY <1>1 DEF G!SubscribeNew
<1>3. /\ channels' \in Seq(Seq(1..MaxEvents)) /\ DOMAIN channels \subseteq DOMAIN channels'
      /\ channelOf' \in [Markets -> 0..Len(channels')] /\ channelOf'[m] \in DOMAIN channels'
      /\ \A c \in DOMAIN channels : channels'[c] = channels[c]
      /\ \A n \in Markets : channelOf[n] # 0 => channelOf'[n] = channelOf[n]
      /\ ChannelsInv'
  BY <1>2, OrInsertFacts
<1> DEFINE x == [G!Away EXCEPT !.phase = "listening", !.market = m, !.channel = channelOf'[m],
                               !.at = Len(channels'[channelOf'[m]]), !.from = Len(dispatched)]
<1>4. clients' = [clients EXCEPT ![k] = x]
  BY <1>2 DEF G!Listening
<1>5. /\ channelOf'[m] \in Nat /\ Len(channels'[channelOf'[m]]) \in Nat /\ Len(dispatched) \in Nat
  BY <1>3, GatewayTypes
<1>6. /\ x \in G!Client /\ x.phase = "listening" /\ x.market = m /\ x.channel = channelOf'[m]
      /\ x.at = Len(channels'[channelOf'[m]]) /\ x.from = Len(dispatched) /\ x.got = <<>>
  BY <1>5, AwayFacts DEF G!Away, G!Client
<1> HIDE DEF x
<1>7. /\ clients' \in [Clients -> G!Client] /\ clients'[k] = x
      /\ \A l \in Clients \ {k} : clients'[l] = clients[l]
  BY <1>4, <1>6 DEF G!TypeOK
<1>8. G!GatewayAssumption' /\ G!TypeOK'
  BY <1>2, <1>3, <1>7 DEF G!GatewayAssumption, G!TypeOK
<1>9. Hears(clients[k])'
  <2>1. clients[k]' = x
    BY <1>7
  <2>2. (x.at + 1)..Len(channels'[x.channel]) = {} /\ DOMAIN x.got = {}
    BY <1>5, <1>6
  <2>3. \A i : ~(i \in 1..Len(dispatched) /\ i > x.from)
    BY <1>5, <1>6
  <2>4. x.at <= Len(channels'[x.channel]) /\ x.from <= Len(dispatched')
    BY <1>2, <1>5, <1>6
  <2> QED
    BY <1>2, <1>3, <1>6, <2>1, <2>2, <2>3, <2>4 DEF Hears, Due
<1>10. ASSUME NEW l \in Clients \ {k}
       PROVE  Hears(clients[l])' /\ (clients[l].phase = "finding" => clients[l].market \in Markets)'
  <2>1. PICK y : y = clients[l]
    OBVIOUS
  <2>2. clients[l]' = y /\ Hears(y)
    BY <1>7, <2>1
  <2>3. Hears(y)'
    BY <1>2, <1>3, <2>2, HearsStays
  <2> QED
    BY <2>1, <2>2, <2>3
<1> QED
  BY <1>3, <1>6, <1>7, <1>8, <1>9, <1>10

LEMMA PublishKeeps ==
    ASSUME GatewayInv, NEW m \in Markets, G!Publish(m)
    PROVE  GatewayInv'
<1> USE DEF GatewayInv
<1>1. wire' = Append(wire, m) /\ UNCHANGED <<running, channelOf, channels, dispatching, dispatched, clients>>
  BY DEF G!Publish
<1>2. wire' \in Seq(Markets) /\ Len(wire') + Len(dispatched') <= MaxEvents
  BY <1>1, GatewayTypes DEF G!Publish, G!TypeOK, G!GatewayAssumption
<1>3. G!GatewayAssumption' /\ G!TypeOK' /\ ChannelsInv'
  BY <1>1, <1>2 DEF G!GatewayAssumption, G!TypeOK, ChannelsInv
<1>4. \A y : Hears(y)' <=> Hears(y)
  BY <1>1 DEF Hears, Due
<1> QED
  BY <1>1, <1>3, <1>4

\* An event that is sent is due to those that wait for its market, and goes to
\* the end of the channel they read; it is not due to the others, nor sent to theirs.
LEMMA SentHears ==
    ASSUME G!TypeOK, ChannelsInv, NEW m \in Markets, channelOf[m] # 0, G!Send(m), UNCHANGED channelOf,
           NEW x \in G!Client, Hears(x)
    PROVE  Hears(x)'
<1> SUFFICES ASSUME x.phase = "listening"
             PROVE  Hears(x)'
  BY DEF Hears
<1> DEFINE to == channelOf[m]
           new == Len(dispatched) + 1
           ch == channels[x.channel]
<1>1. /\ x.market \in Markets /\ x.channel = channelOf[x.market] /\ x.channel \in DOMAIN channels
      /\ x.at <= Len(ch) /\ x.from <= Len(dispatched) /\ x.at \in Nat /\ x.from \in Nat
  BY DEF Hears, G!Client
<1>2. /\ to \in DOMAIN channels /\ Len(dispatched) \in Nat
      /\ DOMAIN channels = 1..Len(channels)
      /\ \A c \in DOMAIN channels : channels[c] \in Seq(1..MaxEvents) /\ Len(channels[c]) \in Nat
  BY GatewayTypes DEF G!TypeOK
<1>3. /\ dispatched' = Append(dispatched, m) /\ dispatched \in Seq(Markets)
      /\ channels' = [channels EXCEPT ![to] = Append(channels[to], new)]
  BY DEF G!Send, G!TypeOK
<1>4. /\ Len(dispatched') = new /\ dispatched'[new] = m
      /\ \A i \in 1..Len(dispatched) : dispatched'[i] = dispatched[i]
  BY <1>3, AppendProperties
<1>5. \A i : Due(x, i)' <=> Due(x, i) \/ (i = new /\ x.market = m)
  <2>1. 1..Len(dispatched') = 1..Len(dispatched) \cup {new} /\ new \notin 1..Len(dispatched) /\ new > x.from
    BY <1>1, <1>2, <1>4
  <2> QED
    BY <1>4, <2>1 DEF Due
<1>6. CASE x.market # m
  <2>1. x.channel # to
    BY <1>1, <1>2, <1>6 DEF ChannelsInv
  <2>2. channels'[x.channel] = ch /\ x.channel \in DOMAIN channels'
    BY <1>1, <1>3, <2>1
  <2>3. \A i : Due(x, i)' <=> Due(x, i)
    BY <1>5, <1>6
  <2>4. x.from <= Len(dispatched')
    BY <1>1, <1>2, <1>4
  <2> QED
    BY <1>1, <2>2, <2>3, <2>4 DEF Hears
<1>7. CASE x.market = m
  <2>1. x.channel = to /\ ch \in Seq(1..MaxEvents) /\ Len(ch) \in Nat
    BY <1>1, <1>2, <1>7
  <2>2. channels'[x.channel] = Append(ch, new) /\ x.channel \in DOMAIN channels'
    BY <1>1, <1>3, <2>1
  <2> DEFINE next == Append(ch, new)
             last == Len(ch) + 1
  <2>3. Len(next) = last /\ next[last] = new /\ \A j \in 1..Len(ch) : next[j] = ch[j]
    BY <2>1
  <2>4. (x.at + 1)..last = ((x.at + 1)..Len(ch)) \cup {last} /\ (x.at + 1)..Len(ch) \subseteq 1..Len(ch)
    BY <1>1, <2>1
  <2>5. channels'[x.channel] = next
    BY <2>2
  <2> HIDE DEF next, last
  <2>6. \A i : Due(x, i)' <=> Due(x, i) \/ i = new
    BY <1>5, <1>7
  <2>7. \A i : Due(x, i) => i < new
    BY <1>2 DEF Due
  <2>8. \A i \in DOMAIN x.got, j \in (x.at + 1)..last : x.got[i] < next[j]
    BY <1>1, <2>3, <2>4, <2>7 DEF Hears
  <2>9. \A i : \A j \in (x.at + 1)..last : next[j] = i => Due(x, i)'
    BY <1>1, <2>3, <2>4, <2>6 DEF Hears
  <2>10. ASSUME ~x.lagged, NEW i, Due(x, i)'
         PROVE  (\E j \in DOMAIN x.got : x.got[j] = i) \/ (\E j \in (x.at + 1)..last : next[j] = i)
    <3>1. CASE i = new
      BY <2>3, <2>4, <3>1
    <3>2. CASE Due(x, i)
      <4>1. (\E j \in DOMAIN x.got : x.got[j] = i) \/ (\E j \in (x.at + 1)..Len(ch) : ch[j] = i)
        BY <2>10, <3>2 DEF Hears
      <4> QED
        BY <2>3, <2>4, <4>1
    <3> QED
      BY <2>6, <2>10, <3>1, <3>2
  <2>11. x.at <= last /\ x.from <= Len(dispatched')
    BY <1>1, <1>2, <1>4, <2>1 DEF last
  <2>12. /\ \A i, j \in DOMAIN x.got : i < j => x.got[i] < x.got[j]
         /\ \A i \in DOMAIN x.got : Due(x, x.got[i])'
    BY <2>6 DEF Hears
  <2> QED
    BY <1>1, <2>2, <2>3, <2>5, <2>8, <2>9, <2>10, <2>11, <2>12 DEF Hears
<1> QED
  BY <1>6, <1>7

LEMMA DispatchKeeps ==
    ASSUME GatewayInv, G!Dispatch
    PROVE  GatewayInv'
<1> USE DEF GatewayInv
<1>1. PICK m \in Markets : m = Head(wire)
  BY HeadTailProperties DEF G!Dispatch, G!TypeOK
<1>2. UNCHANGED <<running, channelOf, clients>> /\ wire # <<>>
  BY DEF G!Dispatch
<1>3. CASE channelOf[m] # 0
  <2> DEFINE to == channelOf[m]
             new == Len(dispatched) + 1
  <2>1. G!Send(m) /\ wire' = Tail(wire) /\ UNCHANGED dispatching
    BY <1>1, <1>3 DEF G!Dispatch
  <2>2. /\ dispatched' = Append(dispatched, m) /\ dispatched \in Seq(Markets)
        /\ channels' = [channels EXCEPT ![to] = Append(channels[to], new)]
    BY <2>1 DEF G!Send, G!TypeOK
  <2>3. /\ Tail(wire) \in Seq(Markets) /\ Len(Tail(wire)) = Len(wire) - 1
        /\ Len(wire) \in Nat /\ Len(dispatched) \in Nat /\ Len(wire) + Len(dispatched) <= MaxEvents
        /\ Len(wire) # 0
    BY <1>2, HeadTailProperties, EmptySeq DEF G!TypeOK
  <2>4. to \in 1..Len(channels) /\ channels \in Seq(Seq(1..MaxEvents)) /\ MaxEvents \in Nat
    BY <1>3, GatewayTypes DEF G!TypeOK, G!GatewayAssumption
  <2>5. /\ dispatched' \in Seq(Markets) /\ Len(dispatched') = new
    BY <2>2
  <2>6. new \in 1..MaxEvents /\ Len(Tail(wire)) + new <= MaxEvents
    BY <2>3, <2>4
  <2>7. /\ channels[to] \in Seq(1..MaxEvents)
        /\ Append(channels[to], new) \in Seq(1..MaxEvents)
        /\ Len(Append(channels[to], new)) = Len(channels[to]) + 1
        /\ Append(channels[to], new)[Len(channels[to]) + 1] = new
        /\ \A i \in 1..Len(channels[to]) : Append(channels[to], new)[i] = channels[to][i]
    <3>1. channels[to] \in Seq(1..MaxEvents)
      BY <2>4, ElementOfSeq
    <3> HIDE DEF to, new
    <3> QED
      BY <2>6, <3>1, AppendProperties
  <2> DEFINE next == Append(channels[to], new)
  <2>8. /\ channels' \in Seq(Seq(1..MaxEvents)) /\ Len(channels') = Len(channels)
        /\ channels'[to] = next /\ \A c \in 1..Len(channels) \ {to} : channels'[c] = channels[c]
    BY <2>2, <2>4, <2>7, ExceptSeq
  <2>9. G!GatewayAssumption' /\ G!TypeOK'
    BY <1>2, <2>1, <2>3, <2>5, <2>6, <2>8 DEF G!TypeOK, G!GatewayAssumption
  <2>10. ChannelsInv'
    <3>1. \A n, o \in Markets : channelOf'[n] = channelOf'[o] /\ channelOf'[n] # 0 => n = o
      BY <1>2 DEF ChannelsInv
    <3>2. /\ DOMAIN channels = 1..Len(channels) /\ DOMAIN channels' = 1..Len(channels)
          /\ DOMAIN channels[to] = 1..Len(channels[to]) /\ Len(channels[to]) \in Nat
          /\ DOMAIN next = 1..(Len(channels[to]) + 1)
      <4>1. /\ channels[to] \in Seq(1..MaxEvents) /\ next \in Seq(1..MaxEvents)
            /\ Len(next) = Len(channels[to]) + 1
        BY <2>7
      <4> HIDE DEF to, next
      <4>2. DOMAIN channels = 1..Len(channels) /\ DOMAIN channels' = 1..Len(channels)
        BY <2>4, <2>8, LenProperties
      <4>3. DOMAIN channels[to] = 1..Len(channels[to]) /\ Len(channels[to]) \in Nat
        BY <4>1, LenProperties
      <4>4. DOMAIN next = 1..(Len(channels[to]) + 1)
        BY <4>1, LenProperties
      <4> QED
        BY <4>2, <4>3, <4>4
    <3>3. ASSUME NEW c \in 1..Len(channels) \ {to}
          PROVE  /\ \A i \in DOMAIN channels'[c] : channels'[c][i] <= Len(dispatched')
                 /\ \A i, j \in DOMAIN channels'[c] : i < j => channels'[c][i] < channels'[c][j]
      <4>1. channels'[c] = channels[c] /\ channels[c] \in Seq(1..MaxEvents)
        <5>1. c \in 1..Len(channels) /\ channels'[c] = channels[c]
          BY <2>8
        <5> HIDE DEF to, next
        <5> QED
          BY <2>4, <5>1, ElementOfSeq
      <4>2. \A i \in DOMAIN channels[c] : channels[c][i] \in 1..MaxEvents
        BY <4>1, LenProperties, ElementOfSeq
      <4>3. /\ \A i \in DOMAIN channels[c] : channels[c][i] <= Len(dispatched)
            /\ \A i, j \in DOMAIN channels[c] : i < j => channels[c][i] < channels[c][j]
        BY <3>2 DEF ChannelsInv
      <4> QED
        BY <2>3, <2>4, <2>5, <4>1, <4>2, <4>3
    <3>4. /\ \A i \in DOMAIN next : next[i] <= new
          /\ \A i, j \in DOMAIN next : i < j => next[i] < next[j]
      <4>1. \A i \in DOMAIN channels[to] : channels[to][i] \in Nat /\ channels[to][i] <= Len(dispatched)
        <5>1. channels[to] \in Seq(1..MaxEvents) /\ to \in DOMAIN channels
          BY <2>4, <2>7, <3>2
        <5> HIDE DEF to
        <5>2. \A i \in DOMAIN channels[to] : channels[to][i] <= Len(dispatched)
          BY <5>1 DEF ChannelsInv
        <5>3. \A i \in 1..Len(channels[to]) : channels[to][i] \in 1..MaxEvents
          BY <5>1, ElementOfSeq
        <5> QED
          BY <2>4, <3>2, <5>2, <5>3
      <4>2. \A i, j \in DOMAIN channels[to] : i < j => channels[to][i] < channels[to][j]
        BY <2>4, <3>2 DEF ChannelsInv
      <4> HIDE DEF to
      <4>3. \A i \in DOMAIN next : (i \in DOMAIN channels[to] /\ next[i] = channels[to][i])
                                   \/ (i = Len(channels[to]) + 1 /\ next[i] = new)
        BY <2>7, <3>2
      <4> HIDE DEF next
      <4>4. \A i \in DOMAIN next : next[i] <= new
        BY <2>3, <4>1, <4>3
      <4>5. ASSUME NEW i \in DOMAIN next, NEW j \in DOMAIN next, i < j
            PROVE  next[i] < next[j]
        <5>1. i \in DOMAIN channels[to] /\ next[i] = channels[to][i]
          BY <3>2, <4>3, <4>5
        <5> QED
          BY <2>3, <4>1, <4>2, <4>3, <4>5, <5>1
      <4> QED
        BY <4>4, <4>5
    <3> HIDE DEF next, to
    <3> QED
      BY <2>5, <2>8, <3>1, <3>2, <3>3, <3>4 DEF ChannelsInv
  <2>11. ASSUME NEW k \in Clients
         PROVE  Hears(clients[k])' /\ (clients[k].phase = "finding" => clients[k].market \in Markets)'
    <3>1. PICK x \in G!Client : x = clients[k]
      BY GatewayTypes
    <3>2. clients[k]' = x /\ Hears(x)
      BY <1>2, <3>1
    <3>3. Hears(x)'
      BY <1>2, <1>3, <2>1, <3>2, SentHears
    <3> QED
      BY <3>1, <3>2, <3>3
  <2> QED
    BY <2>9, <2>10, <2>11
<1>4. CASE channelOf[m] = 0
  <2>1. dispatching' = m /\ UNCHANGED <<channels, dispatched, wire>>
    BY <1>1, <1>4 DEF G!Dispatch
  <2>2. G!GatewayAssumption' /\ G!TypeOK' /\ ChannelsInv'
    BY <1>2, <2>1 DEF G!GatewayAssumption, G!TypeOK, ChannelsInv
  <2>3. \A y : Hears(y)' <=> Hears(y)
    BY <1>2, <2>1 DEF Hears, Due
  <2> QED
    BY <1>2, <2>2, <2>3
<1> QED
  BY <1>3, <1>4

LEMMA MakeChannelKeeps ==
    ASSUME GatewayInv, G!MakeChannel
    PROVE  GatewayInv'
<1> USE DEF GatewayInv
<1>1. PICK m \in Markets : m = dispatching
  BY DEF G!MakeChannel, G!TypeOK
<1>2. /\ G!OrInsertChannel(m) /\ dispatching' = None /\ UNCHANGED <<running, wire, dispatched, clients>>
  BY <1>1 DEF G!MakeChannel
<1>3. /\ channels' \in Seq(Seq(1..MaxEvents)) /\ DOMAIN channels \subseteq DOMAIN channels'
      /\ channelOf' \in [Markets -> 0..Len(channels')] /\ channelOf'[m] \in DOMAIN channels'
      /\ \A c \in DOMAIN channels : channels'[c] = channels[c]
      /\ \A n \in Markets : channelOf[n] # 0 => channelOf'[n] = channelOf[n]
      /\ ChannelsInv'
  BY <1>2, OrInsertFacts
<1>4. G!GatewayAssumption' /\ G!TypeOK'
  BY <1>2, <1>3 DEF G!GatewayAssumption, G!TypeOK
<1>5. ASSUME NEW k \in Clients
      PROVE  Hears(clients[k])' /\ (clients[k].phase = "finding" => clients[k].market \in Markets)'
  <2>1. PICK x : x = clients[k]
    OBVIOUS
  <2>2. clients[k]' = x /\ Hears(x)
    BY <1>2, <2>1
  <2>3. Hears(x)'
    BY <1>2, <1>3, <2>2, HearsStays
  <2> QED
    BY <2>1, <2>2, <2>3
<1> QED
  BY <1>3, <1>4, <1>5

LEMMA DropEventKeeps ==
    ASSUME GatewayInv, G!DropEvent
    PROVE  GatewayInv'
<1> USE DEF GatewayInv
<1>1. wire' = Tail(wire) /\ wire # <<>> /\ UNCHANGED <<running, channelOf, channels, dispatching, dispatched, clients>>
  BY DEF G!DropEvent
<1>2. wire' \in Seq(Markets) /\ Len(wire') + Len(dispatched') <= MaxEvents
  <2>1. wire' \in Seq(Markets) /\ Len(wire') = Len(wire) - 1 /\ Len(wire) \in Nat /\ Len(dispatched) \in Nat
    BY <1>1, HeadTailProperties, GatewayTypes DEF G!TypeOK
  <2> QED
    BY <1>1, <2>1 DEF G!TypeOK, G!GatewayAssumption
<1>3. G!GatewayAssumption' /\ G!TypeOK' /\ ChannelsInv'
  BY <1>1, <1>2 DEF G!GatewayAssumption, G!TypeOK, ChannelsInv
<1>4. \A y : Hears(y)' <=> Hears(y)
  BY <1>1 DEF Hears, Due
<1> QED
  BY <1>1, <1>3, <1>4

LEMMA EndsKeeps ==
    ASSUME GatewayInv, G!Ends
    PROVE  GatewayInv'
<1> USE DEF GatewayInv
<1>1. /\ running' = FALSE /\ wire' = <<>> /\ dispatching' = None /\ clients' = [k \in Clients |-> G!Away]
      /\ UNCHANGED <<channelOf, channels, dispatched>>
  BY DEF G!Ends
<1>2. wire' \in Seq(Markets) /\ Len(wire') + Len(dispatched') <= MaxEvents
  <2>1. wire' \in Seq(Markets) /\ Len(wire') = 0 /\ Len(wire) \in Nat /\ Len(dispatched) \in Nat
    BY <1>1, GatewayTypes
  <2>2. MaxEvents \in Nat /\ Len(wire) + Len(dispatched) <= MaxEvents
    BY DEF G!TypeOK, G!GatewayAssumption
  <2> QED
    BY <1>1, <2>1, <2>2
<1>3. G!GatewayAssumption' /\ G!TypeOK' /\ ChannelsInv'
  BY <1>1, <1>2, AwayFacts DEF G!GatewayAssumption, G!TypeOK, ChannelsInv
<1>4. \A k \in Clients : clients'[k].phase = "away"
  BY <1>1, AwayFacts
<1> QED
  BY <1>3, <1>4 DEF Hears

\* The next event goes from those that wait to those that the client got.
LEMMA ReceiveKeeps ==
    ASSUME GatewayInv, NEW k \in Clients, G!Receive(k)
    PROVE  GatewayInv'
<1> USE DEF GatewayInv
<1>1. PICK x \in G!Client : x = clients[k]
  BY GatewayTypes
<1>2. PICK ch : ch = channels[x.channel]
  OBVIOUS
<1>3. /\ x.phase = "listening" /\ Len(ch) - x.at \in 1..Capacity
      /\ UNCHANGED <<running, wire, channelOf, channels, dispatching, dispatched>>
  BY <1>1, <1>2 DEF G!Receive, G!Held
<1>4. /\ Hears(x) /\ x.channel \in DOMAIN channels /\ x.at \in Nat /\ x.got \in Seq(1..MaxEvents)
      /\ ch \in Seq(1..MaxEvents) /\ Len(ch) \in Nat
  BY <1>1, <1>2, <1>3, GatewayTypes DEF Hears
<1> DEFINE e == ch[x.at + 1]
           got == Append(x.got, e)
           y == [x EXCEPT !.at = x.at + 1, !.got = got]
<1>5. clients' = [clients EXCEPT ![k] = y]
  BY <1>1, <1>2 DEF G!Receive, G!TypeOK
<1>6. x.at + 1 \in 1..Len(ch) /\ x.at + 1 <= Len(ch)
  BY <1>3, <1>4 DEF G!GatewayAssumption
<1>7. e \in 1..MaxEvents
  BY <1>4, <1>6, ElementOfSeq
<1> HIDE DEF e
<1>8. /\ got \in Seq(1..MaxEvents) /\ x.at + 1 \in Nat
      /\ Len(x.got) \in Nat /\ DOMAIN x.got = 1..Len(x.got) /\ DOMAIN got = 1..(Len(x.got) + 1)
      /\ got[Len(x.got) + 1] = e /\ \A i \in 1..Len(x.got) : got[i] = x.got[i]
  BY <1>4, <1>7, AppendProperties
<1> HIDE DEF got
<1>9. /\ y \in G!Client /\ y.phase = "listening" /\ y.market = x.market /\ y.channel = x.channel
      /\ y.at = x.at + 1 /\ y.from = x.from /\ y.lagged = x.lagged /\ y.got = got
  BY <1>3, <1>8 DEF G!Client
<1> HIDE DEF y
<1> DEFINE last == Len(x.got) + 1
           before == (x.at + 1)..Len(ch)
           after == (y.at + 1)..Len(ch)
<1>10. before = {x.at + 1} \cup after /\ x.at + 1 \notin after /\ e = ch[x.at + 1]
  BY <1>4, <1>6, <1>9 DEF e
<1>11. \A i : Due(y, i) <=> Due(x, i)
  BY <1>9 DEF Due
<1>12. \A i \in 1..Len(x.got) : x.got[i] < e
  <2>1. \A i \in DOMAIN x.got, j \in before : x.got[i] < ch[j]
    BY <1>2, <1>3, <1>4 DEF Hears
  <2> HIDE DEF before, after
  <2>2. x.at + 1 \in before
    BY <1>10
  <2>3. \A i \in DOMAIN x.got : x.got[i] < ch[x.at + 1]
    BY <2>1, <2>2
  <2> QED
    BY <1>8, <1>10, <2>3
<1>13. \A j \in after : e < ch[j]
  <2>1. \A i, j \in DOMAIN ch : i < j => ch[i] < ch[j]
    BY <1>2, <1>4 DEF ChannelsInv
  <2> QED
    BY <1>4, <1>6, <1>9, <1>10, <2>1
<1>14. /\ \A i, j \in DOMAIN y.got : i < j => y.got[i] < y.got[j]
       /\ \A i \in DOMAIN y.got : Due(y, y.got[i])
       /\ \A i \in DOMAIN y.got, j \in after : y.got[i] < ch[j]
       /\ \A j \in after : Due(y, ch[j])
  <2>1. /\ \A i, j \in 1..Len(x.got) : i < j => x.got[i] < x.got[j]
        /\ \A i \in 1..Len(x.got) : Due(x, x.got[i])
        /\ \A i \in 1..Len(x.got), j \in before : x.got[i] < ch[j]
        /\ \A j \in before : Due(x, ch[j])
    BY <1>2, <1>3, <1>4, <1>8, <1>9 DEF Hears
  <2>2. \A i \in DOMAIN y.got : (i \in 1..Len(x.got) /\ y.got[i] = x.got[i]) \/ (i = last /\ y.got[i] = e)
    BY <1>8, <1>9
  <2>3. Due(x, e)
    BY <1>10, <2>1
  <2> HIDE DEF before, after
  <2>4. \A i, j \in DOMAIN y.got : i < j => y.got[i] < y.got[j]
    BY <1>8, <1>9, <1>12, <2>1, <2>2
  <2> QED
    BY <1>10, <1>11, <1>13, <2>1, <2>2, <2>3, <2>4
<1>15. ASSUME ~y.lagged, NEW i, Due(y, i)
       PROVE  (\E j \in DOMAIN y.got : y.got[j] = i) \/ (\E j \in after : ch[j] = i)
  <2>1. (\E j \in 1..Len(x.got) : x.got[j] = i) \/ (\E j \in before : ch[j] = i)
    BY <1>2, <1>3, <1>4, <1>8, <1>9, <1>11, <1>15 DEF Hears
  <2>2. CASE \E j \in 1..Len(x.got) : x.got[j] = i
    BY <1>8, <1>9, <2>2
  <2>3. CASE \E j \in before : ch[j] = i
    <3>1. i = e \/ \E j \in after : ch[j] = i
      BY <1>10, <2>3
    <3>2. last \in DOMAIN y.got
      BY <1>8, <1>9
    <3> QED
      BY <1>8, <1>9, <3>1, <3>2
  <2> QED
    BY <2>1, <2>2, <2>3
<1>16. /\ y.market \in Markets /\ y.channel = channelOf[y.market] /\ y.channel \in DOMAIN channels
       /\ y.at <= Len(ch) /\ y.from <= Len(dispatched) /\ channels[y.channel] = ch
  BY <1>2, <1>3, <1>4, <1>6, <1>9 DEF Hears
<1>17. Hears(y)
  BY <1>14, <1>15, <1>16 DEF Hears
<1> QED
  BY <1>3, <1>5, <1>9, <1>17, ClientKeeps

\* A client that lags loses some of those that wait.
LEMMA LagKeeps ==
    ASSUME GatewayInv, NEW k \in Clients, G!Lag(k)
    PROVE  GatewayInv'
<1> USE DEF GatewayInv
<1>1. PICK x \in G!Client : x = clients[k]
  BY GatewayTypes
<1>2. PICK ch : ch = channels[x.channel]
  OBVIOUS
<1>3. /\ x.phase = "listening" /\ Len(ch) - x.at > Capacity
      /\ UNCHANGED <<running, wire, channelOf, channels, dispatching, dispatched>>
  BY <1>1, <1>2 DEF G!Lag, G!Held
<1>4. Hears(x) /\ x.channel \in DOMAIN channels /\ x.at \in Nat /\ Len(ch) \in Nat /\ Capacity \in Nat
  BY <1>1, <1>2, <1>3, GatewayTypes DEF Hears, G!GatewayAssumption
<1> DEFINE at == x.at + (Len(ch) - x.at) - Capacity
           y == [x EXCEPT !.at = at, !.lagged = TRUE]
<1>5. clients' = [clients EXCEPT ![k] = y]
  BY <1>1, <1>2 DEF G!Lag, G!TypeOK, G!Held
<1>6. at \in Nat /\ at <= Len(ch) /\ at >= x.at
  BY <1>3, <1>4
<1> HIDE DEF at
<1>7. /\ y \in G!Client /\ y.phase = "listening" /\ y.market = x.market /\ y.channel = x.channel
      /\ y.at = at /\ y.from = x.from /\ y.lagged /\ y.got = x.got
  BY <1>3, <1>6 DEF G!Client
<1> HIDE DEF y
<1>8. (y.at + 1)..Len(ch) \subseteq (x.at + 1)..Len(ch)
  BY <1>4, <1>6, <1>7
<1>9. \A i : Due(y, i) <=> Due(x, i)
  BY <1>7 DEF Due
<1>10. Hears(y)
  BY <1>2, <1>3, <1>4, <1>6, <1>7, <1>8, <1>9 DEF Hears
<1> QED
  BY <1>3, <1>5, <1>7, <1>10, ClientKeeps

LEMMA DisconnectKeeps ==
    ASSUME GatewayInv, NEW k \in Clients, G!Disconnect(k)
    PROVE  GatewayInv'
<1>1. G!Away \in G!Client /\ G!Away.phase = "away"
  BY AwayFacts
<1>2. Hears(G!Away)
  BY <1>1 DEF Hears
<1> QED
  BY <1>1, <1>2, ClientKeeps DEF G!Disconnect

LEMMA GatewayInit ==
    ASSUME G!GatewayAssumption, G!Init
    PROVE  GatewayInv
<1>1. wire = <<>> /\ dispatched = <<>> /\ channels = <<>> /\ MaxEvents \in Nat
  BY DEF G!Init, G!GatewayAssumption
<1>2. wire \in Seq(Markets) /\ dispatched \in Seq(Markets) /\ Len(wire) = 0 /\ Len(dispatched) = 0
  BY <1>1
<1>3. channels \in Seq(Seq(1..MaxEvents)) /\ Len(channels) = 0 /\ DOMAIN channels = {}
  BY <1>1
<1>4. channelOf \in [Markets -> 0..Len(channels)] /\ \A m \in Markets : channelOf[m] = 0
  BY <1>3 DEF G!Init
<1>5. clients \in [Clients -> G!Client] /\ \A k \in Clients : clients[k].phase = "away"
  BY AwayFacts DEF G!Init
<1>6. G!TypeOK
  BY <1>1, <1>2, <1>3, <1>4, <1>5 DEF G!TypeOK, G!Init
<1> QED
  BY <1>3, <1>4, <1>5, <1>6 DEF GatewayInv, ChannelsInv, Hears

LEMMA GatewayNext ==
    ASSUME GatewayInv, G!Next
    PROVE  GatewayInv'
BY PublishKeeps, SubscribeKeeps, SubscribeNewKeeps, ReceiveKeeps, LagKeeps, DisconnectKeeps,
   DispatchKeeps, MakeChannelKeeps, DropEventKeeps, EndsKeeps DEF G!Next

LEMMA GatewayStutter ==
    ASSUME GatewayInv, UNCHANGED gatewayVars
    PROVE  GatewayInv'
<1>1. \A y : Hears(y)' <=> Hears(y)
  BY DEF gatewayVars, Hears, Due
<1>2. G!GatewayAssumption' /\ G!TypeOK' /\ ChannelsInv'
  BY DEF GatewayInv, gatewayVars, G!GatewayAssumption, G!TypeOK, ChannelsInv
<1> QED
  BY <1>1, <1>2 DEF GatewayInv, gatewayVars

\* What was got, and then what waits, is one sequence.
LEMMA GatewaySuffices ==
    ASSUME GatewayInv
    PROVE  G!ClientsHear
<1> USE DEF GatewayInv
<1> SUFFICES ASSUME NEW k \in Clients, clients[k].phase = "listening"
             PROVE  LET since == {i \in 1..Len(dispatched) : i > clients[k].from /\ dispatched[i] = clients[k].market}
                        ch == channels[clients[k].channel]
                        heard == clients[k].got \o SubSeq(ch, clients[k].at + 1, Len(ch))
                    IN /\ G!ToSet(heard) \subseteq since
                       /\ ~clients[k].lagged => since \subseteq G!ToSet(heard)
                       /\ \A i, j \in DOMAIN heard : i < j => heard[i] < heard[j]
  BY DEF G!ClientsHear
<1> DEFINE x == clients[k]
           ch == channels[x.channel]
           rest == SubSeq(ch, x.at + 1, Len(ch))
           heard == x.got \o rest
           waiting == (x.at + 1)..Len(ch)
<1>1. /\ Hears(x) /\ x.channel \in DOMAIN channels /\ x.at \in Nat /\ x.got \in Seq(1..MaxEvents)
      /\ ch \in Seq(1..MaxEvents) /\ Len(ch) \in Nat /\ x.at <= Len(ch)
  BY GatewayTypes DEF Hears
<1>2. /\ \A i, j \in DOMAIN x.got : i < j => x.got[i] < x.got[j]
      /\ \A i \in DOMAIN x.got : Due(x, x.got[i])
      /\ \A i \in DOMAIN x.got, j \in waiting : x.got[i] < ch[j]
      /\ \A j \in waiting : Due(x, ch[j])
      /\ ~x.lagged => \A i : Due(x, i) => (\E j \in DOMAIN x.got : x.got[j] = i) \/ (\E j \in waiting : ch[j] = i)
  BY <1>1 DEF Hears
<1>3. \A i, j \in waiting : i < j => ch[i] < ch[j]
  BY <1>1 DEF ChannelsInv
<1> HIDE DEF x, ch
<1>4. /\ rest \in Seq(1..MaxEvents) /\ Len(rest) = Len(ch) - x.at
      /\ \A i \in 1..Len(rest) : rest[i] = ch[x.at + i] /\ x.at + i \in waiting
  <2>1. \A i \in (x.at + 1)..Len(ch) : ch[i] \in 1..MaxEvents
    <3>1. \A i \in (x.at + 1)..Len(ch) : i \in 1..Len(ch)
      BY <1>1
    <3> QED
      BY <1>1, <3>1, ElementOfSeq
  <2>2. /\ rest \in Seq(1..MaxEvents)
        /\ Len(rest) = IF x.at + 1 <= Len(ch) THEN Len(ch) - (x.at + 1) + 1 ELSE 0
        /\ \A i \in 1..(Len(ch) - (x.at + 1) + 1) : rest[i] = ch[x.at + 1 + i - 1]
    BY <1>1, <2>1, SubSeqProperties
  <2> HIDE DEF rest
  <2>3. Len(rest) = Len(ch) - x.at
    BY <1>1, <2>2
  <2>4. ASSUME NEW i \in 1..Len(rest)
        PROVE  rest[i] = ch[x.at + i] /\ x.at + i \in waiting
    <3>1. x.at + 1 + i - 1 = x.at + i /\ i \in 1..(Len(ch) - (x.at + 1) + 1)
      BY <1>1, <2>3
    <3>2. rest[i] = ch[x.at + 1 + i - 1]
      BY <2>2, <3>1
    <3>3. rest[i] = ch[x.at + i]
      BY <3>1, <3>2
    <3> QED
      BY <1>1, <2>3, <3>3
  <2> QED
    BY <2>2, <2>3, <2>4
<1> HIDE DEF rest, waiting
<1>5. /\ Len(x.got) \in Nat /\ Len(rest) \in Nat /\ DOMAIN x.got = 1..Len(x.got)
      /\ DOMAIN heard = 1..(Len(x.got) + Len(rest))
      /\ \A i \in 1..(Len(x.got) + Len(rest)) : heard[i] = IF i <= Len(x.got) THEN x.got[i] ELSE rest[i - Len(x.got)]
  <2>1. /\ heard \in Seq(1..MaxEvents) /\ Len(heard) = Len(x.got) + Len(rest)
        /\ \A i \in 1..(Len(x.got) + Len(rest)) : heard[i] = IF i <= Len(x.got) THEN x.got[i] ELSE rest[i - Len(x.got)]
    <3>1. x.got \in Seq(1..MaxEvents) /\ rest \in Seq(1..MaxEvents)
      BY <1>1, <1>4
    <3> QED
      BY <3>1, ConcatProperties
  <2> HIDE DEF heard
  <2> QED
    BY <1>1, <1>4, <2>1, LenProperties
<1> HIDE DEF heard
<1>6. \A i \in DOMAIN heard : \/ i \in DOMAIN x.got /\ heard[i] = x.got[i]
                              \/ /\ x.at + (i - Len(x.got)) \in waiting
                                 /\ heard[i] = ch[x.at + (i - Len(x.got))] /\ i > Len(x.got)
  BY <1>4, <1>5
<1>7. \A i \in DOMAIN heard : Due(x, heard[i])
  BY <1>2, <1>6
<1>8. ASSUME NEW i \in DOMAIN heard, NEW j \in DOMAIN heard, i < j
      PROVE  heard[i] < heard[j]
  <2>1. i \in Nat /\ j \in Nat
    BY <1>5
  <2>2. CASE j <= Len(x.got)
    BY <1>2, <1>5, <1>8, <2>1, <2>2
  <2>3. CASE j > Len(x.got) /\ i <= Len(x.got)
    BY <1>2, <1>5, <1>6, <2>1, <2>3
  <2>4. CASE i > Len(x.got)
    <3>1. x.at + (i - Len(x.got)) < x.at + (j - Len(x.got)) /\ j > Len(x.got)
      BY <1>1, <1>5, <1>8, <2>1, <2>4
    <3>2. i \notin DOMAIN x.got /\ j \notin DOMAIN x.got
      BY <1>5, <2>1, <2>4, <3>1
    <3> QED
      BY <1>3, <1>6, <3>1, <3>2
  <2> QED
    BY <1>5, <2>1, <2>2, <2>3, <2>4
<1>9. /\ \A i \in DOMAIN x.got : i \in DOMAIN heard /\ heard[i] = x.got[i]
      /\ \A j \in waiting : Len(x.got) + (j - x.at) \in DOMAIN heard /\ heard[Len(x.got) + (j - x.at)] = ch[j]
  <2>1. \A i \in DOMAIN x.got : i \in DOMAIN heard /\ heard[i] = x.got[i]
    BY <1>5
  <2>2. ASSUME NEW j \in waiting
        PROVE  Len(x.got) + (j - x.at) \in DOMAIN heard /\ heard[Len(x.got) + (j - x.at)] = ch[j]
    <3> DEFINE i == j - x.at
               h == Len(x.got) + i
    <3>1. i \in 1..Len(rest) /\ x.at + i = j
      BY <1>1, <1>4 DEF waiting
    <3> HIDE DEF i
    <3>2. h \in 1..(Len(x.got) + Len(rest)) /\ ~(h <= Len(x.got)) /\ h - Len(x.got) = i
      BY <1>5, <3>1
    <3> HIDE DEF h
    <3>3. h \in DOMAIN heard /\ heard[h] = ch[j]
      BY <1>4, <1>5, <3>1, <3>2
    <3> QED
      BY <3>3 DEF h, i
  <2> QED
    BY <2>1, <2>2
<1>10. ~x.lagged => \A i : Due(x, i) => \E j \in DOMAIN heard : heard[j] = i
  BY <1>2, <1>9
<1>11. G!ToSet(heard) = {heard[i] : i \in DOMAIN heard}
  BY DEF G!ToSet
<1>12. G!ToSet(heard) \subseteq {i \in 1..Len(dispatched) : i > x.from /\ dispatched[i] = x.market}
  BY <1>7, <1>11 DEF Due
<1>13. ~x.lagged => {i \in 1..Len(dispatched) : i > x.from /\ dispatched[i] = x.market} \subseteq G!ToSet(heard)
  BY <1>10, <1>11 DEF Due
<1> QED
  BY <1>8, <1>12, <1>13 DEF heard, rest, ch, x

-----------------------------------------------------------------------------
(* Communities: the inductive invariant *)

\* What a call that has begun has read, or been given.
CommunityCall(x) ==
    /\ x.op \in {"found", "update", "join", "post"} => x.slug \in Slugs
    /\ x.op \in {"found", "post"} => x.by \in Users
    /\ x.op \in {"found", "update"} => x.row \in C!Community
    /\ x.op = "join" => C!Exists(x.slug) /\ x.user \in Users
    /\ x.op = "review" => x.id \in DOMAIN posts

\* A member is one of a community that exists.
CommunityInv ==
    /\ C!CommunityAssumption /\ C!TypeOK
    /\ \A m \in members : C!Exists(m.community)
    /\ \A c \in Callers : CommunityCall(handling[c])

-----------------------------------------------------------------------------
(* Communities: every step keeps it *)

LEMMA QuietFacts == C!Quiet \in C!Call /\ C!Quiet.op = "none" /\ CommunityCall(C!Quiet)
BY DEF C!Quiet, C!Call, CommunityCall, C!Roles

LEMMA FoundExists ==
    ASSUME C!CommunityAssumption, NEW row \in C!Community
    PROVE  row # C!Missing
BY DEF C!CommunityAssumption, C!Community, C!Missing

\* A call that has read, and will write.
LEMMA CommunityCallKeeps ==
    ASSUME CommunityInv, NEW c \in Callers, NEW x \in C!Call, CommunityCall(x), C!Begins(c, x),
           UNCHANGED <<backend, communities, members, issued, posts>>
    PROVE  CommunityInv'
<1> USE DEF CommunityInv
<1>1. handling' \in [Callers -> C!Call] /\ \A d \in Callers : handling'[d] = IF d = c THEN x ELSE handling[d]
  BY DEF C!Begins, C!TypeOK
<1>2. C!CommunityAssumption' /\ C!TypeOK' /\ \A m \in members' : C!Exists(m.community)'
  BY <1>1 DEF C!CommunityAssumption, C!TypeOK, C!Exists, C!SeededPosts
<1>3. \A y : CommunityCall(y) => CommunityCall(y)'
  BY DEF CommunityCall, C!Exists
<1>4. \A d \in Callers : CommunityCall(handling'[d])
  BY <1>1
<1> QED
  BY <1>2, <1>3, <1>4

\* A write, with which the call ends: what others have read is still there.
LEMMA CommunityWriteKeeps ==
    ASSUME CommunityInv, NEW c \in Callers, C!Ends(c), UNCHANGED backend,
           communities' \in [Slugs -> C!Community \cup {C!Missing}],
           \A s \in Slugs : C!Exists(s) => C!Exists(s)',
           members' \subseteq C!Member, issued' \in 0..MaxMembers,
           \A m \in members' : C!Exists(m.community)',
           posts' \in Seq(C!Post), Len(posts') <= MaxPosts + Len(C!SeededPosts), DOMAIN posts \subseteq DOMAIN posts'
    PROVE  CommunityInv'
<1> USE DEF CommunityInv
<1>1. /\ handling' \in [Callers -> C!Call]
      /\ \A d \in Callers : handling'[d] = IF d = c THEN C!Quiet ELSE handling[d]
  BY QuietFacts DEF C!Ends, C!TypeOK
<1>2. C!SeededPosts' = C!SeededPosts
  BY DEF C!SeededPosts
<1>3. C!CommunityAssumption' /\ C!TypeOK'
  BY <1>1, <1>2 DEF C!CommunityAssumption, C!TypeOK
<1>4. \A y : CommunityCall(y) => CommunityCall(y)'
  BY DEF CommunityCall
<1>5. \A d \in Callers : CommunityCall(handling'[d])
  BY <1>1, QuietFacts
<1> QED
  BY <1>3, <1>4, <1>5

LEMMA CreateCommunityKeeps ==
    ASSUME CommunityInv, NEW c \in Callers, NEW u \in Users, NEW s \in Slugs, NEW rules \in Created,
           C!CreateCommunity(c, u, s, rules)
    PROVE  CommunityInv'
<1> DEFINE row == [by |-> u, visibility |-> rules.visibility, approval |-> rules.approval]
           x == [C!Quiet EXCEPT !.op = "found", !.by = u, !.slug = s, !.row = row]
<1>1. row \in C!Community
  BY DEF C!Community, CommunityInv, C!CommunityAssumption
<1>2. C!Begins(c, x) /\ UNCHANGED <<backend, communities, members, issued, posts>>
  BY DEF C!CreateCommunity
<1> HIDE DEF row
<1>3. x \in C!Call /\ x.op = "found" /\ x.by = u /\ x.slug = s /\ x.row = row
  BY <1>1, QuietFacts DEF C!Quiet, C!Call
<1> HIDE DEF x
<1>4. CommunityCall(x)
  BY <1>1, <1>3 DEF CommunityCall
<1> QED
  BY <1>2, <1>3, <1>4, CommunityCallKeeps

LEMMA UpdateCommunityKeeps ==
    ASSUME CommunityInv, NEW c \in Callers, NEW u \in Users, NEW s \in Slugs, NEW change \in Changes,
           C!UpdateCommunity(c, u, s, change)
    PROVE  CommunityInv'
<1> DEFINE visibility == IF change.visibility = None THEN communities[s].visibility ELSE change.visibility
           approval == IF change.approval = None THEN communities[s].approval ELSE change.approval
           row == [by |-> communities[s].by, visibility |-> visibility, approval |-> approval]
           x == [C!Quiet EXCEPT !.op = "update", !.slug = s, !.row = row]
<1>1. C!Begins(c, x) /\ UNCHANGED <<backend, communities, members, issued, posts>> /\ C!Exists(s)
  BY DEF C!UpdateCommunity
<1>2. communities[s] \in C!Community
  BY <1>1 DEF CommunityInv, C!TypeOK, C!Exists
<1>3. visibility \in {"public", "private"} /\ approval \in BOOLEAN
  BY <1>2 DEF C!Community, CommunityInv, C!CommunityAssumption
<1> HIDE DEF visibility, approval
<1>4. row \in C!Community
  BY <1>2, <1>3 DEF C!Community
<1> HIDE DEF row
<1>5. x \in C!Call /\ x.op = "update" /\ x.slug = s /\ x.row = row
  BY <1>4, QuietFacts DEF C!Quiet, C!Call
<1> HIDE DEF x
<1>6. CommunityCall(x)
  BY <1>4, <1>5 DEF CommunityCall
<1> QED
  BY <1>1, <1>5, <1>6, CommunityCallKeeps

LEMMA AddMemberKeeps ==
    ASSUME CommunityInv, NEW c \in Callers, NEW u \in Users, NEW s \in Slugs, NEW user \in Users, NEW role \in Granted,
           C!AddMember(c, u, s, user, role)
    PROVE  CommunityInv'
<1> DEFINE x == [C!Quiet EXCEPT !.op = "join", !.slug = s, !.user = user, !.role = role]
<1>1. C!Begins(c, x) /\ UNCHANGED <<backend, communities, members, issued, posts>> /\ C!Exists(s)
  BY DEF C!AddMember
<1>2. role \in C!Roles
  BY DEF CommunityInv, C!CommunityAssumption, C!Roles
<1>3. x \in C!Call /\ x.op = "join" /\ x.slug = s /\ x.user = user
  BY <1>2, QuietFacts DEF C!Quiet, C!Call
<1> HIDE DEF x
<1>4. CommunityCall(x)
  BY <1>1, <1>3 DEF CommunityCall
<1> QED
  BY <1>1, <1>3, <1>4, CommunityCallKeeps

LEMMA ChangeMemberKeeps ==
    ASSUME CommunityInv, NEW c \in Callers, NEW u \in Users, NEW m \in members,
           (\E role \in Granted : C!UpdateMember(c, u, m, role)) \/ C!DeleteMember(c, u, m)
    PROVE  CommunityInv'
<1>1. m.id \in Nat /\ \A role \in Granted : role \in C!Roles
  <2>1. m \in C!Member /\ MaxMembers \in Nat
    BY DEF CommunityInv, C!TypeOK, C!CommunityAssumption
  <2>2. m.id \in Nat
    BY <2>1 DEF C!Member
  <2>3. Granted \subseteq C!Roles
    BY DEF CommunityInv, C!CommunityAssumption, C!Roles
  <2> QED
    BY <2>2, <2>3
<1>2. ASSUME NEW role \in Granted, C!UpdateMember(c, u, m, role)
      PROVE  CommunityInv'
  <2> DEFINE x == [C!Quiet EXCEPT !.op = "role", !.id = m.id, !.role = role]
  <2>1. C!Begins(c, x) /\ UNCHANGED <<backend, communities, members, issued, posts>>
    BY <1>2 DEF C!UpdateMember
  <2>2. x \in C!Call /\ x.op = "role"
    BY <1>1, QuietFacts DEF C!Quiet, C!Call
  <2> HIDE DEF x
  <2>3. CommunityCall(x)
    BY <2>2 DEF CommunityCall
  <2> QED
    BY <2>1, <2>2, <2>3, CommunityCallKeeps
<1>3. ASSUME C!DeleteMember(c, u, m)
      PROVE  CommunityInv'
  <2> DEFINE x == [C!Quiet EXCEPT !.op = "leave", !.id = m.id]
  <2>1. C!Begins(c, x) /\ UNCHANGED <<backend, communities, members, issued, posts>>
    BY <1>3 DEF C!DeleteMember
  <2>2. x \in C!Call /\ x.op = "leave"
    BY <1>1, QuietFacts DEF C!Quiet, C!Call
  <2> HIDE DEF x
  <2>3. CommunityCall(x)
    BY <2>2 DEF CommunityCall
  <2> QED
    BY <2>1, <2>2, <2>3, CommunityCallKeeps
<1> QED
  BY <1>2, <1>3

LEMMA CreatePostKeeps ==
    ASSUME CommunityInv, NEW c \in Callers, NEW u \in Users, NEW s \in Slugs, C!CreatePost(c, u, s)
    PROVE  CommunityInv'
<1> DEFINE status == C!StatusOfPost(C!PostContext(s, u))
           x == [C!Quiet EXCEPT !.op = "post", !.by = u, !.slug = s, !.status = status]
<1>1. C!Begins(c, x) /\ UNCHANGED <<backend, communities, members, issued, posts>>
  BY DEF C!CreatePost
<1>2. status \in {"pending_review", "approved", "rejected"}
  BY DEF C!StatusOfPost
<1> HIDE DEF status
<1>3. x \in C!Call /\ x.op = "post" /\ x.by = u /\ x.slug = s
  BY <1>2, QuietFacts DEF C!Quiet, C!Call
<1> HIDE DEF x
<1>4. CommunityCall(x)
  BY <1>3 DEF CommunityCall
<1> QED
  BY <1>1, <1>3, <1>4, CommunityCallKeeps

LEMMA ReviewPostKeeps ==
    ASSUME CommunityInv, NEW c \in Callers, NEW p \in DOMAIN posts, NEW approved \in BOOLEAN, C!ReviewPost(c, p, approved)
    PROVE  CommunityInv'
<1> DEFINE status == IF approved THEN "approved" ELSE "rejected"
           x == [C!Quiet EXCEPT !.op = "review", !.id = p, !.status = status]
<1>1. C!Begins(c, x) /\ UNCHANGED <<backend, communities, members, issued, posts>>
  BY DEF C!ReviewPost
<1>2. status \in {"pending_review", "approved", "rejected"} /\ p \in Nat
  BY DEF CommunityInv, C!TypeOK
<1> HIDE DEF status
<1>3. x \in C!Call /\ x.op = "review" /\ x.id = p
  BY <1>2, QuietFacts DEF C!Quiet, C!Call
<1> HIDE DEF x
<1>4. CommunityCall(x)
  BY <1>3 DEF CommunityCall
<1> QED
  BY <1>1, <1>3, <1>4, CommunityCallKeeps

LEMMA CallFacts ==
    ASSUME CommunityInv, NEW c \in Callers
    PROVE  handling[c] \in C!Call /\ CommunityCall(handling[c])
BY DEF CommunityInv, C!TypeOK

\* The founder is the first member of a community that was not there before.
LEMMA WriteCommunityKeeps ==
    ASSUME CommunityInv, NEW c \in Callers, C!WriteCommunity(c)
    PROVE  CommunityInv'
<1> USE DEF CommunityInv
<1>1. PICK s \in Slugs, u \in Users, row \in C!Community :
          s = handling[c].slug /\ u = handling[c].by /\ row = handling[c].row
  BY CallFacts DEF C!WriteCommunity, CommunityCall
<1>2. C!Ends(c) /\ UNCHANGED <<backend, posts>> /\ issued < MaxMembers
  BY DEF C!WriteCommunity
<1>3. posts' \in Seq(C!Post) /\ Len(posts') <= MaxPosts + Len(C!SeededPosts) /\ DOMAIN posts \subseteq DOMAIN posts'
  BY <1>2 DEF C!TypeOK
<1>4. CASE C!Exists(s)
  <2>1. UNCHANGED <<communities, members, issued>>
    BY <1>1, <1>4 DEF C!WriteCommunity
  <2>2. communities' \in [Slugs -> C!Community \cup {C!Missing}] /\ members' \subseteq C!Member /\ issued' \in 0..MaxMembers
    BY <2>1 DEF C!TypeOK
  <2>3. \A t : C!Exists(t)' <=> C!Exists(t)
    BY <2>1 DEF C!Exists
  <2> QED
    BY <1>2, <1>3, <2>1, <2>2, <2>3, CommunityWriteKeeps
<1>5. CASE ~C!Exists(s)
  <2> DEFINE m == [id |-> issued + 1, community |-> s, user |-> u, role |-> "owner"]
  <2>1. communities' = [communities EXCEPT ![s] = row] /\ issued' = issued + 1 /\ members' = members \cup {m}
    BY <1>1, <1>5 DEF C!WriteCommunity
  <2>2. issued' \in 0..MaxMembers /\ issued' \in 1..MaxMembers
    BY <1>2, <2>1 DEF C!TypeOK, C!CommunityAssumption
  <2>3. m \in C!Member /\ m.community = s
    BY <2>1, <2>2 DEF C!Member, C!Roles
  <2> HIDE DEF m
  <2>4. communities' \in [Slugs -> C!Community \cup {C!Missing}] /\ members' \subseteq C!Member
    BY <2>1, <2>3 DEF C!TypeOK
  <2>5. C!Exists(s)' /\ \A t \in Slugs : C!Exists(t) => C!Exists(t)'
    BY <2>1, FoundExists DEF C!Exists, C!TypeOK
  <2>6. \A n \in members : n.community \in Slugs
    BY DEF C!TypeOK, C!Member
  <2>7. \A n \in members' : C!Exists(n.community)'
    BY <2>1, <2>3, <2>5, <2>6
  <2> QED
    BY <1>2, <1>3, <2>2, <2>4, <2>5, <2>7, CommunityWriteKeeps
<1> QED
  BY <1>4, <1>5

LEMMA WriteUpdateKeeps ==
    ASSUME CommunityInv, NEW c \in Callers, C!WriteUpdate(c)
    PROVE  CommunityInv'
<1> USE DEF CommunityInv
<1>1. PICK s \in Slugs, row \in C!Community : s = handling[c].slug /\ row = handling[c].row
  BY CallFacts DEF C!WriteUpdate, CommunityCall
<1>2. C!Ends(c) /\ communities' = [communities EXCEPT ![s] = row] /\ UNCHANGED <<backend, members, issued, posts>>
  BY <1>1 DEF C!WriteUpdate
<1>3. communities' \in [Slugs -> C!Community \cup {C!Missing}] /\ members' \subseteq C!Member /\ issued' \in 0..MaxMembers
  BY <1>2 DEF C!TypeOK
<1>4. posts' \in Seq(C!Post) /\ Len(posts') <= MaxPosts + Len(C!SeededPosts) /\ DOMAIN posts \subseteq DOMAIN posts'
  BY <1>2 DEF C!TypeOK
<1>5. \A t \in Slugs : C!Exists(t) => C!Exists(t)'
  BY <1>2, FoundExists DEF C!Exists, C!TypeOK
<1>6. \A n \in members' : C!Exists(n.community)'
  BY <1>2, <1>5 DEF C!TypeOK, C!Member
<1> QED
  BY <1>2, <1>3, <1>4, <1>5, <1>6, CommunityWriteKeeps

LEMMA InsertMemberKeeps ==
    ASSUME CommunityInv, NEW c \in Callers, C!InsertMember(c)
    PROVE  CommunityInv'
<1> USE DEF CommunityInv
<1>1. PICK s \in Slugs, u \in Users : s = handling[c].slug /\ u = handling[c].user /\ C!Exists(s)
  BY CallFacts DEF C!InsertMember, CommunityCall
<1>2. PICK role \in C!Roles : role = handling[c].role
  BY CallFacts DEF C!Call
<1>3. C!Ends(c) /\ UNCHANGED <<backend, communities, posts>> /\ issued < MaxMembers
  BY DEF C!InsertMember
<1>4. posts' \in Seq(C!Post) /\ Len(posts') <= MaxPosts + Len(C!SeededPosts) /\ DOMAIN posts \subseteq DOMAIN posts'
  BY <1>3 DEF C!TypeOK
<1>5. \A t : C!Exists(t)' <=> C!Exists(t)
  BY <1>3 DEF C!Exists
<1>6. communities' \in [Slugs -> C!Community \cup {C!Missing}]
  BY <1>3 DEF C!TypeOK
<1>7. CASE C!Joined(s, u)
  <2>1. UNCHANGED <<members, issued>>
    BY <1>1, <1>7 DEF C!InsertMember
  <2>2. members' \subseteq C!Member /\ issued' \in 0..MaxMembers
    BY <1>3, <2>1 DEF C!TypeOK
  <2> QED
    BY <1>3, <1>4, <1>5, <1>6, <2>1, <2>2, CommunityWriteKeeps
<1>8. CASE ~C!Joined(s, u)
  <2> DEFINE m == [id |-> issued + 1, community |-> s, user |-> u, role |-> role]
  <2>1. issued' = issued + 1 /\ members' = members \cup {m}
    BY <1>1, <1>2, <1>8 DEF C!InsertMember
  <2>2. issued' \in 0..MaxMembers /\ issued' \in 1..MaxMembers
    BY <1>3, <2>1 DEF C!TypeOK, C!CommunityAssumption
  <2>3. m \in C!Member /\ m.community = s
    BY <2>1, <2>2 DEF C!Member
  <2> HIDE DEF m
  <2>4. members' \subseteq C!Member
    BY <2>1, <2>3 DEF C!TypeOK
  <2>5. \A n \in members' : C!Exists(n.community)'
    BY <1>1, <1>5, <2>1, <2>3
  <2> QED
    BY <1>3, <1>4, <1>5, <1>6, <2>2, <2>4, <2>5, CommunityWriteKeeps
<1> QED
  BY <1>7, <1>8

\* A new role leaves every membership where it was.
LEMMA WriteRoleKeeps ==
    ASSUME CommunityInv, NEW c \in Callers, C!WriteRole(c)
    PROVE  CommunityInv'
<1> USE DEF CommunityInv
<1>1. PICK role \in C!Roles, id \in Nat : role = handling[c].role /\ id = handling[c].id
  BY CallFacts DEF C!Call
<1> DEFINE Changed(m) == IF m.id = id THEN [m EXCEPT !.role = role] ELSE m
<1>2. C!Ends(c) /\ UNCHANGED <<backend, communities, issued, posts>> /\ members' = {Changed(m) : m \in members}
  BY <1>1 DEF C!WriteRole
<1>3. \A m \in members : Changed(m) \in C!Member /\ Changed(m).community = m.community /\ Changed(m).user = m.user
  BY DEF C!TypeOK, C!Member
<1> HIDE DEF Changed
<1>4. members' \subseteq C!Member /\ issued' \in 0..MaxMembers /\ communities' \in [Slugs -> C!Community \cup {C!Missing}]
  BY <1>2, <1>3 DEF C!TypeOK
<1>5. posts' \in Seq(C!Post) /\ Len(posts') <= MaxPosts + Len(C!SeededPosts) /\ DOMAIN posts \subseteq DOMAIN posts'
  BY <1>2 DEF C!TypeOK
<1>6. \A t : C!Exists(t)' <=> C!Exists(t)
  BY <1>2 DEF C!Exists
<1>7. \A m \in members' : C!Exists(m.community)'
  BY <1>2, <1>3, <1>6
<1> QED
  BY <1>2, <1>4, <1>5, <1>6, <1>7, CommunityWriteKeeps

LEMMA RemoveMemberKeeps ==
    ASSUME CommunityInv, NEW c \in Callers, C!RemoveMember(c)
    PROVE  CommunityInv'
<1> USE DEF CommunityInv
<1>1. C!Ends(c) /\ UNCHANGED <<backend, communities, issued, posts>> /\ members' \subseteq members
  BY DEF C!RemoveMember
<1>2. members' \subseteq C!Member /\ issued' \in 0..MaxMembers /\ communities' \in [Slugs -> C!Community \cup {C!Missing}]
  BY <1>1 DEF C!TypeOK
<1>3. posts' \in Seq(C!Post) /\ Len(posts') <= MaxPosts + Len(C!SeededPosts) /\ DOMAIN posts \subseteq DOMAIN posts'
  BY <1>1 DEF C!TypeOK
<1>4. \A t : C!Exists(t)' <=> C!Exists(t)
  BY <1>1 DEF C!Exists
<1>5. \A m \in members' : C!Exists(m.community)'
  BY <1>1, <1>4
<1> QED
  BY <1>1, <1>2, <1>3, <1>4, <1>5, CommunityWriteKeeps

\* A write to the posts alone.
LEMMA PostKeeps ==
    ASSUME CommunityInv, NEW c \in Callers, C!Ends(c), UNCHANGED <<backend, communities, members, issued>>,
           posts' \in Seq(C!Post), Len(posts') <= MaxPosts + Len(C!SeededPosts), DOMAIN posts \subseteq DOMAIN posts'
    PROVE  CommunityInv'
<1>1. members' \subseteq C!Member /\ issued' \in 0..MaxMembers /\ communities' \in [Slugs -> C!Community \cup {C!Missing}]
  BY DEF CommunityInv, C!TypeOK
<1>2. \A t : C!Exists(t)' <=> C!Exists(t)
  BY DEF C!Exists
<1>3. \A m \in members' : C!Exists(m.community)'
  BY <1>2 DEF CommunityInv
<1> QED
  BY <1>1, <1>2, <1>3, CommunityWriteKeeps

LEMMA InsertPostKeeps ==
    ASSUME CommunityInv, NEW c \in Callers, C!InsertPost(c)
    PROVE  CommunityInv'
<1> USE DEF CommunityInv
<1>1. PICK s \in Slugs, u \in Users : s = handling[c].slug /\ u = handling[c].by
  BY CallFacts DEF C!InsertPost, CommunityCall
<1>2. PICK status \in {"pending_review", "approved", "rejected"} : status = handling[c].status
  BY CallFacts DEF C!Call
<1> DEFINE post == [community |-> s, by |-> u, status |-> status]
<1>3. /\ C!Ends(c) /\ UNCHANGED <<backend, communities, members, issued>> /\ posts' = Append(posts, post)
      /\ Len(posts) < MaxPosts + Len(C!SeededPosts)
  BY <1>1, <1>2 DEF C!InsertPost
<1>4. post \in C!Post /\ posts \in Seq(C!Post) /\ Len(C!SeededPosts) \in Nat /\ MaxPosts \in Nat
  BY DEF C!Post, C!TypeOK, C!CommunityAssumption, C!SeededPosts
<1> HIDE DEF post
<1>5. posts' \in Seq(C!Post) /\ Len(posts') = Len(posts) + 1 /\ DOMAIN posts \subseteq DOMAIN posts' /\ Len(posts) \in Nat
  BY <1>3, <1>4
<1>6. Len(posts') <= MaxPosts + Len(C!SeededPosts)
  BY <1>3, <1>4, <1>5
<1> QED
  BY <1>3, <1>5, <1>6, PostKeeps

LEMMA WriteReviewKeeps ==
    ASSUME CommunityInv, NEW c \in Callers, C!WriteReview(c)
    PROVE  CommunityInv'
<1> USE DEF CommunityInv
<1>1. PICK p \in DOMAIN posts : p = handling[c].id
  BY CallFacts DEF C!WriteReview, CommunityCall
<1>2. PICK status \in {"pending_review", "approved", "rejected"} : status = handling[c].status
  BY CallFacts DEF C!Call
<1> DEFINE post == [posts[p] EXCEPT !.status = status]
<1>3. C!Ends(c) /\ UNCHANGED <<backend, communities, members, issued>> /\ posts' = [posts EXCEPT ![p] = post]
  BY <1>1, <1>2 DEF C!WriteReview
<1>4. posts \in Seq(C!Post) /\ posts[p] \in C!Post /\ p \in 1..Len(posts)
  BY DEF C!TypeOK
<1>5. post \in C!Post
  BY <1>4 DEF C!Post
<1> HIDE DEF post
<1>6. posts' \in Seq(C!Post) /\ Len(posts') = Len(posts)
  BY <1>3, <1>4, <1>5, ExceptSeq
<1>7. DOMAIN posts' = DOMAIN posts /\ Len(posts') <= MaxPosts + Len(C!SeededPosts)
  BY <1>4, <1>6, LenProperties DEF C!TypeOK
<1> QED
  BY <1>3, <1>6, <1>7, PostKeeps

LEMMA CommunityNext ==
    ASSUME CommunityInv, C!Next
    PROVE  CommunityInv'
BY CreateCommunityKeeps, UpdateCommunityKeeps, AddMemberKeeps, ChangeMemberKeeps, CreatePostKeeps, ReviewPostKeeps,
   WriteCommunityKeeps, WriteUpdateKeeps, InsertMemberKeeps, WriteRoleKeeps, RemoveMemberKeeps,
   InsertPostKeeps, WriteReviewKeeps DEF C!Next

LEMMA CommunityStutter ==
    ASSUME CommunityInv, UNCHANGED communityVars
    PROVE  CommunityInv'
BY DEF CommunityInv, communityVars, C!CommunityAssumption, C!TypeOK, C!SeededPosts, CommunityCall, C!Exists

\* The lists in memory begin with one owner for each seeded community.
LEMMA SeededMembers ==
    ASSUME C!CommunityAssumption, IsFiniteSet(Seeded), Cardinality(Seeded) <= MaxMembers
    PROVE  LET rows == {[id |-> i, community |-> C!SetToSeq(Seeded)[i], user |-> Founder, role |-> "owner"] :
                            i \in 1..Cardinality(Seeded)}
           IN /\ rows \subseteq C!Member /\ \A m \in rows : m.community \in Seeded
              /\ Cardinality(rows) \in 0..MaxMembers
<1> DEFINE n == Cardinality(Seeded)
           seq == C!SetToSeq(Seeded)
           Row(i) == [id |-> i, community |-> seq[i], user |-> Founder, role |-> "owner"]
           rows == {Row(i) : i \in 1..n}
           f == [i \in 1..n |-> Row(i)]
<1>1. n \in Nat /\ MaxMembers \in Nat /\ n <= MaxMembers /\ ExistsBijection(1..n, Seeded)
  BY FS_CardinalityType DEF C!CommunityAssumption
<1>2. seq \in [1..n -> Seeded]
  <2>1. \E g \in [1..n -> Seeded] : C!IsInjective(g)
    BY <1>1 DEF ExistsBijection, Bijection, Injection, IsInjective, C!IsInjective
  <2>2. seq = CHOOSE g \in [1..n -> Seeded] : C!IsInjective(g)
    BY OwnFiniteSets DEF C!SetToSeq
  <2> QED
    BY <2>1, <2>2
<1> HIDE DEF n, seq
<1>3. \A i \in 1..n : Row(i) \in C!Member /\ Row(i).community \in Seeded
  BY <1>1, <1>2 DEF C!Member, C!CommunityAssumption, C!Roles
<1> HIDE DEF Row
<1>4. f \in Surjection(1..n, rows)
  BY DEF Surjection
<1>5. IsFiniteSet(1..n) /\ Cardinality(1..n) = n
  BY <1>1, FS_Interval
<1>6. IsFiniteSet(rows) /\ Cardinality(rows) <= n
  BY <1>4, <1>5, FS_Surjection
<1>7. Cardinality(rows) \in Nat
  BY <1>6, FS_CardinalityType
<1> QED
  BY <1>1, <1>3, <1>6, <1>7 DEF n, seq, Row

LEMMA CommunityInit ==
    ASSUME C!CommunityAssumption, C!Init
    PROVE  CommunityInv
<1>1. handling \in [Callers -> C!Call] /\ \A c \in Callers : CommunityCall(handling[c])
  BY QuietFacts DEF C!Init
<1>2. /\ communities \in [Slugs -> C!Community \cup {C!Missing}]
      /\ backend = "memory" => \A s \in Seeded : C!Exists(s)
  BY DEF C!Init, C!CommunityAssumption, C!Community, C!Missing, C!Exists
<1>3. /\ C!SeededPosts \in Seq(C!Post) /\ Len(C!SeededPosts) \in Nat
  <2> DEFINE s == CHOOSE s \in Visible : TRUE
             post == [community |-> s, by |-> Founder, status |-> "approved"]
  <2>1. s \in Slugs /\ Founder \in Users
    BY DEF C!CommunityAssumption
  <2>2. C!SeededPosts = IF backend = "memory" THEN <<post>> ELSE <<>>
    BY DEF C!SeededPosts
  <2> HIDE DEF s
  <2>3. post \in C!Post
    BY <2>1 DEF C!Post
  <2> HIDE DEF post
  <2> QED
    BY <2>2, <2>3
<1>4. posts \in Seq(C!Post) /\ Len(posts) <= MaxPosts + Len(C!SeededPosts)
  BY <1>3 DEF C!Init, C!CommunityAssumption
<1>5. issued = Cardinality(members) /\ backend \in Backends /\ MaxMembers \in Nat
  BY OwnFiniteSets DEF C!Init, C!CommunityAssumption
<1>6. CASE backend # "memory"
  <2>1. members = {} /\ issued = 0
    BY <1>5, <1>6, FS_EmptySet DEF C!Init
  <2> QED
    BY <1>1, <1>2, <1>4, <1>5, <2>1 DEF CommunityInv, C!TypeOK
<1>7. CASE backend = "memory"
  <2>1. IsFiniteSet(Seeded) /\ Cardinality(Seeded) <= MaxMembers
    BY <1>5, <1>7, OwnFiniteSets DEF C!CommunityAssumption
  <2>2. members = {[id |-> i, community |-> C!SetToSeq(Seeded)[i], user |-> Founder, role |-> "owner"] :
                      i \in 1..Cardinality(Seeded)}
    BY <1>7, OwnFiniteSets DEF C!Init
  <2>3. members \subseteq C!Member /\ Cardinality(members) \in 0..MaxMembers /\ \A m \in members : m.community \in Seeded
    BY <2>1, <2>2, SeededMembers
  <2> QED
    BY <1>1, <1>2, <1>4, <1>5, <1>7, <2>3 DEF CommunityInv, C!TypeOK
<1> QED
  BY <1>6, <1>7

-----------------------------------------------------------------------------
(* The oracle's chain: the inductive invariant *)

\* A call on its way to assert the truth of k.
Claims(x, k) ==
    x.candidate = k /\ (x.op = "preflight" \/ (x.op \in {"nonce", "send"} /\ x.id # O!NoId))

Sends(h, k) == h \in DOMAIN sent /\ sent[h].kind = "assert" /\ sent[h].candidate = k

\* A candidate is asserted once: by one call, and then by one transaction.
OneAssertion ==
    \A k \in Candidates :
        /\ \A c, d \in Callers : Claims(asking[c], k) /\ Claims(asking[d], k) => c = d
        /\ \A c \in Callers : Claims(asking[c], k) => \A h : ~Sends(h, k)
        /\ \A h, g : Sends(h, k) /\ Sends(g, k) => h = g

\* The contract has what the confirmed transactions asserted, and nothing else.
ContractFacts ==
    /\ \A h \in DOMAIN sent : sent[h].kind = "assert" =>
           /\ sent[h].candidate \in Candidates
           /\ sent[h].state = "confirmed" => sent[h].made \in O!Ids /\ assertions[sent[h].made].made
    /\ \A k \in Candidates : \A t \in O!Times :
           assertions[<<k, t>>].made => \E h : Sends(h, k) /\ sent[h].state = "confirmed"

Mined == {h \in DOMAIN sent : sent[h].state \in {"confirmed", "failed"}}

\* What a payload of k may say, now and ever after.
Recorded(k, p) ==
    /\ p.hash # 0 => Sends(p.hash, k)
    /\ p.status = "confirmed" => p.hash # 0 /\ sent[p.hash].state = "confirmed" /\ p.id = sent[p.hash].made
    /\ p.status = "failed" => p.hash # 0 /\ sent[p.hash].state = "failed"
    /\ p.state # "none" => /\ p.status = "confirmed" /\ assertions[p.id].made
                           /\ p.state = "disputed" => assertions[p.id].disputed
                           /\ p.state = "settled_true" => assertions[p.id].settled /\ assertions[p.id].resolution
                           /\ p.state = "settled_false" => assertions[p.id].settled /\ ~assertions[p.id].resolution

OracleCall(x) ==
    /\ x.op = "approve" => x.id = O!NoId
    /\ \A k : Claims(x, k) => k \in Candidates
    /\ x.op \in {"receipt", "state", "write"} =>
           x.candidate \in Candidates /\ x.payload.hash # 0 /\ Recorded(x.candidate, x.payload)
    /\ x.op = "state" => x.payload.status = "confirmed"

OracleInv ==
    /\ O!OracleClientAssumption /\ O!TypeOK
    /\ OneAssertion /\ ContractFacts
    /\ chain.nonce = Cardinality(Mined)
    /\ \A k \in Candidates : Recorded(k, payloads[k])
    /\ \A c \in Callers : OracleCall(asking[c])

-----------------------------------------------------------------------------
(* The oracle's chain: every step keeps it *)

\* What was mined and what the contract has stay what they are, but for an
\* assertion that goes on.
Advances ==
    /\ DOMAIN sent \subseteq DOMAIN sent'
    /\ \A h \in DOMAIN sent :
           /\ sent'[h].kind = sent[h].kind /\ sent'[h].candidate = sent[h].candidate
           /\ sent[h].state \in {"confirmed", "failed"} => sent'[h] = sent[h]
    /\ \A id \in O!Ids :
           /\ assertions[id].made => assertions'[id].made
           /\ assertions[id].disputed => assertions'[id].disputed
           /\ assertions[id].settled => assertions'[id].settled /\ assertions'[id].resolution = assertions[id].resolution

LEMMA RecordedStays ==
    ASSUME ContractFacts, Advances, NEW k, NEW p, Recorded(k, p)
    PROVE  Recorded(k, p)'
<1>1. p.hash # 0 => Sends(p.hash, k) /\ Sends(p.hash, k)'
  BY DEF Recorded, Sends, Advances
<1>2. p.status = "confirmed" =>
          /\ p.hash # 0 /\ sent'[p.hash].state = "confirmed" /\ p.id = sent'[p.hash].made /\ p.id \in O!Ids
  BY <1>1 DEF Recorded, Sends, Advances, ContractFacts
<1>3. p.status = "failed" => p.hash # 0 /\ sent'[p.hash].state = "failed"
  BY <1>1 DEF Recorded, Sends, Advances
<1>4. ASSUME p.state # "none"
      PROVE  /\ p.status = "confirmed" /\ assertions'[p.id].made
             /\ p.state = "disputed" => assertions'[p.id].disputed
             /\ p.state = "settled_true" => assertions'[p.id].settled /\ assertions'[p.id].resolution
             /\ p.state = "settled_false" => assertions'[p.id].settled /\ ~assertions'[p.id].resolution
  <2>1. p.id \in O!Ids
    BY <1>2, <1>4 DEF Recorded
  <2> QED
    BY <1>4, <2>1 DEF Recorded, Advances
<1> QED
  BY <1>1, <1>2, <1>3, <1>4 DEF Recorded

LEMMA OracleCallStays ==
    ASSUME ContractFacts, Advances, NEW x, OracleCall(x)
    PROVE  OracleCall(x)'
<1>1. x.op \in {"receipt", "state", "write"} => Recorded(x.candidate, x.payload)'
  <2>1. PICK k, p : k = x.candidate /\ p = x.payload
    OBVIOUS
  <2> QED
    BY <2>1, RecordedStays DEF OracleCall
<1> QED
  BY <1>1 DEF OracleCall, Claims

LEMMA RestingFacts ==
    ASSUME O!OracleClientAssumption
    PROVE  /\ O!NoPayload \in O!Payload /\ O!Resting \in O!Call
           /\ O!Resting = [op |-> "none", candidate |-> None, id |-> O!NoId, amount |-> 0, nonce |-> 0,
                           payload |-> O!NoPayload]
           /\ OracleCall(O!Resting) /\ \A k : ~Claims(O!Resting, k)
<1>1. O!NoPayload \in O!Payload
  BY DEF O!OracleClientAssumption, O!NoPayload, O!Payload
<1>2. O!Resting \in O!Call
  BY <1>1 DEF O!Resting, O!Call
<1>3. \A k : ~Claims(O!Resting, k)
  BY DEF Claims, O!Resting
<1> QED
  BY <1>1, <1>2, <1>3 DEF OracleCall, O!Resting

\* A step of one call that leaves the chain alone.
LEMMA AskingKeeps ==
    ASSUME OracleInv, NEW c \in Callers, NEW x \in O!Call, OracleCall(x),
           \A k \in Candidates :
               Claims(x, k) => \/ Claims(asking[c], k)
                               \/ (\A d \in Callers : ~Claims(asking[d], k)) /\ \A h : ~Sends(h, k),
           asking' = [asking EXCEPT ![c] = x], UNCHANGED <<mode, chain, sent, assertions>>,
           payloads' \in [Candidates -> O!Payload],
           \A k \in Candidates : payloads'[k].hash \in {0} \cup DOMAIN sent /\ Recorded(k, payloads'[k])
    PROVE  OracleInv'
<1>1. asking'[c] = x /\ \A d \in Callers \ {c} : asking'[d] = asking[d]
  BY DEF OracleInv, O!TypeOK
<1>2. O!OracleClientAssumption' /\ O!TypeOK'
  <2>1. asking' \in [Callers -> O!Call]
    BY DEF OracleInv, O!TypeOK
  <2> QED
    BY <2>1 DEF OracleInv, O!TypeOK, O!OracleClientAssumption
<1>3. OneAssertion'
  <2>1. \A k, h : Sends(h, k)' <=> Sends(h, k)
    BY DEF Sends
  <2>2. ASSUME NEW k \in Candidates, NEW d \in Callers, Claims(asking'[d], k)
        PROVE  /\ \/ Claims(asking[d], k)
                  \/ d = c /\ \A e \in Callers : ~Claims(asking[e], k)
               /\ \A h : ~Sends(h, k)
    BY <1>1, <2>2 DEF OracleInv, OneAssertion
  <2>3. \A k \in Candidates : \A d, e \in Callers : Claims(asking'[d], k) /\ Claims(asking'[e], k) => d = e
    BY <2>2 DEF OracleInv, OneAssertion
  <2>4. \A k \in Candidates : \A h, g : Sends(h, k) /\ Sends(g, k) => h = g
    BY DEF OracleInv, OneAssertion
  <2>5. \A k : \A d : Claims(asking[d], k)' <=> Claims(asking'[d], k)
    BY DEF Claims
  <2> QED
    BY <2>1, <2>2, <2>3, <2>4, <2>5 DEF OneAssertion
<1>4. ContractFacts' /\ chain'.nonce = Cardinality(Mined)'
  BY DEF OracleInv, ContractFacts, Sends, Mined
<1>5. \A k, p : Recorded(k, p)' <=> Recorded(k, p)
  BY DEF Recorded, Sends
<1>6. \A k \in Candidates : Recorded(k, payloads[k])'
  BY <1>5 DEF Recorded, Sends
<1>7. \A d \in Callers : OracleCall(asking[d])'
  <2>1. \A y : OracleCall(y)' <=> OracleCall(y)
    BY <1>5 DEF OracleCall
  <2>2. \A d \in Callers : OracleCall(asking'[d])
    BY <1>1 DEF OracleInv
  <2> QED
    BY <2>1, <2>2
<1> QED
  BY <1>2, <1>3, <1>4, <1>6, <1>7 DEF OracleInv

\* A call that reads or writes no payload, or ends.
LEMMA CallKeeps ==
    ASSUME OracleInv, NEW c \in Callers, NEW x \in O!Call, OracleCall(x),
           \A k \in Candidates :
               Claims(x, k) => \/ Claims(asking[c], k)
                               \/ (\A d \in Callers : ~Claims(asking[d], k)) /\ \A h : ~Sends(h, k),
           asking' = [asking EXCEPT ![c] = x], UNCHANGED <<mode, chain, sent, assertions, payloads>>
    PROVE  OracleInv'
<1>1. payloads' \in [Candidates -> O!Payload]
  BY DEF OracleInv, O!TypeOK
<1>2. \A k \in Candidates : payloads'[k].hash \in {0} \cup DOMAIN sent /\ Recorded(k, payloads'[k])
  BY DEF OracleInv, O!TypeOK
<1> QED
  BY <1>1, <1>2, AskingKeeps

LEMMA OracleEndsKeeps ==
    ASSUME OracleInv, NEW c \in Callers, O!Ends(c), UNCHANGED <<mode, chain, sent, assertions, payloads>>
    PROVE  OracleInv'
BY RestingFacts, CallKeeps DEF OracleInv, O!Ends

\* A candidate of which neither a call nor a transaction is on its way.
LEMMA NewCandidateFacts ==
    ASSUME NEW k, O!NewCandidate(k)
    PROVE  (\A d \in Callers : ~Claims(asking[d], k)) /\ \A h : ~Sends(h, k)
BY DEF O!NewCandidate, Claims, Sends

LEMMA AsksKeeps ==
    ASSUME OracleInv, NEW c \in Callers,
           \/ \E target \in Targets : O!ApproveBondAllowance(c, target)
           \/ \E k \in Candidates : O!BeginResolution(c, k) \/ O!Reconcile(c, k)
    PROVE  OracleInv'
<1>1. ASSUME NEW target \in Targets, O!ApproveBondAllowance(c, target)
      PROVE  OracleInv'
  <2> DEFINE x == [O!Resting EXCEPT !.op = "approve", !.amount = target]
  <2>1. x \in O!Call /\ x.op = "approve" /\ x.id = O!NoId
    <3>1. target \in Nat
      BY DEF OracleInv, O!OracleClientAssumption
    <3>2. O!Resting \in O!Call /\ O!Resting.id = O!NoId
      BY RestingFacts DEF OracleInv
    <3> QED
      BY <3>1, <3>2 DEF O!Call
  <2>2. asking' = [asking EXCEPT ![c] = x] /\ UNCHANGED <<mode, chain, sent, assertions, payloads>>
    BY <1>1 DEF O!ApproveBondAllowance, O!Asks
  <2> HIDE DEF x
  <2>3. OracleCall(x) /\ \A k : ~Claims(x, k)
    BY <2>1 DEF OracleCall, Claims
  <2> QED
    BY <2>1, <2>2, <2>3, CallKeeps
<1>2. ASSUME NEW k \in Candidates, O!BeginResolution(c, k)
      PROVE  OracleInv'
  <2> DEFINE x == [O!Resting EXCEPT !.op = "preflight", !.candidate = k]
  <2>1. x \in O!Call /\ x.op = "preflight" /\ x.candidate = k
    BY RestingFacts DEF OracleInv, O!Call
  <2>2. asking' = [asking EXCEPT ![c] = x] /\ UNCHANGED <<mode, chain, sent, assertions, payloads>>
    BY <1>2 DEF O!BeginResolution, O!Asks
  <2>3. (\A d \in Callers : ~Claims(asking[d], k)) /\ \A h : ~Sends(h, k)
    BY <1>2, NewCandidateFacts DEF O!BeginResolution
  <2> HIDE DEF x
  <2>4. OracleCall(x) /\ \A l : Claims(x, l) => l = k
    BY <2>1 DEF OracleCall, Claims
  <2> QED
    BY <2>1, <2>2, <2>3, <2>4, CallKeeps
<1>3. ASSUME NEW k \in Candidates, O!Reconcile(c, k)
      PROVE  OracleInv'
  <2>1. PICK p \in O!Payload : p = payloads[k]
    BY DEF OracleInv, O!TypeOK
  <2> DEFINE x == [O!Resting EXCEPT !.op = "receipt", !.candidate = k, !.payload = p]
  <2>2. x \in O!Call /\ x.op = "receipt" /\ x.candidate = k /\ x.payload = p
    BY RestingFacts DEF OracleInv, O!Call
  <2>3. /\ asking' = [asking EXCEPT ![c] = x] /\ UNCHANGED <<mode, chain, sent, assertions, payloads>>
        /\ p.hash # 0 /\ Recorded(k, p)
    BY <1>3, <2>1 DEF O!Reconcile, O!Asks, OracleInv
  <2> HIDE DEF x
  <2>4. OracleCall(x) /\ \A l : ~Claims(x, l)
    BY <2>2, <2>3 DEF OracleCall, Claims
  <2> QED
    BY <2>2, <2>3, <2>4, CallKeeps
<1> QED
  BY <1>1, <1>2, <1>3

\* What a call holds, as constants that a step can be compared with.
LEMMA OracleCallFacts ==
    ASSUME OracleInv, NEW c \in Callers
    PROVE  asking[c] \in O!Call /\ OracleCall(asking[c])
BY DEF OracleInv, O!TypeOK

LEMMA ReadAllowanceKeeps ==
    ASSUME OracleInv, NEW c \in Callers, O!ReadAllowance(c)
    PROVE  OracleInv'
<1>1. PICK y \in O!Call : y = asking[c] /\ OracleCall(y)
  BY OracleCallFacts
<1> DEFINE x == [y EXCEPT !.op = "nonce"]
<1>2. x \in O!Call /\ x.op = "nonce" /\ x.id = O!NoId
  BY <1>1 DEF O!Call, O!ReadAllowance, OracleCall
<1>3. CASE O!Ends(c)
  BY <1>3, OracleEndsKeeps DEF O!ReadAllowance
<1>4. CASE ~O!Ends(c)
  <2>1. asking' = [asking EXCEPT ![c] = x] /\ UNCHANGED <<mode, chain, sent, assertions, payloads>>
    BY <1>1, <1>4 DEF O!ReadAllowance, OracleInv, O!TypeOK
  <2> HIDE DEF x
  <2>2. OracleCall(x) /\ \A k : ~Claims(x, k)
    BY <1>2 DEF OracleCall, Claims
  <2> QED
    BY <1>2, <2>1, <2>2, CallKeeps
<1> QED
  BY <1>3, <1>4

LEMMA PreflightKeeps ==
    ASSUME OracleInv, NEW c \in Callers, O!Preflight(c)
    PROVE  OracleInv'
<1>1. PICK y \in O!Call : y = asking[c] /\ OracleCall(y)
  BY OracleCallFacts
<1>2. PICK t \in O!Times : t = chain.time
  BY DEF OracleInv, O!TypeOK
<1> DEFINE k == y.candidate
           x == [y EXCEPT !.op = "nonce", !.id = <<k, t>>]
<1>3. k \in Candidates /\ Claims(y, k)
  BY <1>1 DEF O!Preflight, OracleCall, Claims
<1>4. x \in O!Call /\ x.op = "nonce" /\ x.candidate = k
  BY <1>3 DEF O!Call, O!Ids
<1>5. CASE O!Ends(c)
  BY <1>5, OracleEndsKeeps DEF O!Preflight
<1>6. CASE ~O!Ends(c)
  <2>1. asking' = [asking EXCEPT ![c] = x] /\ UNCHANGED <<mode, chain, sent, assertions, payloads>>
    BY <1>1, <1>2, <1>6 DEF O!Preflight, OracleInv, O!TypeOK
  <2> HIDE DEF x
  <2>2. OracleCall(x) /\ \A l : Claims(x, l) => l = k
    BY <1>3, <1>4 DEF OracleCall, Claims
  <2> QED
    BY <1>1, <1>3, <1>4, <2>1, <2>2, CallKeeps
<1> QED
  BY <1>5, <1>6

LEMMA PendingNonceType ==
    ASSUME OracleInv
    PROVE  O!PendingNonce \in Nat
<1> DEFINE waiting == {h \in DOMAIN sent : sent[h].state = "pending"}
<1>1. IsFiniteSet(DOMAIN sent)
  <2>1. DOMAIN sent = 1..Len(sent) /\ Len(sent) \in Nat
    BY DEF OracleInv, O!TypeOK
  <2> QED
    BY <2>1, FS_Interval
<1>2. Cardinality(waiting) \in Nat
  BY <1>1, FS_Subset, FS_CardinalityType
<1>3. O!PendingNonce = chain.nonce + Cardinality(waiting)
  BY OwnFiniteSets DEF O!PendingNonce
<1>4. chain.nonce \in Nat
  BY DEF OracleInv, O!TypeOK
<1> HIDE DEF waiting
<1> QED
  BY <1>2, <1>3, <1>4

LEMMA ReadNonceKeeps ==
    ASSUME OracleInv, NEW c \in Callers, O!ReadNonce(c)
    PROVE  OracleInv'
<1>1. PICK y \in O!Call : y = asking[c] /\ OracleCall(y)
  BY OracleCallFacts
<1>2. PICK n \in Nat : n = O!PendingNonce
  BY PendingNonceType
<1> DEFINE x == [y EXCEPT !.op = "send", !.nonce = n]
<1>3. /\ x \in O!Call /\ x.op = "send" /\ x.candidate = y.candidate /\ x.id = y.id
      /\ y.op = "nonce"
  BY <1>1 DEF O!Call, O!ReadNonce
<1>4. asking' = [asking EXCEPT ![c] = x] /\ UNCHANGED <<mode, chain, sent, assertions, payloads>>
  BY <1>1, <1>2 DEF O!ReadNonce, OracleInv, O!TypeOK
<1> HIDE DEF x
<1>5. OracleCall(x) /\ \A k : Claims(x, k) => Claims(y, k)
  BY <1>1, <1>3 DEF OracleCall, Claims
<1> QED
  BY <1>1, <1>3, <1>4, <1>5, CallKeeps

LEMMA ReadReceiptKeeps ==
    ASSUME OracleInv, NEW c \in Callers, O!ReadReceipt(c)
    PROVE  OracleInv'
<1>1. PICK y \in O!Call : y = asking[c] /\ OracleCall(y)
  BY OracleCallFacts
<1>2. PICK k \in Candidates \cup {None}, p \in O!Payload : k = y.candidate /\ p = y.payload
  BY DEF O!Call
<1>3. k \in Candidates /\ p.hash # 0 /\ Recorded(k, p) /\ Sends(p.hash, k)
  BY <1>1, <1>2 DEF O!ReadReceipt, OracleCall, Recorded
<1>4. PICK tx \in O!Transactions : tx = sent[p.hash]
  BY <1>3, LenProperties, ElementOfSeq DEF OracleInv, O!TypeOK, Sends
<1> DEFINE q == CASE tx.state = "confirmed" -> [p EXCEPT !.status = "confirmed", !.id = tx.made]
                  [] tx.state = "failed" -> [p EXCEPT !.status = "failed"]
                  [] OTHER -> [p EXCEPT !.status = "submitted"]
           x == [y EXCEPT !.op = IF tx.state = "confirmed" THEN "state" ELSE "write", !.payload = q]
<1>5. /\ q \in O!Payload /\ q.hash = p.hash /\ q.state = p.state
      /\ tx.state = "confirmed" => q.status = "confirmed" /\ q.id = tx.made
      /\ tx.state = "failed" => q.status = "failed" /\ q.id = p.id
      /\ tx.state \notin {"confirmed", "failed"} => q.status = "submitted" /\ q.id = p.id
  BY <1>4 DEF O!Payload, O!Transactions
<1>6. asking' = [asking EXCEPT ![c] = x] /\ UNCHANGED <<mode, chain, sent, assertions, payloads>>
  BY <1>1, <1>2, <1>4 DEF O!ReadReceipt, O!IdOfReceipt, OracleInv, O!TypeOK
<1> HIDE DEF q
<1>7. /\ x \in O!Call /\ x.candidate = k /\ x.payload = q
      /\ x.op = IF tx.state = "confirmed" THEN "state" ELSE "write"
  BY <1>2, <1>5 DEF O!Call
<1> HIDE DEF x
<1>8. Recorded(k, q)
  BY <1>3, <1>4, <1>5 DEF Recorded
<1>9. OracleCall(x) /\ \A l : ~Claims(x, l)
  BY <1>3, <1>5, <1>7, <1>8 DEF OracleCall, Claims
<1> QED
  BY <1>6, <1>7, <1>9, CallKeeps

\* An answer of the contract for an assertion that it has.
LEMMA StateOfAssertion ==
    ASSUME NEW a \in O!Assertion, NEW state, state = O!DeriveOnchainAssertionState(a)
    PROVE  /\ state \in {"asserted", "disputed", "settled_true", "settled_false"}
           /\ state = "disputed" => a.disputed
           /\ state = "settled_true" => a.settled /\ a.resolution
           /\ state = "settled_false" => a.settled /\ ~a.resolution
BY DEF O!Assertion, O!DeriveOnchainAssertionState

LEMMA ReadAssertionKeeps ==
    ASSUME OracleInv, NEW c \in Callers, O!ReadAssertion(c)
    PROVE  OracleInv'
<1>1. PICK y \in O!Call : y = asking[c] /\ OracleCall(y)
  BY OracleCallFacts
<1>2. PICK k \in Candidates \cup {None}, p \in O!Payload : k = y.candidate /\ p = y.payload
  BY DEF O!Call
<1>3. /\ k \in Candidates /\ p.hash # 0 /\ Recorded(k, p) /\ p.status = "confirmed"
      /\ Sends(p.hash, k) /\ sent[p.hash].state = "confirmed" /\ p.id = sent[p.hash].made
  BY <1>1, <1>2 DEF O!ReadAssertion, OracleCall, Recorded
<1>4. p.id \in O!Ids /\ assertions[p.id].made
  BY <1>3 DEF OracleInv, ContractFacts, Sends
<1>5. PICK a \in O!Assertion : a = assertions[p.id]
  BY <1>4 DEF OracleInv, O!TypeOK
<1>6. PICK state : state = O!DeriveOnchainAssertionState(a)
  OBVIOUS
<1>7. /\ state \in {"asserted", "disputed", "settled_true", "settled_false"}
      /\ state = "disputed" => a.disputed
      /\ state = "settled_true" => a.settled /\ a.resolution
      /\ state = "settled_false" => a.settled /\ ~a.resolution
  BY <1>6, StateOfAssertion
<1> DEFINE q == [p EXCEPT !.state = state]
           x == [y EXCEPT !.op = "write", !.payload = q]
<1>8. q \in O!Payload /\ q.hash = p.hash /\ q.state = state /\ q.status = "confirmed" /\ q.id = p.id
  BY <1>3, <1>7 DEF O!Payload
<1>9. asking' = [asking EXCEPT ![c] = x] /\ UNCHANGED <<mode, chain, sent, assertions, payloads>>
  <2>1. DOMAIN asking = Callers
    BY DEF OracleInv, O!TypeOK
  <2>2. asking' = [asking EXCEPT ![c] = [asking[c] EXCEPT !.op = "write",
                                                          !.payload = [asking[c].payload EXCEPT !.state = state]]]
    BY <1>1, <1>2, <1>5, <1>6, <2>1 DEF O!ReadAssertion
  <2>3. UNCHANGED <<mode, chain, sent, assertions, payloads>>
    BY DEF O!ReadAssertion
  <2> QED
    BY <1>1, <1>2, <2>2, <2>3
<1> HIDE DEF q
<1>10. x \in O!Call /\ x.candidate = k /\ x.payload = q /\ x.op = "write"
  BY <1>2, <1>8 DEF O!Call
<1> HIDE DEF x
<1>11. Recorded(k, q)
  BY <1>3, <1>4, <1>5, <1>7, <1>8 DEF Recorded
<1>12. OracleCall(x) /\ \A l : ~Claims(x, l)
  BY <1>3, <1>8, <1>10, <1>11 DEF OracleCall, Claims
<1> QED
  BY <1>9, <1>10, <1>12, CallKeeps

LEMMA WriteReconciledKeeps ==
    ASSUME OracleInv, NEW c \in Callers, O!WriteReconciled(c)
    PROVE  OracleInv'
<1>1. PICK y \in O!Call : y = asking[c] /\ OracleCall(y)
  BY OracleCallFacts
<1>2. PICK k \in Candidates \cup {None}, p \in O!Payload : k = y.candidate /\ p = y.payload
  BY DEF O!Call
<1>3. k \in Candidates /\ p.hash \in DOMAIN sent /\ Recorded(k, p)
  BY <1>1, <1>2 DEF O!WriteReconciled, OracleCall, Recorded, Sends
<1>4. /\ payloads' = [payloads EXCEPT ![k] = p] /\ asking' = [asking EXCEPT ![c] = O!Resting]
      /\ UNCHANGED <<mode, chain, sent, assertions>>
  BY <1>1, <1>2 DEF O!WriteReconciled, O!Ends
<1>5. payloads' \in [Candidates -> O!Payload]
  BY <1>2, <1>4 DEF OracleInv, O!TypeOK
<1>6. \A l \in Candidates : payloads'[l].hash \in {0} \cup DOMAIN sent /\ Recorded(l, payloads'[l])
  <2>1. \A l \in Candidates : payloads'[l] = IF l = k THEN p ELSE payloads[l]
    BY <1>3, <1>4 DEF OracleInv, O!TypeOK
  <2> QED
    BY <1>3, <2>1 DEF OracleInv, O!TypeOK
<1> QED
  BY <1>4, <1>5, <1>6, RestingFacts, AskingKeeps DEF OracleInv

LEMMA BeginSimulatedKeeps ==
    ASSUME OracleInv, NEW k \in Candidates, O!BeginSimulated(k)
    PROVE  OracleInv'
<1>1. PICK p \in O!Payload : p = payloads[k]
  BY DEF OracleInv, O!TypeOK
<1> DEFINE q == [p EXCEPT !.status = "simulated"]
<1>2. /\ q \in O!Payload /\ q.hash = p.hash /\ q.state = p.state /\ q.status = "simulated" /\ p.status = "none"
  BY <1>1 DEF O!Payload, O!BeginSimulated, O!NewCandidate
<1>3. payloads' = [payloads EXCEPT ![k] = q] /\ UNCHANGED <<mode, chain, sent, assertions, asking>>
  BY <1>1 DEF O!BeginSimulated, OracleInv, O!TypeOK
<1> HIDE DEF q
<1>4. Recorded(k, p) /\ p.hash \in {0} \cup DOMAIN sent
  BY <1>1 DEF OracleInv, O!TypeOK
<1>5. Recorded(k, q)
  BY <1>2, <1>4 DEF Recorded
<1>6. \A l \in Candidates : payloads'[l] = IF l = k THEN q ELSE payloads[l]
  BY <1>3 DEF OracleInv, O!TypeOK
<1>7. \A l \in Candidates : payloads[l]' \in O!Payload /\ payloads'[l].hash \in {0} \cup DOMAIN sent /\ Recorded(l, payloads'[l])
  BY <1>2, <1>4, <1>5, <1>6 DEF OracleInv, O!TypeOK
<1>8. payloads' \in [Candidates -> O!Payload]
  BY <1>2, <1>3 DEF OracleInv, O!TypeOK
<1>9. O!OracleClientAssumption' /\ O!TypeOK'
  BY <1>3, <1>7, <1>8 DEF OracleInv, O!OracleClientAssumption, O!TypeOK
<1>10. OneAssertion' /\ ContractFacts' /\ chain'.nonce = Cardinality(Mined)'
  BY <1>3 DEF OracleInv, OneAssertion, ContractFacts, Mined, Sends, Claims
<1>11. \A l \in Candidates : Recorded(l, payloads[l])'
  BY <1>3, <1>7 DEF Recorded, Sends
<1>12. \A l, y : Recorded(l, y)' <=> Recorded(l, y)
  BY <1>3 DEF Recorded, Sends
<1>13. \A c \in Callers : OracleCall(asking[c])'
  BY <1>3, <1>12 DEF OracleInv, OracleCall, Claims
<1> QED
  BY <1>9, <1>10, <1>11, <1>13 DEF OracleInv

-----------------------------------------------------------------------------
(* The oracle's chain: transactions *)

\* The chain goes on, no call is answered.
LEMMA ChainKeeps ==
    ASSUME OracleInv, Advances, O!TypeOK', ContractFacts', chain'.nonce = Cardinality(Mined)',
           DOMAIN sent' = DOMAIN sent, UNCHANGED <<mode, payloads, asking>>
    PROVE  OracleInv'
<1>1. O!OracleClientAssumption'
  BY DEF OracleInv, O!OracleClientAssumption
<1>2. \A h, k : Sends(h, k)' <=> Sends(h, k)
  BY DEF Sends, Advances
<1>3. OneAssertion'
  BY <1>2 DEF OracleInv, OneAssertion, Claims
<1>4. ASSUME NEW k \in Candidates
      PROVE  Recorded(k, payloads[k])'
  <2>1. PICK p : p = payloads[k]
    OBVIOUS
  <2>2. Recorded(k, p)'
    BY <2>1, RecordedStays DEF OracleInv
  <2> QED
    BY <2>1, <2>2
<1>5. ASSUME NEW c \in Callers
      PROVE  OracleCall(asking[c])'
  <2>1. PICK y : y = asking[c]
    OBVIOUS
  <2>2. OracleCall(y)'
    BY <2>1, OracleCallStays DEF OracleInv
  <2> QED
    BY <2>1, <2>2
<1> QED
  BY <1>1, <1>3, <1>4, <1>5 DEF OracleInv

LEMMA SentFacts ==
    ASSUME OracleInv
    PROVE  /\ Len(sent) \in Nat /\ DOMAIN sent = 1..Len(sent) /\ sent \in [1..Len(sent) -> O!Transactions]
           /\ IsFiniteSet(Mined) /\ Cardinality(Mined) \in Nat
<1>1. Len(sent) \in Nat /\ DOMAIN sent = 1..Len(sent) /\ sent \in [1..Len(sent) -> O!Transactions]
  BY LenProperties DEF OracleInv, O!TypeOK
<1>2. Mined \subseteq 1..Len(sent)
  BY <1>1 DEF Mined
<1>3. IsFiniteSet(1..Len(sent))
  BY <1>1, FS_Interval
<1>4. IsFiniteSet(Mined)
  BY <1>2, <1>3, FS_Subset
<1> QED
  BY <1>1, <1>4, FS_CardinalityType

\* A transaction that replaces the waiting ones of its nonce.
LEMMA AcceptsFacts ==
    ASSUME OracleInv, NEW tx \in O!Transactions, tx.state = "pending", O!Accepts(tx), UNCHANGED assertions
    PROVE  /\ sent' \in Seq(O!Transactions) /\ Len(sent') = Len(sent) + 1 /\ Len(sent') <= MaxTransactions
           /\ sent'[Len(sent) + 1] = tx /\ Advances /\ Mined' = Mined
           /\ \A h, k : Sends(h, k)' <=> Sends(h, k) \/ (h = Len(sent) + 1 /\ tx.kind = "assert" /\ tx.candidate = k)
<1>0. PICK n \in Nat : n = Len(sent)
  BY SentFacts
<1> DEFINE Replaced(h) == IF h \in O!Rivals(tx.nonce) THEN [sent[h] EXCEPT !.state = "replaced"] ELSE sent[h]
           kept == [h \in DOMAIN sent |-> Replaced(h)]
<1>1. n \in Nat /\ DOMAIN sent = 1..n /\ sent \in [1..n -> O!Transactions]
  BY <1>0, SentFacts
<1>2. ASSUME NEW h \in 1..n
      PROVE  /\ Replaced(h) \in O!Transactions /\ Replaced(h).kind = sent[h].kind
             /\ Replaced(h).candidate = sent[h].candidate
             /\ sent[h].state \in {"confirmed", "failed"} <=> Replaced(h).state \in {"confirmed", "failed"}
             /\ sent[h].state \in {"confirmed", "failed"} => Replaced(h) = sent[h]
  <2>1. sent[h] \in O!Transactions
    BY <1>1
  <2> QED
    BY <2>1 DEF O!Transactions, O!Rivals
<1>3. sent' = Append(kept, tx) /\ n < MaxTransactions
  BY <1>0 DEF O!Accepts
<1> HIDE DEF Replaced
<1>4. kept \in Seq(O!Transactions) /\ Len(kept) = n /\ \A h \in 1..n : kept[h] = Replaced(h)
  <2>1. kept \in [1..n -> O!Transactions]
    BY <1>1, <1>2
  <2> QED
    BY <1>1, <2>1, IsASeq, LenProperties
<1> HIDE DEF kept
<1>5. /\ sent' \in Seq(O!Transactions) /\ Len(sent') = n + 1 /\ sent'[n + 1] = tx
      /\ DOMAIN sent' = 1..(n + 1) /\ \A h \in 1..n : sent'[h] = Replaced(h)
  BY <1>3, <1>4, AppendProperties, LenProperties
<1>6. 1..(n + 1) = (1..n) \cup {n + 1} /\ n + 1 \notin 1..n
  BY <1>1
<1>7. n + 1 <= MaxTransactions
  BY <1>1, <1>3 DEF OracleInv, O!OracleClientAssumption
<1>8. Advances
  BY <1>1, <1>2, <1>5, <1>6 DEF Advances
<1>9. Mined' = Mined
  BY <1>1, <1>2, <1>5, <1>6 DEF Mined
<1>10. \A h, k : Sends(h, k)' <=> Sends(h, k) \/ (h = n + 1 /\ tx.kind = "assert" /\ tx.candidate = k)
  <2>1. \A k : \A h \in 1..n : Sends(h, k)' <=> Sends(h, k)
    BY <1>1, <1>2, <1>5, <1>6 DEF Sends
  <2>2. \A k : Sends(n + 1, k)' <=> tx.kind = "assert" /\ tx.candidate = k
    BY <1>5, <1>6 DEF Sends
  <2>3. \A h, k : (Sends(h, k)' => h \in 1..(n + 1)) /\ (Sends(h, k) => h \in 1..n)
    BY <1>1, <1>5 DEF Sends
  <2> QED
    BY <1>6, <2>1, <2>2, <2>3
<1> QED
  BY <1>0, <1>5, <1>7, <1>8, <1>9, <1>10

\* The transaction of a call that sends, and the payload that names it or does not.
LEMMA SendKeeps ==
    ASSUME OracleInv, NEW c \in Callers, asking[c].op = "send", O!Accepts(O!Transaction(c)), O!Ends(c),
           UNCHANGED <<mode, chain, assertions>>,
           \/ UNCHANGED payloads
           \/ /\ asking[c].id # O!NoId
              /\ payloads' = [payloads EXCEPT ![asking[c].candidate] =
                                 [status |-> "submitted", hash |-> Len(sent) + 1, id |-> asking[c].id, state |-> "none"]]
    PROVE  OracleInv'
<1>1. PICK y \in O!Call : y = asking[c] /\ OracleCall(y)
  BY OracleCallFacts
<1>2. PICK n \in Nat : n = Len(sent)
  BY SentFacts
<1> DEFINE tx == [kind |-> IF y.id = O!NoId THEN "approve" ELSE "assert", nonce |-> y.nonce,
                  candidate |-> y.candidate, amount |-> y.amount, state |-> "pending", made |-> O!NoId]
           k == y.candidate
           p == [status |-> "submitted", hash |-> n + 1, id |-> y.id, state |-> "none"]
<1>3. /\ tx \in O!Transactions /\ tx.state = "pending" /\ tx.candidate = k
      /\ tx.kind = IF y.id = O!NoId THEN "approve" ELSE "assert"
  BY DEF O!Transactions, O!Call
<1>4. O!Accepts(tx)
  BY <1>1 DEF O!Transaction
<1> HIDE DEF tx
<1>5. /\ sent' \in Seq(O!Transactions) /\ Len(sent') = n + 1 /\ Len(sent') <= MaxTransactions
      /\ sent'[n + 1] = tx /\ Advances /\ Mined' = Mined
      /\ \A h, l : Sends(h, l)' <=> Sends(h, l) \/ (h = n + 1 /\ tx.kind = "assert" /\ tx.candidate = l)
  BY <1>2, <1>3, <1>4, AcceptsFacts
<1>6. /\ DOMAIN sent' = 1..(n + 1) /\ DOMAIN sent = 1..n /\ n + 1 \notin 1..n /\ MaxTransactions \in Nat
      /\ 1..(n + 1) = (1..n) \cup {n + 1}
  BY <1>2, <1>5, LenProperties, SentFacts DEF OracleInv, O!OracleClientAssumption
<1>7. /\ asking' \in [Callers -> O!Call] /\ asking'[c] = O!Resting
      /\ \A d \in Callers \ {c} : asking'[d] = asking[d]
  BY RestingFacts DEF OracleInv, O!TypeOK, O!Ends
<1>8. y.op = "send" /\ \A l : tx.kind = "assert" /\ tx.candidate = l => Claims(y, l) /\ l \in Candidates
  BY <1>1, <1>3 DEF OracleCall, Claims
<1>9. OneAssertion'
  <2>1. \A d \in Callers : \A l : Claims(asking[d], l)' => d # c /\ Claims(asking[d], l)
    BY <1>7, RestingFacts DEF OracleInv, Claims
  <2>2. \A l \in Candidates : \A d, e \in Callers : Claims(asking[d], l)' /\ Claims(asking[e], l)' => d = e
    BY <2>1 DEF OracleInv, OneAssertion
  <2>3. ASSUME NEW l \in Candidates, NEW d \in Callers, Claims(asking[d], l)', NEW h
        PROVE  ~Sends(h, l)'
    BY <1>1, <1>5, <1>8, <2>1, <2>3 DEF OracleInv, OneAssertion
  <2>4. ASSUME NEW l \in Candidates, NEW h, NEW g, Sends(h, l)', Sends(g, l)'
        PROVE  h = g
    BY <1>1, <1>5, <1>8, <2>4 DEF OracleInv, OneAssertion
  <2> QED
    BY <2>2, <2>3, <2>4 DEF OneAssertion
<1>10. ContractFacts'
  <2>1. \A h \in DOMAIN sent : /\ sent'[h].kind = sent[h].kind /\ sent'[h].candidate = sent[h].candidate
                               /\ sent[h].state = "confirmed" => sent'[h] = sent[h]
    BY <1>5 DEF Advances
  <2>2. ASSUME NEW h \in DOMAIN sent', sent'[h].kind = "assert"
        PROVE  /\ sent'[h].candidate \in Candidates
               /\ sent'[h].state = "confirmed" => sent'[h].made \in O!Ids /\ assertions'[sent'[h].made].made
    <3>1. CASE h = n + 1
      BY <1>3, <1>5, <1>8, <2>2, <3>1
    <3>2. CASE h \in DOMAIN sent /\ sent[h].state \in {"confirmed", "failed"}
      <4>1. sent'[h] = sent[h] /\ assertions' = assertions
        BY <1>5, <3>2 DEF Advances
      <4> QED
        BY <2>2, <3>2, <4>1 DEF OracleInv, ContractFacts
    <3>3. CASE h \in DOMAIN sent /\ sent[h].state \notin {"confirmed", "failed"}
      <4>1. h \in Mined' <=> h \in Mined
        BY <1>5
      <4>2. sent'[h].state # "confirmed"
        BY <3>3, <4>1 DEF Mined
      <4> QED
        BY <2>1, <2>2, <3>3, <4>2 DEF OracleInv, ContractFacts
    <3> QED
      BY <1>6, <3>1, <3>2, <3>3
  <2>3. ASSUME NEW l \in Candidates, NEW t \in O!Times, assertions'[<<l, t>>].made
        PROVE  \E h : Sends(h, l)' /\ sent'[h].state = "confirmed"
    <3>1. PICK h : Sends(h, l) /\ sent[h].state = "confirmed"
      BY <2>3 DEF OracleInv, ContractFacts
    <3>2. h \in DOMAIN sent
      BY <3>1 DEF Sends
    <3> QED
      BY <1>5, <2>1, <3>1, <3>2
  <2> QED
    BY <2>2, <2>3 DEF ContractFacts
<1>11. O!OracleClientAssumption' /\ chain'.nonce = Cardinality(Mined)'
  BY <1>5 DEF OracleInv, O!OracleClientAssumption
<1>12. ASSUME NEW d \in Callers
       PROVE  OracleCall(asking[d])'
  <2>1. PICK z : z = asking'[d] /\ OracleCall(z)
    BY <1>7, RestingFacts DEF OracleInv
  <2>2. OracleCall(z)'
    BY <1>5, <2>1, OracleCallStays DEF OracleInv
  <2> QED
    BY <2>1, <2>2
<1>13. CASE y.id # O!NoId /\ payloads' = [payloads EXCEPT ![k] = p]
  <2>1. k \in Candidates /\ y.id \in O!Ids /\ tx.kind = "assert"
    BY <1>1, <1>3, <1>8, <1>13 DEF O!Call
  <2>2. p \in O!Payload /\ p.hash = n + 1 /\ p.status = "submitted" /\ p.state = "none"
    BY <1>2, <1>5, <1>6, <2>1 DEF O!Payload
  <2> HIDE DEF p
  <2>3. payloads' \in [Candidates -> O!Payload] /\ \A l \in Candidates : payloads'[l] = IF l = k THEN p ELSE payloads[l]
    BY <1>13, <2>1, <2>2 DEF OracleInv, O!TypeOK
  <2>4. \A l \in Candidates : payloads'[l].hash \in {0} \cup DOMAIN sent'
    BY <1>6, <2>2, <2>3 DEF OracleInv, O!TypeOK
  <2>5. O!TypeOK'
    BY <1>5, <1>7, <2>3, <2>4 DEF OracleInv, O!TypeOK
  <2>6. Recorded(k, p)'
    BY <1>3, <1>5, <2>1, <2>2 DEF Recorded
  <2>7. ASSUME NEW l \in Candidates
        PROVE  Recorded(l, payloads[l])'
    <3>1. PICK q : q = payloads[l] /\ Recorded(l, q)
      BY DEF OracleInv
    <3>2. Recorded(l, q)'
      BY <1>5, <3>1, RecordedStays DEF OracleInv
    <3>3. payloads'[l] = IF l = k THEN p ELSE q
      BY <2>3, <3>1
    <3> QED
      BY <2>6, <3>2, <3>3
  <2> QED
    BY <1>9, <1>10, <1>11, <1>12, <2>5, <2>7 DEF OracleInv
<1>14. CASE UNCHANGED payloads
  <2>1. \A l \in Candidates : payloads'[l].hash \in {0} \cup DOMAIN sent'
    BY <1>6, <1>14 DEF OracleInv, O!TypeOK
  <2>2. O!TypeOK'
    BY <1>5, <1>7, <1>14, <2>1 DEF OracleInv, O!TypeOK
  <2>3. ASSUME NEW l \in Candidates
        PROVE  Recorded(l, payloads[l])'
    <3>1. PICK q : q = payloads[l] /\ Recorded(l, q)
      BY DEF OracleInv
    <3>2. Recorded(l, q)'
      BY <1>5, <3>1, RecordedStays DEF OracleInv
    <3> QED
      BY <1>14, <3>1, <3>2
  <2> QED
    BY <1>9, <1>10, <1>11, <1>12, <2>2, <2>3 DEF OracleInv
<1> QED
  BY <1>1, <1>2, <1>13, <1>14

LEMMA MineKeeps ==
    ASSUME OracleInv, O!Mine
    PROVE  OracleInv'
<1>1. PICK h \in O!Rivals(chain.nonce) :
          LET tx == sent[h]
              id == <<tx.candidate, chain.time>>
              works == tx.kind = "approve" \/ O!Asserts(tx.candidate)
          IN /\ sent' = [sent EXCEPT ![h].state = IF works THEN "confirmed" ELSE "failed",
                                     ![h].made = IF works /\ tx.kind = "assert" THEN id ELSE O!NoId]
             /\ chain' = [chain EXCEPT !.nonce = @ + 1,
                                       !.funds = IF works /\ tx.kind = "assert" THEN @ - Bond ELSE @,
                                       !.allowance = IF tx.kind = "approve" THEN tx.amount
                                                     ELSE IF works THEN @ - Bond ELSE @]
             /\ assertions' = IF works /\ tx.kind = "assert" THEN [assertions EXCEPT ![id].made = TRUE] ELSE assertions
             /\ UNCHANGED <<mode, payloads, asking>>
  BY DEF O!Mine
<1>2. PICK n \in Nat : n = Len(sent) /\ DOMAIN sent = 1..n /\ sent \in [1..n -> O!Transactions]
  BY SentFacts
<1>3. h \in 1..n /\ sent[h].state = "pending"
  BY <1>2 DEF O!Rivals
<1>4. PICK tx \in O!Transactions : tx = sent[h]
  BY <1>2, <1>3
<1>5. PICK t \in O!Times : t = chain.time
  BY DEF OracleInv, O!TypeOK
<1>6. PICK fails \in BOOLEAN : fails = ~(tx.kind = "approve" \/ O!Asserts(tx.candidate))
  OBVIOUS
<1> DEFINE id == <<tx.candidate, t>>
           asserted == tx.kind = "assert" /\ ~fails
           new == [tx EXCEPT !.state = IF fails THEN "failed" ELSE "confirmed", !.made = IF asserted THEN id ELSE O!NoId]
<1>7. tx.kind = "assert" => tx.candidate \in Candidates /\ id \in O!Ids
  BY <1>2, <1>3, <1>4 DEF OracleInv, ContractFacts, O!Ids
<1>8. /\ new \in O!Transactions /\ new.kind = tx.kind /\ new.candidate = tx.candidate
      /\ new.state = (IF fails THEN "failed" ELSE "confirmed") /\ (asserted => new.made = id)
  BY <1>7 DEF O!Transactions
<1>9. sent' = [sent EXCEPT ![h] = new] /\ UNCHANGED <<mode, payloads, asking>>
  BY <1>1, <1>2, <1>3, <1>4, <1>5, <1>6
<1>10. assertions' = IF asserted THEN [assertions EXCEPT ![id].made = TRUE] ELSE assertions
  BY <1>1, <1>4, <1>5, <1>6
<1>11. /\ chain' = [chain EXCEPT !.nonce = @ + 1, !.funds = IF asserted THEN @ - Bond ELSE @,
                                 !.allowance = IF tx.kind = "approve" THEN tx.amount ELSE IF ~fails THEN @ - Bond ELSE @]
       /\ ~fails => tx.kind = "approve" \/ (chain.funds >= Bond /\ chain.allowance >= Bond)
  BY <1>1, <1>4, <1>5, <1>6 DEF O!Asserts
<1> HIDE DEF new, id
<1>12. /\ sent' \in [1..n -> O!Transactions] /\ sent' \in Seq(O!Transactions) /\ Len(sent') = n /\ DOMAIN sent' = 1..n
       /\ sent'[h] = new /\ \A g \in (1..n) \ {h} : sent'[g] = sent[g]
  <2>1. /\ sent' \in [1..n -> O!Transactions] /\ DOMAIN sent' = 1..n
        /\ sent'[h] = new /\ \A g \in (1..n) \ {h} : sent'[g] = sent[g]
    BY <1>2, <1>3, <1>8, <1>9
  <2> QED
    BY <2>1, IsASeq, LenProperties
<1>13. assertions' \in [O!Ids -> O!Assertion] /\ Advances
  <2>1. /\ assertions' \in [O!Ids -> O!Assertion]
        /\ \A i \in O!Ids : /\ assertions[i].made => assertions'[i].made
                            /\ assertions'[i].disputed = assertions[i].disputed
                            /\ assertions'[i].settled = assertions[i].settled
                            /\ assertions'[i].resolution = assertions[i].resolution
    BY <1>7, <1>10 DEF OracleInv, O!TypeOK, O!Assertion
  <2>2. DOMAIN sent \subseteq DOMAIN sent'
    BY <1>2, <1>12
  <2>3. ASSUME NEW g \in DOMAIN sent
        PROVE  /\ sent'[g].kind = sent[g].kind /\ sent'[g].candidate = sent[g].candidate
               /\ sent[g].state \in {"confirmed", "failed"} => sent'[g] = sent[g]
    <3>1. CASE g = h
      BY <1>3, <1>4, <1>8, <1>12, <3>1
    <3>2. CASE g # h
      BY <1>2, <1>12, <3>2
    <3> QED
      BY <3>1, <3>2
  <2> QED
    BY <2>1, <2>2, <2>3 DEF Advances
<1>14. IsFiniteSet(Mined) /\ Mined' = Mined \cup {h} /\ h \notin Mined
  BY <1>2, <1>3, <1>8, <1>12, SentFacts DEF Mined
<1>15. Cardinality(Mined') = chain.nonce + 1 /\ chain.nonce + 1 <= n
  <2>1. Cardinality(Mined') = chain.nonce + 1
    BY <1>14, FS_AddElement DEF OracleInv
  <2>2. Mined' \subseteq 1..n
    BY <1>12 DEF Mined
  <2>3. IsFiniteSet(1..n) /\ Cardinality(1..n) = n
    BY FS_Interval
  <2> QED
    BY <2>1, <2>2, <2>3, FS_Subset
<1>16. O!TypeOK'
  <2>1. chain' \in [time : O!Times, nonce : 0..MaxTransactions, funds : 0..Funds, allowance : Nat]
    <3>1. /\ chain.funds \in 0..Funds /\ chain.allowance \in Nat /\ chain.nonce \in Nat /\ chain.time \in O!Times
          /\ n <= MaxTransactions /\ {Bond, Funds, MaxTransactions} \subseteq Nat /\ tx.amount \in Nat
          /\ chain \in [time : O!Times, nonce : 0..MaxTransactions, funds : 0..Funds, allowance : Nat]
      BY <1>2 DEF OracleInv, O!TypeOK, O!OracleClientAssumption, O!Transactions
    <3>2. chain.nonce + 1 \in 0..MaxTransactions
      BY <1>15, <3>1
    <3>3. (IF asserted THEN chain.funds - Bond ELSE chain.funds) \in 0..Funds
      BY <1>11, <3>1
    <3>4. (IF tx.kind = "approve" THEN tx.amount ELSE IF ~fails THEN chain.allowance - Bond ELSE chain.allowance) \in Nat
      BY <1>11, <3>1
    <3> QED
      BY <1>11, <3>1, <3>2, <3>3, <3>4
  <2> QED
    BY <1>2, <1>9, <1>12, <1>13, <2>1 DEF OracleInv, O!TypeOK
<1>17. ContractFacts'
  <2>1. ASSUME NEW g \in DOMAIN sent', sent'[g].kind = "assert"
        PROVE  /\ sent'[g].candidate \in Candidates
               /\ sent'[g].state = "confirmed" => sent'[g].made \in O!Ids /\ assertions'[sent'[g].made].made
    <3>1. CASE g = h
      <4>1. new.state = "confirmed" => asserted
        BY <1>8, <1>12, <2>1, <3>1
      <4>2. asserted => assertions'[id].made
        BY <1>7, <1>10 DEF OracleInv, O!TypeOK, O!Assertion
      <4> QED
        BY <1>7, <1>8, <1>12, <2>1, <3>1, <4>1, <4>2
    <3>2. CASE g # h
      <4>1. g \in DOMAIN sent /\ sent'[g] = sent[g]
        BY <1>2, <1>12, <2>1, <3>2
      <4> QED
        BY <1>13, <2>1, <4>1 DEF OracleInv, ContractFacts, Advances
    <3> QED
      BY <3>1, <3>2
  <2>2. ASSUME NEW k \in Candidates, NEW s \in O!Times, assertions'[<<k, s>>].made
        PROVE  \E g : Sends(g, k)' /\ sent'[g].state = "confirmed"
    <3>1. CASE assertions[<<k, s>>].made
      <4>1. PICK g : Sends(g, k) /\ sent[g].state = "confirmed"
        BY <3>1 DEF OracleInv, ContractFacts
      <4>2. g \in (1..n) \ {h}
        BY <1>2, <1>3, <4>1 DEF Sends
      <4> QED
        BY <1>2, <1>12, <4>1, <4>2 DEF Sends
    <3>2. CASE ~assertions[<<k, s>>].made
      <4>1. asserted /\ <<k, s>> = id
        BY <1>7, <1>10, <2>2, <3>2 DEF OracleInv, O!TypeOK, O!Assertion, O!Ids
      <4>2. tx.candidate = k
        BY <4>1 DEF id
      <4> QED
        BY <1>3, <1>8, <1>12, <4>1, <4>2 DEF Sends
    <3> QED
      BY <3>1, <3>2
  <2> QED
    BY <2>1, <2>2 DEF ContractFacts
<1>18. chain'.nonce = Cardinality(Mined)' /\ DOMAIN sent' = DOMAIN sent
  <2>1. chain'.nonce = chain.nonce + 1
    BY <1>11 DEF OracleInv, O!TypeOK
  <2> QED
    BY <1>2, <1>12, <1>15, <2>1
<1> QED
  BY <1>9, <1>13, <1>16, <1>17, <1>18, ChainKeeps

LEMMA ChainMovesKeeps ==
    ASSUME OracleInv, NEW id \in O!Ids, O!ChainMoves(id)
    PROVE  OracleInv'
<1>1. PICK a \in O!Assertion : a = assertions[id]
  BY DEF OracleInv, O!TypeOK
<1>2. a.made /\ ~a.settled /\ UNCHANGED <<mode, chain, sent, payloads, asking>>
  BY <1>1 DEF O!ChainMoves
<1>3. PICK b \in O!Assertion :
          assertions' = [assertions EXCEPT ![id] = b] /\ b.made /\ (a.disputed => b.disputed)
  <2>1. CASE assertions' = [assertions EXCEPT ![id].disputed = TRUE]
    <3> DEFINE b == [a EXCEPT !.disputed = TRUE]
    <3>1. b \in O!Assertion /\ b.made /\ b.disputed
      BY <1>2 DEF O!Assertion
    <3>2. assertions' = [assertions EXCEPT ![id] = b]
      BY <1>1, <2>1 DEF OracleInv, O!TypeOK
    <3> QED
      BY <3>1, <3>2
  <2>2. ASSUME NEW r \in BOOLEAN, assertions' = [assertions EXCEPT ![id].settled = TRUE, ![id].resolution = r]
        PROVE  \E b \in O!Assertion :
                   assertions' = [assertions EXCEPT ![id] = b] /\ b.made /\ (a.disputed => b.disputed)
    <3> DEFINE b == [a EXCEPT !.settled = TRUE, !.resolution = r]
    <3>1. b \in O!Assertion /\ b.made = a.made /\ b.disputed = a.disputed
      BY DEF O!Assertion
    <3>2. assertions' = [assertions EXCEPT ![id] = b]
      BY <1>1, <2>2 DEF OracleInv, O!TypeOK
    <3> QED
      BY <1>2, <3>1, <3>2
  <2> QED
    BY <1>1, <2>1, <2>2 DEF O!ChainMoves
<1>4. assertions' \in [O!Ids -> O!Assertion] /\ assertions'[id] = b /\ \A i \in O!Ids \ {id} : assertions'[i] = assertions[i]
  BY <1>3 DEF OracleInv, O!TypeOK
<1>5. Advances
  BY <1>1, <1>2, <1>3, <1>4 DEF Advances
<1>6. O!TypeOK' /\ chain'.nonce = Cardinality(Mined)' /\ DOMAIN sent' = DOMAIN sent
  BY <1>2, <1>4 DEF OracleInv, O!TypeOK, Mined
<1>7. ContractFacts'
  <2>1. \A i \in O!Ids : assertions'[i].made <=> assertions[i].made
    BY <1>1, <1>2, <1>3, <1>4
  <2>2. \A k \in Candidates : \A t \in O!Times : <<k, t>> \in O!Ids
    BY DEF O!Ids
  <2> QED
    BY <1>2, <2>1, <2>2 DEF OracleInv, ContractFacts, Sends
<1> QED
  BY <1>2, <1>5, <1>6, <1>7, ChainKeeps

LEMMA NextBlockKeeps ==
    ASSUME OracleInv, O!NextBlock
    PROVE  OracleInv'
<1>1. UNCHANGED <<mode, sent, assertions, payloads, asking>>
  BY DEF O!NextBlock
<1>2. Advances
  BY <1>1 DEF Advances
<1>3. chain' \in [time : O!Times, nonce : 0..MaxTransactions, funds : 0..Funds, allowance : Nat]
  <2>1. PICK x : x = chain /\ x \in [time : O!Times, nonce : 0..MaxTransactions, funds : 0..Funds, allowance : Nat]
    BY DEF OracleInv, O!TypeOK
  <2>2. chain' = [x EXCEPT !.time = x.time + 1] /\ x.time + 1 \in O!Times
    BY <2>1 DEF OracleInv, O!NextBlock, O!Times, O!OracleClientAssumption
  <2> QED
    BY <2>1, <2>2
<1>4. O!TypeOK' /\ DOMAIN sent' = DOMAIN sent
  BY <1>1, <1>3 DEF OracleInv, O!TypeOK
<1>5. ContractFacts' /\ Mined' = Mined
  BY <1>1 DEF OracleInv, ContractFacts, Sends, Mined
<1>6. chain'.nonce = chain.nonce
  BY DEF O!NextBlock, OracleInv, O!TypeOK
<1> QED
  BY <1>1, <1>2, <1>4, <1>5, <1>6, ChainKeeps DEF OracleInv

LEMMA OracleNext ==
    ASSUME OracleInv, O!Next
    PROVE  OracleInv'
<1>1. ASSUME NEW c \in Callers, O!SendRawTransaction(c) \/ O!SentButLost(c)
      PROVE  OracleInv'
  <2>1. CASE O!SentButLost(c)
    BY <2>1, SendKeeps DEF O!SentButLost
  <2>2. CASE O!SendRawTransaction(c) /\ asking[c].id = O!NoId
    BY <2>2, SendKeeps DEF O!SendRawTransaction
  <2>3. CASE O!SendRawTransaction(c) /\ asking[c].id # O!NoId
    BY <2>3, SendKeeps DEF O!SendRawTransaction
  <2> QED
    BY <1>1, <2>1, <2>2, <2>3
<1>2. ASSUME NEW c \in Callers, O!RpcFails(c)
      PROVE  OracleInv'
  BY <1>2, OracleEndsKeeps DEF O!RpcFails
<1> QED
  BY <1>1, <1>2, AsksKeeps, ReadAllowanceKeeps, PreflightKeeps, ReadNonceKeeps, ReadReceiptKeeps, ReadAssertionKeeps,
     WriteReconciledKeeps, BeginSimulatedKeeps, ChainMovesKeeps, MineKeeps, NextBlockKeeps DEF O!Next

LEMMA OracleStutter ==
    ASSUME OracleInv, UNCHANGED oracleVars
    PROVE  OracleInv'
<1>1. UNCHANGED <<mode, chain, sent, assertions, payloads, asking>>
  BY DEF oracleVars
<1>2. (O!OracleClientAssumption /\ O!TypeOK)'
  BY <1>1 DEF OracleInv, O!OracleClientAssumption, O!TypeOK
<1>3. OneAssertion' /\ ContractFacts' /\ (chain.nonce = Cardinality(Mined))'
  BY <1>1 DEF OracleInv, OneAssertion, ContractFacts, Mined, Sends, Claims
<1>4. \A l, y : Recorded(l, y)' <=> Recorded(l, y)
  BY <1>1 DEF Recorded, Sends
<1>5. (\A k \in Candidates : Recorded(k, payloads[k]))' /\ (\A c \in Callers : OracleCall(asking[c]))'
  BY <1>1, <1>4 DEF OracleInv, OracleCall, Claims
<1> QED
  BY <1>2, <1>3, <1>5 DEF OracleInv

LEMMA OracleInit ==
    ASSUME O!OracleClientAssumption, O!Init
    PROVE  OracleInv
<1>1. /\ chain = [time |-> 0, nonce |-> 0, funds |-> Funds, allowance |-> 0] /\ sent = <<>>
      /\ assertions = [id \in O!Ids |-> O!Zeros] /\ payloads = [k \in Candidates |-> O!NoPayload]
      /\ asking = [c \in Callers |-> O!Resting] /\ mode \in Modes
  BY DEF O!Init
<1>2. {Bond, Funds, MaxTransactions, MaxTime} \subseteq Nat
  BY DEF O!OracleClientAssumption
<1>3. sent \in Seq(O!Transactions) /\ Len(sent) = 0 /\ DOMAIN sent = {}
  BY <1>1
<1>4. O!Zeros \in O!Assertion /\ ~O!Zeros.made
  BY DEF O!Zeros, O!Assertion
<1>5. O!NoPayload \in O!Payload /\ O!NoPayload.hash = 0 /\ O!NoPayload.status = "none" /\ O!NoPayload.state = "none"
  BY RestingFacts DEF O!NoPayload
<1>6. O!TypeOK
  <2>1. chain \in [time : O!Times, nonce : 0..MaxTransactions, funds : 0..Funds, allowance : Nat]
    BY <1>1, <1>2 DEF O!Times
  <2> QED
    BY <1>1, <1>2, <1>3, <1>4, <1>5, <2>1, RestingFacts DEF O!TypeOK
<1>7. OneAssertion
  BY <1>1, <1>3, RestingFacts DEF OneAssertion, Sends
<1>8. ContractFacts
  BY <1>1, <1>3, <1>4 DEF ContractFacts, O!Ids
<1>9. chain.nonce = Cardinality(Mined)
  <2>1. Mined = {}
    BY <1>3 DEF Mined
  <2> QED
    BY <1>1, <2>1, FS_EmptySet
<1>10. \A k \in Candidates : Recorded(k, payloads[k])
  BY <1>1, <1>5 DEF Recorded
<1> QED
  BY <1>1, <1>6, <1>7, <1>8, <1>9, <1>10, RestingFacts DEF OracleInv

LEMMA OracleSuffices ==
    ASSUME OracleInv
    PROVE  O!TypeOK /\ O!RecordedOwnAssertion /\ O!RecordedNotAhead
<1>1. ASSUME NEW k \in Candidates, payloads[k].status = "confirmed"
      PROVE  /\ sent[payloads[k].hash].state = "confirmed" /\ sent[payloads[k].hash].candidate = k
             /\ payloads[k].id = sent[payloads[k].hash].made
  BY <1>1 DEF OracleInv, Recorded, Sends
<1>2. ASSUME NEW k \in Candidates, payloads[k].status = "failed", NEW id \in O!Ids, id[1] = k
      PROVE  ~assertions[id].made
  <2>1. PICK t \in O!Times : id = <<k, t>>
    BY <1>2 DEF O!Ids
  <2>2. Sends(payloads[k].hash, k) /\ sent[payloads[k].hash].state = "failed"
    BY <1>2 DEF OracleInv, Recorded
  <2> QED
    BY <2>1, <2>2 DEF OracleInv, ContractFacts, OneAssertion
<1>3. O!RecordedNotAhead
  BY DEF O!RecordedNotAhead, OracleInv, Recorded
<1> QED
  BY <1>1, <1>2, <1>3 DEF O!RecordedOwnAssertion, OracleInv

-----------------------------------------------------------------------------
(* Publication: the proved module's copy of each definition is the model's *)

LEMMA SameOperators ==
    \A S : /\ (P!IsFiniteSet(S) <=> PP!IsFiniteSet(S)) /\ P!Cardinality(S) = PP!Cardinality(S)
           /\ (P!IsInjective(S) <=> PP!IsInjective(S))
<1>1. \A S : P!IsFiniteSet(S) <=> PP!IsFiniteSet(S)
  BY DEF P!IsFiniteSet, PP!IsFiniteSet
<1>2. \A S : P!Cardinality(S) = PP!Cardinality(S)
  BY DEF P!Cardinality, PP!Cardinality
<1>3. \A S : P!IsInjective(S) <=> PP!IsInjective(S)
  BY DEF P!IsInjective, PP!IsInjective
<1> QED
  BY <1>1, <1>2, <1>3

LEMMA SamePublication ==
    /\ P!PublicationAssumption => PP!PublicationAssumption
    /\ P!Init => PP!Init
    /\ PP!IInv => P!TypeOK /\ P!PublishedWhole
    /\ PP!PendingBounded => P!PendingBounded
<1>1. P!PublicationAssumption => PP!PublicationAssumption
  BY SameOperators DEF P!PublicationAssumption, PP!PublicationAssumption
<1>2. P!Init => PP!Init
  BY DEF P!Init, PP!Init, P!NoCall, PP!NoCall
<1>3. PP!TypeOK => P!TypeOK
  BY DEF P!TypeOK, PP!TypeOK, P!Request, PP!Request, P!Market, PP!Market, P!Call, PP!Call,
         P!RequestStatuses, PP!RequestStatuses, P!Proposing, PP!Proposing, P!Changing, PP!Changing
<1>4. PP!PublishedWhole => P!PublishedWhole
  BY SameOperators DEF P!PublishedWhole, PP!PublishedWhole
<1>5. PP!PendingBounded => P!PendingBounded
  BY SameOperators DEF P!PendingBounded, PP!PendingBounded
<1> QED
  BY <1>1, <1>2, <1>3, <1>4, <1>5 DEF PP!IInv

LEMMA SamePublicationNext == P!Next => PP!Next
<1>1. P!NoCall = PP!NoCall
  BY DEF P!NoCall, PP!NoCall
<1>2. /\ \A c, x : P!Begins(c, x) <=> PP!Begins(c, x)
      /\ \A c, op, b : P!Continues(c, op, b) <=> PP!Continues(c, op, b)
      /\ \A c : P!Ends(c) <=> PP!Ends(c)
  BY <1>1 DEF P!Begins, PP!Begins, P!Continues, PP!Continues, P!Ends, PP!Ends
<1>3. /\ \A p : P!LintErrors(p) = PP!LintErrors(p)
      /\ \A u : P!Pending(u) = PP!Pending(u)
      /\ \A slug, title : P!SlugOf(slug, title) = PP!SlugOf(slug, title)
      /\ \A p : P!OutcomeCodes(p) = PP!OutcomeCodes(p)
      /\ \A r, slug : P!Taken(r, slug) <=> PP!Taken(r, slug)
  BY DEF P!LintErrors, PP!LintErrors, P!Pending, PP!Pending, P!SlugOf, PP!SlugOf, P!OutcomeCodes, PP!OutcomeCodes,
         P!Taken, PP!Taken
<1>4. /\ \A p : P!Duplicates(p) <=> PP!Duplicates(p)
      /\ \A r, title : P!MarketSlug(r, title) = PP!MarketSlug(r, title)
  BY <1>3 DEF P!Duplicates, PP!Duplicates, P!MarketSlug, PP!MarketSlug
<1>5. \A c, u, p : P!CreateRequest(c, u, p) <=> PP!CreateRequest(c, u, p)
  BY <1>1, <1>2 DEF P!CreateRequest, PP!CreateRequest
<1>6. \A c : (P!CheckSpam(c) <=> PP!CheckSpam(c)) /\ (P!CheckSpamFails(c) <=> PP!CheckSpamFails(c))
  BY <1>2, <1>3, SameOperators DEF P!CheckSpam, PP!CheckSpam, P!CheckSpamFails, PP!CheckSpamFails
<1>7. \A c : /\ P!CheckDuplicates(c) <=> PP!CheckDuplicates(c)
             /\ P!CheckDuplicatesFails(c) <=> PP!CheckDuplicatesFails(c)
  BY <1>2, <1>3, <1>4 DEF P!CheckDuplicates, PP!CheckDuplicates, P!CheckDuplicatesFails, PP!CheckDuplicatesFails
<1>8. \A c : P!InsertRequest(c) <=> PP!InsertRequest(c)
  BY <1>2 DEF P!InsertRequest, PP!InsertRequest
<1>9. \A c, r, from, x : P!Reads(c, r, from, x) <=> PP!Reads(c, r, from, x)
  BY <1>2 DEF P!Reads, PP!Reads
<1>10. /\ \A c, r, title : P!UpdateRequest(c, r, title) <=> PP!UpdateRequest(c, r, title)
       /\ \A c, r, key : P!UpsertAnswer(c, r, key) <=> PP!UpsertAnswer(c, r, key)
       /\ \A c, r : P!SubmitRequest(c, r) <=> PP!SubmitRequest(c, r)
       /\ \A c, r, approved : P!ReviewRequest(c, r, approved) <=> PP!ReviewRequest(c, r, approved)
  BY <1>1, <1>9 DEF P!UpdateRequest, PP!UpdateRequest, P!UpsertAnswer, PP!UpsertAnswer,
                    P!SubmitRequest, PP!SubmitRequest, P!ReviewRequest, PP!ReviewRequest
<1>11. \A c, r : P!PublishFromRequest(c, r) <=> PP!PublishFromRequest(c, r)
  BY <1>1, <1>2 DEF P!PublishFromRequest, PP!PublishFromRequest
<1>12. \A c : /\ P!WriteTitle(c) <=> PP!WriteTitle(c)
              /\ P!WriteAnswer(c) <=> PP!WriteAnswer(c)
              /\ P!WriteStatus(c) <=> PP!WriteStatus(c)
              /\ P!Interrupted(c) <=> PP!Interrupted(c)
  BY <1>2 DEF P!WriteTitle, PP!WriteTitle, P!WriteAnswer, PP!WriteAnswer, P!WriteStatus, PP!WriteStatus,
              P!Interrupted, PP!Interrupted
<1>13. \A c : P!InsertMarket(c) <=> PP!InsertMarket(c)
  BY <1>2, <1>3, <1>4, SameOperators DEF P!InsertMarket, PP!InsertMarket
<1>14. \A m : P!Close(m) <=> PP!Close(m)
  BY DEF P!Close, PP!Close
<1> QED
  BY <1>5, <1>6, <1>7, <1>8, <1>10, <1>11, <1>12, <1>13, <1>14 DEF P!Next, PP!Next

\* The same for the proposals of the queue; its markets and its limit are those of
\* the publication.
LEMMA SameQueueOperators ==
    \A S : /\ (Q!IsFiniteSet(S) <=> QQ!IsFiniteSet(S)) /\ Q!Cardinality(S) = QQ!Cardinality(S)
           /\ (Q!IsInjective(S) <=> QQ!IsInjective(S))
           /\ P!Cardinality(S) = QQ!Cardinality(S) /\ (P!IsInjective(S) <=> QQ!IsInjective(S))
<1>1. \A S : Q!IsFiniteSet(S) <=> QQ!IsFiniteSet(S)
  BY DEF Q!IsFiniteSet, QQ!IsFiniteSet
<1>2. \A S : Q!Cardinality(S) = QQ!Cardinality(S)
  BY DEF Q!Cardinality, QQ!Cardinality
<1>3. \A S : Q!IsInjective(S) <=> QQ!IsInjective(S)
  BY DEF Q!IsInjective, QQ!IsInjective
<1>4. \A S : P!Cardinality(S) = QQ!Cardinality(S)
  BY DEF P!Cardinality, QQ!Cardinality
<1>5. \A S : P!IsInjective(S) <=> QQ!IsInjective(S)
  BY DEF P!IsInjective, QQ!IsInjective
<1> QED
  BY <1>1, <1>2, <1>3, <1>4, <1>5

LEMMA SameQueue ==
    /\ Q!PublicationAssumption => QQ!PublicationAssumption
    /\ P!Init => QQ!Init
    /\ QQ!IInv => Q!TypeOK /\ P!PublishedWhole
    /\ QQ!PendingBounded => P!PendingBounded
<1>1. Q!PublicationAssumption => QQ!PublicationAssumption
  BY SameQueueOperators DEF Q!PublicationAssumption, QQ!PublicationAssumption
<1>2. P!Init => QQ!Init
  BY DEF P!Init, QQ!Init, P!NoCall, QQ!NoCall
<1>3. QQ!TypeOK => Q!TypeOK
  BY DEF Q!TypeOK, QQ!TypeOK, Q!Request, QQ!Request, Q!Market, QQ!Market, Q!Call, QQ!Call,
         Q!RequestStatuses, QQ!RequestStatuses, Q!Proposing, QQ!Proposing, Q!Changing, QQ!Changing
<1>4. QQ!PublishedWhole => P!PublishedWhole
  BY SameQueueOperators DEF P!PublishedWhole, QQ!PublishedWhole
<1>5. QQ!PendingBounded => P!PendingBounded
  BY SameQueueOperators DEF P!PendingBounded, QQ!PendingBounded
<1> QED
  BY <1>1, <1>2, <1>3, <1>4, <1>5 DEF QQ!IInv

LEMMA SameQueueNext == Q!Next => QQ!Next
<1>1. Q!NoCall = QQ!NoCall
  BY DEF Q!NoCall, QQ!NoCall
<1>2. /\ \A c, x : Q!Begins(c, x) <=> QQ!Begins(c, x)
      /\ \A c, op, b : Q!Continues(c, op, b) <=> QQ!Continues(c, op, b)
      /\ \A c : Q!Ends(c) <=> QQ!Ends(c)
  BY <1>1 DEF Q!Begins, QQ!Begins, Q!Continues, QQ!Continues, Q!Ends, QQ!Ends
<1>3. /\ \A p : Q!LintErrors(p) = QQ!LintErrors(p)
      /\ \A u : Q!Pending(u) = QQ!Pending(u)
      /\ \A slug, title : Q!SlugOf(slug, title) = QQ!SlugOf(slug, title)
      /\ \A p : Q!OutcomeCodes(p) = QQ!OutcomeCodes(p)
      /\ \A r, slug : Q!Taken(r, slug) <=> QQ!Taken(r, slug)
  BY DEF Q!LintErrors, QQ!LintErrors, Q!Pending, QQ!Pending, Q!SlugOf, QQ!SlugOf, Q!OutcomeCodes, QQ!OutcomeCodes,
         Q!Taken, QQ!Taken
<1>4. /\ \A p : Q!Duplicates(p) <=> QQ!Duplicates(p)
      /\ \A r, title : Q!MarketSlug(r, title) = QQ!MarketSlug(r, title)
  BY <1>3 DEF Q!Duplicates, QQ!Duplicates, Q!MarketSlug, QQ!MarketSlug
<1>5. \A c, u, p : Q!CreateRequest(c, u, p) <=> QQ!CreateRequest(c, u, p)
  BY <1>1, <1>2 DEF Q!CreateRequest, QQ!CreateRequest
<1>6. \A c : (Q!CheckSpam(c) <=> QQ!CheckSpam(c)) /\ (Q!CheckSpamFails(c) <=> QQ!CheckSpamFails(c))
  BY <1>2, <1>3, SameQueueOperators DEF Q!CheckSpam, QQ!CheckSpam, Q!CheckSpamFails, QQ!CheckSpamFails
<1>7. \A c : /\ Q!CheckDuplicates(c) <=> QQ!CheckDuplicates(c)
             /\ Q!CheckDuplicatesFails(c) <=> QQ!CheckDuplicatesFails(c)
  BY <1>2, <1>3, <1>4 DEF Q!CheckDuplicates, QQ!CheckDuplicates, Q!CheckDuplicatesFails, QQ!CheckDuplicatesFails
<1>8. \A c : Q!InsertRequest(c) <=> QQ!InsertRequest(c)
  BY <1>2 DEF Q!InsertRequest, QQ!InsertRequest
<1>9. \A c, r, from, x : Q!Reads(c, r, from, x) <=> QQ!Reads(c, r, from, x)
  BY <1>2 DEF Q!Reads, QQ!Reads
<1>10. /\ \A c, r, title : Q!UpdateRequest(c, r, title) <=> QQ!UpdateRequest(c, r, title)
       /\ \A c, r, key : Q!UpsertAnswer(c, r, key) <=> QQ!UpsertAnswer(c, r, key)
       /\ \A c, r : Q!SubmitRequest(c, r) <=> QQ!SubmitRequest(c, r)
       /\ \A c, r, approved : Q!ReviewRequest(c, r, approved) <=> QQ!ReviewRequest(c, r, approved)
  BY <1>1, <1>9 DEF Q!UpdateRequest, QQ!UpdateRequest, Q!UpsertAnswer, QQ!UpsertAnswer,
                    Q!SubmitRequest, QQ!SubmitRequest, Q!ReviewRequest, QQ!ReviewRequest
<1>11. \A c, r : Q!PublishFromRequest(c, r) <=> QQ!PublishFromRequest(c, r)
  BY <1>1, <1>2 DEF Q!PublishFromRequest, QQ!PublishFromRequest
<1>12. \A c : /\ Q!WriteTitle(c) <=> QQ!WriteTitle(c)
              /\ Q!WriteAnswer(c) <=> QQ!WriteAnswer(c)
              /\ Q!WriteStatus(c) <=> QQ!WriteStatus(c)
              /\ Q!Interrupted(c) <=> QQ!Interrupted(c)
  BY <1>2 DEF Q!WriteTitle, QQ!WriteTitle, Q!WriteAnswer, QQ!WriteAnswer, Q!WriteStatus, QQ!WriteStatus,
              Q!Interrupted, QQ!Interrupted
<1>13. \A c : Q!InsertMarket(c) <=> QQ!InsertMarket(c)
  BY <1>2, <1>3, <1>4, SameQueueOperators DEF Q!InsertMarket, QQ!InsertMarket
<1>14. \A m : Q!Close(m) <=> QQ!Close(m)
  BY DEF Q!Close, QQ!Close
<1> QED
  BY <1>5, <1>6, <1>7, <1>8, <1>10, <1>11, <1>12, <1>13, <1>14 DEF Q!Next, QQ!Next

-----------------------------------------------------------------------------
(* The parts side by side *)

PlatformInv ==
    /\ part = "publication" => PP!IInv
    /\ part = "queue" => QQ!IInv
    /\ part = "wallets" => WalletInv
    /\ part = "community" => CommunityInv
    /\ part = "oracle" => OracleInv
    /\ part = "gateway" => GatewayInv

LEMMA PlatformInit ==
    ASSUME Init
    PROVE  PlatformInv
<1>1. part = "publication" => PP!IInv
  BY PlatformAssumption, SamePublication, PP!InitInv DEF Init
<1>2. part = "queue" => QQ!IInv
  <2>1. part = "queue" => QQ!Init
    BY SameQueue DEF Init
  <2> QED
    BY <2>1, PlatformAssumption, SameQueue, QQ!InitInv
<1>3. part = "wallets" => WalletInv
  BY PlatformAssumption, WalletInit DEF Init
<1>4. part = "community" => CommunityInv
  BY PlatformAssumption, CommunityInit DEF Init
<1>5. part = "oracle" => OracleInv
  BY PlatformAssumption, OracleInit DEF Init
<1>6. part = "gateway" => GatewayInv
  BY PlatformAssumption, GatewayInit DEF Init
<1> QED
  BY <1>1, <1>2, <1>3, <1>4, <1>5, <1>6 DEF PlatformInv

\* A step of one part leaves the others without a state.
LEMMA PlatformNext ==
    ASSUME PlatformInv, [Next]_vars
    PROVE  PlatformInv'
<1> USE DEF PlatformInv
<1>1. CASE part = "publication" /\ P!Next /\ part' = part
  BY <1>1, SamePublicationNext, PP!NextKeeps
<1>2. CASE part = "queue" /\ Q!Next /\ part' = part
  BY <1>2, SameQueueNext, QQ!NextKeeps
<1>3. CASE part = "wallets" /\ W!Next /\ part' = part
  BY <1>3, WalletNext
<1>4. CASE part = "community" /\ C!Next /\ part' = part
  BY <1>4, CommunityNext
<1>5. CASE part = "oracle" /\ O!Next /\ part' = part
  BY <1>5, OracleNext
<1>6. CASE part = "gateway" /\ G!Next /\ part' = part
  BY <1>6, GatewayNext
<1>7. CASE UNCHANGED vars
  <2>1. part' = part /\ UNCHANGED PP!vars /\ UNCHANGED QQ!vars
        /\ UNCHANGED walletVars /\ UNCHANGED communityVars /\ UNCHANGED oracleVars /\ UNCHANGED gatewayVars
    BY <1>7 DEF vars, publicationVars, PP!vars, QQ!vars
  <2>2. (PP!IInv => PP!IInv') /\ (QQ!IInv => QQ!IInv')
    BY <2>1, PP!StutterKeeps, QQ!StutterKeeps
  <2> QED
    BY <2>1, <2>2, WalletStutter, CommunityStutter, OracleStutter, GatewayStutter
<1> QED
  BY <1>1, <1>2, <1>3, <1>4, <1>5, <1>6, <1>7 DEF Next

\* The invariant of the part that a behaviour is about holds in all its states.
THEOREM PlatformInvariant == Spec => []PlatformInv
<1>1. Init => PlatformInv
  BY PlatformInit
<1>2. PlatformInv /\ [Next]_vars => PlatformInv'
  BY PlatformNext
<1> QED
  BY <1>1, <1>2, PTL DEF Spec

LEMMA PublicationSuffices ==
    ASSUME PlatformInv
    PROVE  /\ part = "publication" => P!TypeOK
           /\ part = "queue" => Q!TypeOK
           /\ PublishedWhole /\ PendingBounded
<1>1. ASSUME part = "publication"
      PROVE  P!TypeOK /\ P!PublishedWhole /\ P!PendingBounded
  BY <1>1, SamePublication, PP!BoundSuffices DEF PlatformInv
<1>2. ASSUME part = "queue"
      PROVE  Q!TypeOK /\ P!PublishedWhole /\ P!PendingBounded
  BY <1>2, SameQueue, QQ!BoundSuffices DEF PlatformInv
<1> QED
  BY <1>1, <1>2 DEF PublishedWhole, PendingBounded

\* Rows, calls, transactions and websockets hold values of their types, in every
\* part (the tables and the schemas of the API).
THEOREM PlatformTypes == Spec => []TypeOK
<1>1. PlatformInv => (part = "publication" => P!TypeOK) /\ (part = "queue" => Q!TypeOK)
  BY PublicationSuffices
<1>2. PlatformInv => /\ part = "wallets" => W!TypeOK
                     /\ part = "community" => C!TypeOK
                     /\ part = "oracle" => O!TypeOK
                     /\ part = "gateway" => G!TypeOK
  BY DEF PlatformInv, WalletInv, CommunityInv, OracleInv, GatewayInv
<1>3. PlatformInv => TypeOK
  BY <1>1, <1>2 DEF TypeOK
<1> QED
  BY <1>3, PlatformInvariant, PTL

\* A converted request has its market, and a market two outcomes or more that
\* can be told apart (publish_from_request).
THEOREM PublishedComplete == Spec => []PublishedWhole
<1>1. PlatformInv => PublishedWhole
  BY PublicationSuffices
<1> QED
  BY <1>1, PlatformInvariant, PTL

\* Overlapping proposals pass the limit on pending requests by no more than the
\* other calls and the failed checks (check_proposal and create_request).
THEOREM PendingLimited == Spec => []PendingBounded
<1>1. PlatformInv => PendingBounded
  BY PublicationSuffices
<1> QED
  BY <1>1, PlatformInvariant, PTL

\* Overlapping calls leave a user no more primary wallets than there are calls, and
\* in memory one (create_wallet and update_wallet).
THEOREM WalletsLimited == Spec => []PrimaryWallets
<1>1. PlatformInv => PrimaryWallets
  BY WalletSuffices DEF PlatformInv, PrimaryWallets
<1> QED
  BY <1>1, PlatformInvariant, PTL

\* A confirmed payload names the assertion of its own transaction, and a failed one
\* has none (begin_resolution and reconcile_resolution).
THEOREM AssertionsOwn == Spec => []RecordedOwnAssertion
<1>1. PlatformInv => RecordedOwnAssertion
  BY OracleSuffices DEF PlatformInv, RecordedOwnAssertion
<1> QED
  BY <1>1, PlatformInvariant, PTL

\* Whatever the order in which reconciliations write, a payload is never ahead of
\* the chain, and a settled answer is the one of the chain (reconcile_resolution).
THEOREM AnswersOfChain == Spec => []RecordedNotAhead
<1>1. PlatformInv => RecordedNotAhead
  BY OracleSuffices DEF PlatformInv, RecordedNotAhead
<1> QED
  BY <1>1, PlatformInvariant, PTL

\* Tasks that find no channel of a market share one, and a websocket that keeps up
\* hears every event of its market (sender_for).
THEOREM EventsHeard == Spec => []ClientsHear
<1>1. PlatformInv => ClientsHear
  BY GatewaySuffices DEF PlatformInv, ClientsHear
<1> QED
  BY <1>1, PlatformInvariant, PTL

=============================================================================
