------------------------------- MODULE OracleClient -------------------------------
(***************************************************************************)
(* UMAOracleService against the chain: the approval of the bond, the        *)
(* assertion that opens a settlement and the reconciliation of its payload. *)
(* Every step is one JSON-RPC call, or calls between which the code decides *)
(* nothing; the node and the contract are what their answers show.          *)
(***************************************************************************)
EXTENDS Integers, Sequences, FiniteSets

CONSTANTS
    Callers,
    Candidates,       \* resolution candidates: a new one for every settlement request
    None,
    Modes,            \* of ORACLE_EXECUTION_MODE
    Bond,
    Targets,          \* amounts that an admin approves
    Funds,            \* collateral of the signer
    Liveness,         \* the challenge window, in ticks
    MaxTransactions,  \* bound: transactions sent
    MaxTime           \* bound: block times

OracleClientAssumption ==
    /\ Modes \subseteq {"simulated", "live"}
    /\ Targets \subseteq Nat
    /\ {Bond, Funds, Liveness, MaxTransactions, MaxTime} \subseteq Nat

VARIABLES
    mode,
    chain,       \* the block time, the mined nonce, the signer's tokens and allowance
    sent,        \* transactions, by hash
    assertions,  \* the contract's, by the candidate of the claim and the time of the block
    payloads,    \* candidate_payload of each candidate
    asking       \* what each request to the API is doing

vars == <<mode, chain, sent, assertions, payloads, asking>>

Times == 0..MaxTime
NoId == <<>>
Ids == Candidates \X Times
\* What getAssertion returns: for an identifier that was never made, only zeros.
Assertion == [made : BOOLEAN, disputed : BOOLEAN, settled : BOOLEAN, resolution : BOOLEAN]
Zeros == [made |-> FALSE, disputed |-> FALSE, settled |-> FALSE, resolution |-> FALSE]

\* What the signer sent, and the assertion that the contract made for it.
Transactions == [kind : {"approve", "assert"}, nonce : Nat, candidate : Candidates \cup {None}, amount : Nat,
                 state : {"pending", "replaced", "confirmed", "failed"}, made : Ids \cup {NoId}]

Payload == [status : {"none", "simulated", "submitted", "confirmed", "failed"}, hash : 0..MaxTransactions,
            id : Ids \cup {NoId}, state : {"none", "asserted", "disputed", "settled_true", "settled_false"}]

Call == [op : {"none", "approve", "preflight", "nonce", "send", "receipt", "state", "write"},
         candidate : Candidates \cup {None}, id : Ids \cup {NoId}, amount : Nat, nonce : Nat, payload : Payload]

NoPayload == [status |-> "none", hash |-> 0, id |-> NoId, state |-> "none"]

Resting == [op |-> "none", candidate |-> None, id |-> NoId,
            amount |-> 0, nonce |-> 0, payload |-> NoPayload]

TypeOK ==
    /\ mode \in Modes
    /\ chain \in [time : Times, nonce : 0..MaxTransactions, funds : 0..Funds, allowance : Nat]
    /\ sent \in Seq(Transactions) /\ Len(sent) <= MaxTransactions
    /\ assertions \in [Ids -> Assertion]
    /\ payloads \in [Candidates -> Payload] /\ \A k \in Candidates : payloads[k].hash \in {0} \cup DOMAIN sent
    /\ asking \in [Callers -> Call]

Init ==
    /\ mode \in Modes
    /\ chain = [time |-> 0, nonce |-> 0, funds |-> Funds, allowance |-> 0]
    /\ sent = <<>>
    /\ assertions = [id \in Ids |-> Zeros]
    /\ payloads = [k \in Candidates |-> NoPayload]
    /\ asking = [c \in Callers |-> Resting]

Ends(c) == asking' = [asking EXCEPT ![c] = Resting]

-----------------------------------------------------------------------------
(* The node and the contract *)

PendingNonce == chain.nonce + Cardinality({h \in DOMAIN sent : sent[h].state = "pending"})

\* A call of assertTruth pays the bond, and its claim is new at this time.
Asserts(k) ==
    chain.funds >= Bond /\ chain.allowance >= Bond /\ ~assertions[<<k, chain.time>>].made

\* The earlier transactions of this nonce that are still waiting.
Rivals(nonce) == {h \in DOMAIN sent : sent[h].state = "pending" /\ sent[h].nonce = nonce}

\* A nonce that was mined is too low; a waiting one takes a higher gas price to replace.
Accepts(tx) ==
    /\ tx.nonce >= chain.nonce
    /\ Len(sent) < MaxTransactions
    /\ sent' = Append([h \in DOMAIN sent |-> IF h \in Rivals(tx.nonce) THEN [sent[h] EXCEPT !.state = "replaced"]
                                             ELSE sent[h]], tx)

Mine ==
    \E h \in Rivals(chain.nonce) :
        LET tx == sent[h]
            id == <<tx.candidate, chain.time>>
            works == tx.kind = "approve" \/ Asserts(tx.candidate)
        IN /\ sent' = [sent EXCEPT ![h].state = IF works THEN "confirmed" ELSE "failed",
                                   ![h].made = IF works /\ tx.kind = "assert" THEN id ELSE NoId]
           /\ chain' = [chain EXCEPT !.nonce = @ + 1,
                                     !.funds = IF works /\ tx.kind = "assert" THEN @ - Bond ELSE @,
                                     !.allowance = IF tx.kind = "approve" THEN tx.amount
                                                   ELSE IF works THEN @ - Bond ELSE @]
           /\ assertions' = IF works /\ tx.kind = "assert" THEN [assertions EXCEPT ![id].made = TRUE] ELSE assertions
           /\ UNCHANGED <<mode, payloads, asking>>

Expired(id) == chain.time >= id[2] + Liveness

\* A disputer moves an assertion, the voters, or whoever settles it after its window.
ChainMoves(id) ==
    LET a == assertions[id]
    IN /\ a.made /\ ~a.settled
       /\ \/ /\ ~a.disputed /\ ~Expired(id)
             /\ assertions' = [assertions EXCEPT ![id].disputed = TRUE]
          \/ /\ ~a.disputed /\ Expired(id)
             /\ assertions' = [assertions EXCEPT ![id].settled = TRUE, ![id].resolution = TRUE]
          \/ /\ a.disputed
             /\ \E resolution \in BOOLEAN :
                    assertions' = [assertions EXCEPT ![id].settled = TRUE, ![id].resolution = resolution]
       /\ UNCHANGED <<mode, chain, sent, payloads, asking>>

NextBlock ==
    /\ chain.time < MaxTime
    /\ chain' = [chain EXCEPT !.time = @ + 1]
    /\ UNCHANGED <<mode, sent, assertions, payloads, asking>>

-----------------------------------------------------------------------------
(* approve_bond_allowance and begin_resolution *)

Asks(c, call) ==
    /\ asking[c].op = "none"
    /\ asking' = [asking EXCEPT ![c] = call]
    /\ UNCHANGED <<mode, chain, sent, assertions, payloads>>

ApproveBondAllowance(c, target) ==
    /\ mode = "live"
    /\ Asks(c, [Resting EXCEPT !.op = "approve", !.amount = target])

\* A target that the allowance covers sends nothing.
ReadAllowance(c) ==
    /\ asking[c].op = "approve"
    /\ IF chain.allowance >= asking[c].amount THEN Ends(c)
       ELSE asking' = [asking EXCEPT ![c].op = "nonce"]
    /\ UNCHANGED <<mode, chain, sent, assertions, payloads>>

NewCandidate(k) ==
    /\ payloads[k].status = "none"
    /\ \A c \in Callers : asking[c].op \in {"preflight", "nonce", "send"} => asking[c].candidate # k
    /\ \A h \in DOMAIN sent : sent[h].kind = "assert" => sent[h].candidate # k

BeginResolution(c, k) ==
    /\ NewCandidate(k) /\ mode = "live"
    /\ Asks(c, [Resting EXCEPT !.op = "preflight", !.candidate = k])

BeginSimulated(k) ==
    /\ NewCandidate(k) /\ mode = "simulated"
    /\ payloads' = [payloads EXCEPT ![k].status = "simulated"]
    /\ UNCHANGED <<mode, chain, sent, assertions, asking>>

\* eth_call answers with the identifier that the assertion would have now.
Preflight(c) ==
    LET k == asking[c].candidate
    IN /\ asking[c].op = "preflight"
       /\ IF Asserts(k) THEN asking' = [asking EXCEPT ![c].op = "nonce", ![c].id = <<k, chain.time>>]
          ELSE Ends(c)
       /\ UNCHANGED <<mode, chain, sent, assertions, payloads>>

ReadNonce(c) ==
    /\ asking[c].op = "nonce"
    /\ asking[c].id # NoId => Asserts(asking[c].candidate)  \* or eth_estimateGas fails
    /\ asking' = [asking EXCEPT ![c].op = "send", ![c].nonce = PendingNonce]
    /\ UNCHANGED <<mode, chain, sent, assertions, payloads>>

Transaction(c) ==
    [kind |-> IF asking[c].id = NoId THEN "approve" ELSE "assert", nonce |-> asking[c].nonce,
     candidate |-> asking[c].candidate, amount |-> asking[c].amount, state |-> "pending", made |-> NoId]

SendRawTransaction(c) ==
    /\ asking[c].op = "send"
    /\ Accepts(Transaction(c))
    /\ payloads' = IF asking[c].id = NoId THEN payloads
                   ELSE [payloads EXCEPT ![asking[c].candidate] =
                            [status |-> "submitted", hash |-> Len(sent) + 1, id |-> asking[c].id, state |-> "none"]]
    /\ Ends(c)
    /\ UNCHANGED <<mode, chain, assertions>>

\* The node has the transaction, but the answer or the insert of the candidate is lost.
SentButLost(c) ==
    /\ asking[c].op = "send"
    /\ Accepts(Transaction(c))
    /\ Ends(c)
    /\ UNCHANGED <<mode, chain, assertions, payloads>>

\* Any call to the node may fail or time out: the service raises.
RpcFails(c) ==
    /\ asking[c].op # "none"
    /\ Ends(c)
    /\ UNCHANGED <<mode, chain, sent, assertions, payloads>>

-----------------------------------------------------------------------------
(* reconcile_resolution *)

Reconcile(c, k) ==
    /\ mode = "live" /\ payloads[k].hash # 0
    /\ Asks(c, [Resting EXCEPT !.op = "receipt", !.candidate = k, !.payload = payloads[k]])

\* Mutant: the identifier of the preflight is kept.
IdOfPreflight(tx, payload) == payload.id

\* The identifier of the AssertionMade event in the receipt.
IdOfReceipt(tx, payload) == tx.made

ReadReceipt(c) ==
    LET payload == asking[c].payload
        tx == sent[payload.hash]
    IN /\ asking[c].op = "receipt"
       /\ asking' = [asking EXCEPT
              ![c].op = IF tx.state = "confirmed" THEN "state" ELSE "write",
              ![c].payload = CASE tx.state = "confirmed" ->
                                      [payload EXCEPT !.status = "confirmed", !.id = IdOfReceipt(tx, payload)]
                               [] tx.state = "failed" -> [payload EXCEPT !.status = "failed"]
                               [] OTHER -> [payload EXCEPT !.status = "submitted"]]
       /\ UNCHANGED <<mode, chain, sent, assertions, payloads>>

\* Mutant: the resolution is read without a look at whether the assertion is settled.
ResolutionAlone(a) == IF a.resolution THEN "settled_true" ELSE "settled_false"

DeriveOnchainAssertionState(a) ==
    CASE a.settled -> IF a.resolution THEN "settled_true" ELSE "settled_false"
      [] ~a.settled /\ a.disputed -> "disputed"
      [] OTHER -> "asserted"

ReadAssertion(c) ==
    /\ asking[c].op = "state"
    /\ asking' = [asking EXCEPT ![c].op = "write",
                                ![c].payload.state = DeriveOnchainAssertionState(assertions[asking[c].payload.id])]
    /\ UNCHANGED <<mode, chain, sent, assertions, payloads>>

WriteReconciled(c) ==
    /\ asking[c].op = "write"
    /\ payloads' = [payloads EXCEPT ![asking[c].candidate] = asking[c].payload]
    /\ Ends(c)
    /\ UNCHANGED <<mode, chain, sent, assertions>>

Next ==
    \/ \E c \in Callers :
        \/ \E target \in Targets : ApproveBondAllowance(c, target)
        \/ \E k \in Candidates : BeginResolution(c, k) \/ Reconcile(c, k)
        \/ ReadAllowance(c) \/ Preflight(c) \/ ReadNonce(c) \/ SendRawTransaction(c) \/ SentButLost(c)
        \/ RpcFails(c) \/ ReadReceipt(c) \/ ReadAssertion(c) \/ WriteReconciled(c)
    \/ \E k \in Candidates : BeginSimulated(k)
    \/ \E id \in Ids : ChainMoves(id)
    \/ Mine \/ NextBlock

-----------------------------------------------------------------------------
(* Properties *)

\* Block times move on between the preflight and the block, and transactions
\* replace each other: still a payload that says confirmed names the assertion
\* that its own transaction made, and one that says failed made none.
RecordedOwnAssertion ==
    \A k \in Candidates :
        LET payload == payloads[k]
        IN /\ payload.status = "confirmed" =>
                  /\ sent[payload.hash].state = "confirmed" /\ sent[payload.hash].candidate = k
                  /\ payload.id = sent[payload.hash].made
           /\ payload.status = "failed" => \A id \in Ids : id[1] = k => ~assertions[id].made

\* Reconciliations overlap, and an older one may write last, but what a payload
\* says of its assertion is never ahead of the chain, and a settled answer is
\* the chain's.
RecordedNotAhead ==
    \A k \in Candidates :
        LET state == payloads[k].state
            a == assertions[payloads[k].id]
        IN state # "none" =>
               /\ a.made
               /\ state = "disputed" => a.disputed
               /\ state = "settled_true" => a.settled /\ a.resolution
               /\ state = "settled_false" => a.settled /\ ~a.resolution
=============================================================================
