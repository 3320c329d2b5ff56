---------------------------- MODULE Publication_proofs ----------------------------
(***************************************************************************)
(* Proofs that markets are distinct and whole, and pending requests         *)
(* bounded, for any proposals, users and overlapping calls.                 *)
(***************************************************************************)
EXTENDS Publication, FiniteSetTheorems, SequenceTheorems, TLAPS

-----------------------------------------------------------------------------
(* The inductive invariant *)

\* What a call that has begun has read.
CallFacts(call) ==
    /\ call.op \in Proposing => call.by \in Users /\ call.proposal \in Proposals
    /\ call.op \in Changing => call.request \in DOMAIN requests
    /\ call.op \in {"update", "publish"} => call.title \in DOMAIN TitleSlug
    /\ call.op = "answer" => call.key \in Keys
    /\ call.op = "submit" => call.status = "submitted"
    /\ call.op = "review" => call.status \in {"approved", "rejected"}
    /\ call.op = "insert" => ~call.blocked

CallsInv == \A c \in Callers : CallFacts(serving[c])

\* A submission that read the draft writes "submitted" whatever has become of
\* the request since: such a request may be pending again.
Submitting(c, r) == serving[c].op = "submit" /\ serving[c].request = r

Reviving(u) == {r \in DOMAIN requests : /\ requests[r].by = u
                                        /\ \/ requests[r].status \in {"draft", "submitted"}
                                           \/ \E c \in Callers : Submitting(c, r)}

\* The calls that have passed the limit, and may still insert.
Adding(u) == {c \in Callers : serving[c].op \in {"duplicates", "insert"} /\ ~serving[c].blocked /\ serving[c].by = u}

Bound(u) ==
    Cardinality(Reviving(u)) + Cardinality(Adding(u)) <= MaxPending + Cardinality(Callers) - 1 + failures

BoundInv == \A u \in Users : Bound(u)

IInv == PublicationAssumption /\ TypeOK /\ CallsInv /\ PublishedWhole /\ BoundInv

-----------------------------------------------------------------------------
(* Types and sizes *)

LEMMA CallTyped ==
    ASSUME TypeOK, NEW c \in Callers
    PROVE  serving[c] \in Call
BY DEF TypeOK

LEMMA NoCallFacts ==
    ASSUME PublicationAssumption
    PROVE  NoCall \in Call /\ CallFacts(NoCall)
BY DEF NoCall, Call, CallFacts, Proposing, Changing, PublicationAssumption

LEMMA Finite ==
    ASSUME PublicationAssumption, TypeOK, NEW u
    PROVE  /\ IsFiniteSet(Reviving(u)) /\ Cardinality(Reviving(u)) \in Nat
           /\ IsFiniteSet(Adding(u)) /\ Cardinality(Adding(u)) \in Nat
           /\ IsFiniteSet(Callers) /\ Cardinality(Callers) \in Nat /\ Cardinality(Callers) >= 1
           /\ failures \in Nat /\ MaxPending \in Nat
<1>1. DOMAIN requests = 1..Len(requests) /\ Len(requests) \in Nat
  BY DEF TypeOK
<1>2. IsFiniteSet(DOMAIN requests)
  BY <1>1, FS_Interval
<1>3. Reviving(u) \in SUBSET DOMAIN requests
  BY DEF Reviving
<1>4. IsFiniteSet(Reviving(u)) /\ Cardinality(Reviving(u)) \in Nat
  BY <1>2, <1>3, FS_Subset, FS_CardinalityType
<1>5. IsFiniteSet(Callers) /\ Cardinality(Callers) \in Nat /\ Cardinality(Callers) # 0
  BY FS_EmptySet, FS_CardinalityType DEF PublicationAssumption
<1>6. Adding(u) \in SUBSET Callers
  BY DEF Adding
<1>7. IsFiniteSet(Adding(u)) /\ Cardinality(Adding(u)) \in Nat
  BY <1>5, <1>6, FS_Subset, FS_CardinalityType
<1>8. failures \in Nat /\ MaxPending \in Nat
  BY DEF TypeOK, PublicationAssumption
<1> QED
  BY <1>4, <1>5, <1>7, <1>8

\* A step after which no more requests and calls count keeps the bound.
LEMMA BoundStays ==
    ASSUME PublicationAssumption, TypeOK, TypeOK', NEW u, Bound(u),
           Reviving(u)' \subseteq Reviving(u), Adding(u)' \subseteq Adding(u),
           failures' >= failures
    PROVE  Bound(u)'
<1>1. PublicationAssumption'
  BY DEF PublicationAssumption
<1>2. Cardinality(Reviving(u)') <= Cardinality(Reviving(u))
  BY Finite, FS_Subset
<1>3. Cardinality(Adding(u)') <= Cardinality(Adding(u))
  BY Finite, FS_Subset
<1>4. Cardinality(Reviving(u)') \in Nat /\ Cardinality(Adding(u)') \in Nat
  BY <1>2, <1>3, Finite, FS_Subset, FS_CardinalityType
<1>5. failures' \in Nat
  BY DEF TypeOK, PublicationAssumption
<1> QED
  BY <1>2, <1>3, <1>4, <1>5, Finite DEF Bound

\* Rows that stay, and more of them, keep what the calls have read.
LEMMA CallFactsStay ==
    ASSUME NEW call, CallFacts(call), DOMAIN requests \subseteq DOMAIN requests'
    PROVE  CallFacts(call)'
BY DEF CallFacts

\* A call that goes on and adds no request.
LEMMA CallKeeps ==
    ASSUME IInv, NEW c \in Callers, NEW call \in Call, CallFacts(call),
           call.op \in {"duplicates", "insert"} /\ ~call.blocked => c \in Adding(call.by),
           call.op = "submit" => requests[call.request].status \in {"draft", "submitted"},
           serving' = [serving EXCEPT ![c] = call],
           UNCHANGED <<requests, published>>, failures' \in 0..MaxFailures, failures' >= failures
    PROVE  IInv'
<1> USE DEF IInv
<1>1. serving' \in [Callers -> Call] /\ serving'[c] = call /\ \A d \in Callers \ {c} : serving'[d] = serving[d]
  BY DEF TypeOK
<1>2. PublicationAssumption' /\ TypeOK'
  BY <1>1 DEF TypeOK, PublicationAssumption
<1>3. CallsInv'
  <2>1. \A d \in Callers : CallFacts(serving'[d])
    BY <1>1 DEF CallsInv
  <2> QED
    BY <2>1, CallFactsStay DEF CallsInv
<1>4. PublishedWhole'
  BY DEF PublishedWhole
<1>5. BoundInv'
  <2>1. ASSUME NEW u \in Users
        PROVE  Reviving(u)' \subseteq Reviving(u)
    BY <1>1 DEF Reviving, Submitting
  <2>2. ASSUME NEW u \in Users
        PROVE  Adding(u)' \subseteq Adding(u)
    BY <1>1 DEF Adding
  <2> QED
    BY <1>2, <2>1, <2>2, BoundStays DEF BoundInv
<1> QED
  BY <1>2, <1>3, <1>4, <1>5

\* A call that writes a row and ends: a request that it makes pending again
\* was counted as one that may be.
LEMMA RowKeeps ==
    ASSUME IInv, NEW c \in Callers, NEW r \in DOMAIN requests, NEW row \in Request,
           row.by = requests[r].by,
           row.status \in {"draft", "submitted"} => r \in Reviving(row.by),
           requests' = [requests EXCEPT ![r] = row], Ends(c), UNCHANGED failures,
           published' \in Seq(Market),
           \A m \in DOMAIN published' : Len(published'[m].codes) >= 2 /\ IsInjective(published'[m].codes),
           \A q \in DOMAIN requests :
               requests'[q].status = "converted" => \E m \in DOMAIN published' : published'[m].request = q
    PROVE  IInv'
<1> USE DEF IInv
<1>1. /\ serving' \in [Callers -> Call] /\ serving'[c] = NoCall
      /\ \A d \in Callers \ {c} : serving'[d] = serving[d]
  BY NoCallFacts DEF TypeOK, Ends
<1>2. requests \in Seq(Request) /\ DOMAIN requests = 1..Len(requests)
  BY DEF TypeOK
<1>3. /\ requests' \in Seq(Request) /\ DOMAIN requests' = DOMAIN requests /\ Len(requests') = Len(requests)
      /\ requests'[r] = row /\ \A q \in DOMAIN requests \ {r} : requests'[q] = requests[q]
  BY <1>2, ExceptSeq
<1>4. PublicationAssumption' /\ TypeOK'
  BY <1>1, <1>3 DEF TypeOK, PublicationAssumption
<1>5. CallsInv'
  <2>1. \A d \in Callers : CallFacts(serving'[d])
    BY <1>1, NoCallFacts DEF CallsInv
  <2> QED
    BY <1>3, <2>1, CallFactsStay DEF CallsInv
<1>6. PublishedWhole'
  BY <1>3 DEF PublishedWhole
<1>7. BoundInv'
  <2>1. ASSUME NEW u \in Users
        PROVE  Reviving(u)' \subseteq Reviving(u)
    <3>1. \A d \in Callers, q \in DOMAIN requests : Submitting(d, q)' => Submitting(d, q)
      BY <1>1 DEF Submitting, NoCall
    <3>2. r \in Reviving(u)' => r \in Reviving(u)
      BY <1>3, <3>1 DEF Reviving
    <3>3. ASSUME NEW q \in DOMAIN requests \ {r}, q \in Reviving(u)'
          PROVE  q \in Reviving(u)
      BY <1>3, <3>1, <3>3 DEF Reviving
    <3>4. Reviving(u)' \subseteq DOMAIN requests
      BY <1>3 DEF Reviving
    <3> QED
      BY <3>2, <3>3, <3>4
  <2>2. ASSUME NEW u \in Users
        PROVE  Adding(u)' \subseteq Adding(u)
    BY <1>1 DEF Adding, NoCall
  <2>3. failures' >= failures
    BY Finite
  <2> QED
    BY <1>4, <2>1, <2>2, <2>3, BoundStays DEF BoundInv
<1> QED
  BY <1>4, <1>5, <1>6, <1>7

-----------------------------------------------------------------------------
(* Creating a request *)

LEMMA CreateRequestKeeps ==
    ASSUME IInv, NEW c \in Callers, NEW u \in Users, NEW p \in Proposals, CreateRequest(c, u, p)
    PROVE  IInv'
<1> DEFINE call == [NoCall EXCEPT !.op = "spam", !.by = u, !.proposal = p]
<1>1. call \in Call
  BY NoCallFacts DEF IInv, NoCall, Call, Proposing
<1>2. CallFacts(call)
  BY DEF CallFacts, NoCall, Proposing, Changing
<1>3. call.op = "spam"
  BY DEF NoCall
<1>4. serving' = [serving EXCEPT ![c] = call]
  BY DEF CreateRequest, Begins
<1>5. UNCHANGED <<requests, published>> /\ failures' \in 0..MaxFailures /\ failures' >= failures
  BY Finite DEF IInv, TypeOK, CreateRequest
<1> QED
  BY <1>1, <1>2, <1>3, <1>4, <1>5, CallKeeps

Checked(c) == [serving[c] EXCEPT !.op = "duplicates", !.blocked = FALSE]

\* A call that passes the limit is one more that may add a request.
LEMMA PassKeeps ==
    ASSUME IInv, NEW c \in Callers, NEW u \in Users, serving[c].op = "spam", serving[c].by = u,
           serving' = [serving EXCEPT ![c] = Checked(c)],
           UNCHANGED <<requests, published>>, failures' \in 0..MaxFailures, failures' >= failures, Bound(u)'
    PROVE  IInv'
<1> USE DEF IInv
<1>1. serving[c] \in Call /\ CallFacts(serving[c])
  BY DEF TypeOK, CallsInv
<1>2. Checked(c) \in Call /\ CallFacts(Checked(c)) /\ Checked(c).by = u /\ Checked(c).op = "duplicates"
  BY <1>1 DEF Checked, Call, CallFacts, Proposing, Changing
<1>3. /\ serving' \in [Callers -> Call] /\ serving'[c] = Checked(c)
      /\ \A d \in Callers \ {c} : serving'[d] = serving[d]
  BY <1>2 DEF TypeOK
<1>4. PublicationAssumption' /\ TypeOK'
  BY <1>3 DEF TypeOK, PublicationAssumption
<1>5. CallsInv'
  <2>1. \A d \in Callers : CallFacts(serving'[d])
    BY <1>2, <1>3 DEF CallsInv
  <2> QED
    BY <2>1, CallFactsStay DEF CallsInv
<1>6. PublishedWhole'
  BY DEF PublishedWhole
<1>7. ASSUME NEW v \in Users, v # u
      PROVE  Bound(v)'
  <2>1. Reviving(v)' \subseteq Reviving(v)
    BY <1>2, <1>3 DEF Reviving, Submitting
  <2>2. Adding(v)' \subseteq Adding(v)
    BY <1>2, <1>3, <1>7 DEF Adding
  <2> QED
    BY <1>4, <2>1, <2>2, BoundStays DEF BoundInv
<1> QED
  BY <1>4, <1>5, <1>6, <1>7 DEF BoundInv

\* The pending requests are fewer than the limit; those that may become
\* pending are submitted by other calls than those that add.
LEMMA PassingIsBound ==
    ASSUME IInv, NEW c \in Callers, NEW u \in Users, serving[c].op = "spam",
           ~(Cardinality(Pending(u)) >= MaxPending), serving' = [serving EXCEPT ![c] = Checked(c)],
           UNCHANGED <<requests, published, failures>>
    PROVE  Bound(u)'
<1> USE DEF IInv
<1> DEFINE submitting == {d \in Callers : serving[d].op = "submit"}
           rows == {serving[d].request : d \in submitting}
<1>1. serving[c] \in Call
  BY DEF TypeOK
<1>2. Checked(c).op = "duplicates"
  BY <1>1 DEF Checked, Call
<1>3. serving'[c] = Checked(c) /\ \A d \in Callers \ {c} : serving'[d] = serving[d]
  BY DEF TypeOK
<1>4. IsFiniteSet(Callers) /\ Cardinality(Callers) \in Nat /\ failures \in Nat /\ MaxPending \in Nat
  BY Finite
<1>5. IsFiniteSet(submitting) /\ Cardinality(submitting) \in Nat
  BY <1>4, FS_Subset, FS_CardinalityType
<1>6. IsFiniteSet(rows) /\ Cardinality(rows) \in Nat /\ Cardinality(rows) <= Cardinality(submitting)
  <2> DEFINE f == [d \in submitting |-> serving[d].request]
  <2>1. f \in Surjection(submitting, rows)
    BY DEF Surjection
  <2> QED
    BY <1>5, <2>1, FS_Surjection, FS_CardinalityType
<1>7. IsFiniteSet(Pending(u)) /\ Cardinality(Pending(u)) \in Nat /\ Cardinality(Pending(u)) < MaxPending
  <2>1. Pending(u) \in SUBSET Reviving(u)
    BY DEF Pending, Reviving
  <2>2. IsFiniteSet(Pending(u)) /\ Cardinality(Pending(u)) \in Nat
    BY <2>1, Finite, FS_Subset, FS_CardinalityType
  <2> QED
    BY <1>4, <2>2
<1>8. Reviving(u)' \subseteq Pending(u) \cup rows
  BY <1>2, <1>3 DEF Reviving, Submitting, Pending
<1>9. /\ IsFiniteSet(Pending(u) \cup rows) /\ Cardinality(Pending(u) \cup rows) \in Nat
      /\ Cardinality(Pending(u) \cup rows) <= Cardinality(Pending(u)) + Cardinality(submitting)
  <2> HIDE DEF rows, submitting
  <2>1. IsFiniteSet(Pending(u) \cap rows) /\ Cardinality(Pending(u) \cap rows) \in Nat
    BY <1>7, FS_Intersection, FS_CardinalityType
  <2>2. /\ IsFiniteSet(Pending(u) \cup rows)
        /\ Cardinality(Pending(u) \cup rows) = Cardinality(Pending(u)) + Cardinality(rows) - Cardinality(Pending(u) \cap rows)
    BY <1>6, <1>7, FS_Union
  <2> QED
    BY <1>5, <1>6, <1>7, <2>1, <2>2, FS_CardinalityType
<1>10. /\ Cardinality(Reviving(u)') \in Nat
       /\ Cardinality(Reviving(u)') <= Cardinality(Pending(u)) + Cardinality(submitting)
  <2> HIDE DEF rows, submitting
  <2>1. IsFiniteSet(Reviving(u)') /\ Cardinality(Reviving(u)') <= Cardinality(Pending(u) \cup rows)
    BY <1>8, <1>9, FS_Subset
  <2> QED
    BY <1>5, <1>7, <1>9, <2>1, FS_CardinalityType
<1>11. /\ Cardinality(Adding(u)') \in Nat
       /\ Cardinality(submitting) + Cardinality(Adding(u)') <= Cardinality(Callers)
  <2>1. Adding(u)' \cap submitting = {} /\ Adding(u)' \cup submitting \subseteq Callers
    BY <1>2, <1>3 DEF Adding
  <2> HIDE DEF submitting
  <2>2. IsFiniteSet(Adding(u)') /\ Cardinality(Adding(u)') \in Nat
    BY <1>4, <2>1, FS_Subset, FS_CardinalityType
  <2>3. Cardinality(Adding(u)' \cup submitting) = Cardinality(Adding(u)') + Cardinality(submitting)
    <3>1. Cardinality(Adding(u)' \cap submitting) = 0
      BY <2>1, FS_EmptySet
    <3>2. Cardinality(Adding(u)' \cup submitting)
              = Cardinality(Adding(u)') + Cardinality(submitting) - Cardinality(Adding(u)' \cap submitting)
      BY <1>5, <2>2, FS_Union
    <3> QED
      BY <1>5, <2>2, <3>1, <3>2
  <2>4. Cardinality(Adding(u)' \cup submitting) <= Cardinality(Callers)
    BY <1>4, <2>1, FS_Subset
  <2> QED
    BY <1>5, <2>2, <2>3, <2>4
<1> HIDE DEF submitting
<1> QED
  BY <1>4, <1>5, <1>7, <1>10, <1>11 DEF Bound

LEMMA CheckSpamKeeps ==
    ASSUME IInv, NEW c \in Callers, CheckSpam(c)
    PROVE  IInv'
<1> USE DEF IInv
<1>1. serving[c] \in Call /\ CallFacts(serving[c]) /\ serving[c].op = "spam"
  BY DEF TypeOK, CallsInv, CheckSpam
<1>2. PICK u \in Users : u = serving[c].by
  BY <1>1 DEF CallFacts, Proposing
<1>3. UNCHANGED <<requests, published, failures>> /\ failures' \in 0..MaxFailures /\ failures' >= failures
  BY Finite DEF CheckSpam, TypeOK
<1>4. CASE Cardinality(Pending(u)) >= MaxPending
  <2> DEFINE call == [serving[c] EXCEPT !.op = "duplicates", !.blocked = TRUE]
  <2>1. call \in Call /\ CallFacts(call) /\ call.op = "duplicates" /\ call.blocked
    BY <1>1 DEF Call, CallFacts, Proposing, Changing
  <2>2. serving' = [serving EXCEPT ![c] = call]
    BY <1>1, <1>2, <1>4 DEF CheckSpam, Continues, TypeOK, Call
  <2> HIDE DEF call
  <2> QED
    BY <1>3, <2>1, <2>2, CallKeeps
<1>5. CASE ~(Cardinality(Pending(u)) >= MaxPending)
  <2>0. (Cardinality(Pending(serving[c].by)) >= MaxPending) = FALSE
    BY <1>2, <1>5
  <2>1. serving' = [serving EXCEPT ![c] = Checked(c)]
    BY <1>1, <2>0 DEF CheckSpam, Continues, Checked, TypeOK, Call
  <2>2. Bound(u)'
    BY <1>1, <1>3, <1>5, <2>1, PassingIsBound
  <2> QED
    BY <1>1, <1>2, <1>3, <2>1, <2>2, PassKeeps
<1> QED
  BY <1>4, <1>5

\* A check that fails lets one call more through, and is counted.
LEMMA CheckSpamFailsKeeps ==
    ASSUME IInv, NEW c \in Callers, CheckSpamFails(c)
    PROVE  IInv'
<1> USE DEF IInv
<1>1. serving[c] \in Call /\ CallFacts(serving[c]) /\ serving[c].op = "spam"
  BY DEF TypeOK, CallsInv, CheckSpamFails
<1>2. PICK u \in Users : u = serving[c].by
  BY <1>1 DEF CallFacts, Proposing
<1>3. /\ UNCHANGED <<requests, published>> /\ failures' = failures + 1
      /\ failures' \in 0..MaxFailures /\ failures' >= failures
  BY Finite DEF CheckSpamFails, TypeOK, PublicationAssumption
<1>4. serving' = [serving EXCEPT ![c] = Checked(c)]
  BY <1>1 DEF CheckSpamFails, Continues, Checked, TypeOK, Call
<1>5. serving'[c].op = "duplicates" /\ \A d \in Callers \ {c} : serving'[d] = serving[d]
  BY <1>1, <1>4 DEF TypeOK, Checked, Call
<1>6. /\ Cardinality(Reviving(u)') \in Nat /\ Cardinality(Reviving(u)') <= Cardinality(Reviving(u))
  <2>1. Reviving(u)' \subseteq Reviving(u)
    BY <1>3, <1>5 DEF Reviving, Submitting
  <2> QED
    BY <2>1, Finite, FS_Subset, FS_CardinalityType
<1>7. Cardinality(Adding(u)') \in Nat /\ Cardinality(Adding(u)') <= Cardinality(Adding(u)) + 1
  <2>1. Adding(u)' \subseteq Adding(u) \cup {c}
    BY <1>5 DEF Adding
  <2>2. IsFiniteSet(Adding(u)) /\ Cardinality(Adding(u)) \in Nat
    BY Finite
  <2>3. /\ IsFiniteSet(Adding(u) \cup {c})
        /\ Cardinality(Adding(u) \cup {c}) = IF c \in Adding(u) THEN Cardinality(Adding(u)) ELSE Cardinality(Adding(u)) + 1
    BY <2>2, FS_AddElement
  <2>4. Cardinality(Adding(u)') <= Cardinality(Adding(u) \cup {c}) /\ Cardinality(Adding(u)') \in Nat
    BY <2>1, <2>3, FS_Subset, FS_CardinalityType
  <2> QED
    BY <2>2, <2>3, <2>4
<1>8. Bound(u)'
  BY <1>3, <1>6, <1>7, Finite DEF Bound, BoundInv
<1> QED
  BY <1>1, <1>2, <1>3, <1>4, <1>8, PassKeeps

LEMMA EndsKeeps ==
    ASSUME IInv, NEW c \in Callers, Ends(c), UNCHANGED <<requests, published>>,
           failures' \in 0..MaxFailures, failures' >= failures
    PROVE  IInv'
<1>1. NoCall \in Call /\ CallFacts(NoCall)
  BY NoCallFacts DEF IInv
<1>2. NoCall.op = "none"
  BY DEF NoCall
<1>3. serving' = [serving EXCEPT ![c] = NoCall]
  BY DEF Ends
<1> QED
  BY <1>1, <1>2, <1>3, CallKeeps

\* A call that has found no error in its proposal goes on to the insert.
LEMMA CheckedKeeps ==
    ASSUME IInv, NEW c \in Callers, serving[c].op = "duplicates", ~serving[c].blocked,
           Continues(c, "insert", FALSE), UNCHANGED <<requests, published>>,
           failures' \in 0..MaxFailures, failures' >= failures
    PROVE  IInv'
<1> DEFINE call == [serving[c] EXCEPT !.op = "insert", !.blocked = FALSE]
<1>1. serving[c] \in Call /\ CallFacts(serving[c])
  BY DEF IInv, TypeOK, CallsInv
<1>2. call \in Call /\ CallFacts(call) /\ call.op = "insert" /\ call.by = serving[c].by
  BY <1>1 DEF Call, CallFacts, Proposing, Changing
<1>3. serving' = [serving EXCEPT ![c] = call]
  BY <1>1 DEF Continues, IInv, TypeOK, Call
<1>4. c \in Adding(serving[c].by)
  BY DEF Adding
<1> HIDE DEF call
<1> QED
  BY <1>2, <1>3, <1>4, CallKeeps

LEMMA CheckDuplicatesKeeps ==
    ASSUME IInv, NEW c \in Callers, CheckDuplicates(c)
    PROVE  IInv'
<1>1. UNCHANGED <<requests, published>> /\ failures' \in 0..MaxFailures /\ failures' >= failures
  BY Finite DEF CheckDuplicates, IInv, TypeOK
<1>2. CASE Ends(c)
  BY <1>1, <1>2, EndsKeeps
<1>3. CASE ~serving[c].blocked /\ Continues(c, "insert", FALSE)
  BY <1>1, <1>3, CheckedKeeps DEF CheckDuplicates
<1> QED
  BY <1>2, <1>3 DEF CheckDuplicates

LEMMA CheckDuplicatesFailsKeeps ==
    ASSUME IInv, NEW c \in Callers, CheckDuplicatesFails(c)
    PROVE  IInv'
<1>1. UNCHANGED <<requests, published>> /\ failures' \in 0..MaxFailures /\ failures' >= failures
  BY Finite DEF CheckDuplicatesFails, IInv, TypeOK, PublicationAssumption
<1>2. CASE Ends(c)
  BY <1>1, <1>2, EndsKeeps
<1>3. CASE ~serving[c].blocked /\ Continues(c, "insert", FALSE)
  BY <1>1, <1>3, CheckedKeeps DEF CheckDuplicatesFails
<1> QED
  BY <1>2, <1>3 DEF CheckDuplicatesFails

\* The insert turns a call that may add a request into the request.
LEMMA InsertRequestKeeps ==
    ASSUME IInv, NEW c \in Callers, InsertRequest(c)
    PROVE  IInv'
<1> USE DEF IInv
<1>1. /\ serving[c] \in Call /\ CallFacts(serving[c]) /\ serving[c].op = "insert"
      /\ UNCHANGED <<published, failures>> /\ Ends(c)
  BY DEF TypeOK, CallsInv, InsertRequest
<1>2. PICK u \in Users, p \in Proposals : u = serving[c].by /\ p = serving[c].proposal
  BY <1>1 DEF CallFacts, Proposing
<1>3. failures' \in 0..MaxFailures /\ failures' >= failures
  BY <1>1, Finite DEF TypeOK
<1>4. CASE UNCHANGED requests
  BY <1>1, <1>3, <1>4, EndsKeeps
<1>5. CASE ~UNCHANGED requests
  <2> DEFINE row == [by |-> u, proposal |-> p, title |-> p.title, status |-> "draft", answers |-> {}]
             new == Len(requests) + 1
  <2>1. requests' = Append(requests, row) /\ Len(requests) < MaxRequests
    BY <1>2, <1>5 DEF InsertRequest
  <2>2. row \in Request
    BY DEF Request, RequestStatuses, PublicationAssumption
  <2>3. requests \in Seq(Request) /\ DOMAIN requests = 1..Len(requests) /\ Len(requests) \in Nat
    BY DEF TypeOK
  <2>4. row.by = u /\ row.status = "draft"
    OBVIOUS
  <2> HIDE DEF row
  <2>5. /\ requests' \in Seq(Request) /\ Len(requests') = new /\ DOMAIN requests' = DOMAIN requests \cup {new}
        /\ requests'[new] = row /\ new \notin DOMAIN requests
        /\ \A q \in DOMAIN requests : requests'[q] = requests[q]
    BY <2>1, <2>2, <2>3, AppendProperties
  <2> HIDE DEF new
  <2>6. /\ serving' \in [Callers -> Call] /\ serving'[c] = NoCall
        /\ \A d \in Callers \ {c} : serving'[d] = serving[d]
    BY <1>1, NoCallFacts DEF TypeOK, Ends
  <2>7. PublicationAssumption' /\ TypeOK'
    <3>1. Len(requests') <= MaxRequests
      BY <2>1, <2>3, <2>5 DEF new, PublicationAssumption
    <3> QED
      BY <1>1, <2>5, <2>6, <3>1 DEF TypeOK, PublicationAssumption
  <2>8. CallsInv'
    <3>1. \A d \in Callers : CallFacts(serving'[d])
      BY <2>6, NoCallFacts DEF CallsInv
    <3> QED
      BY <2>5, <3>1, CallFactsStay DEF CallsInv
  <2>9. PublishedWhole'
    BY <1>1, <2>4, <2>5 DEF PublishedWhole
  <2>10. \A d \in Callers, q \in DOMAIN requests : Submitting(d, q)' => Submitting(d, q)
    BY <2>6 DEF Submitting, NoCall
  <2>11. \A v : Reviving(v)' \subseteq Reviving(v) \cup {new}
    BY <2>5, <2>10 DEF Reviving
  <2>12. \A v : Adding(v)' \subseteq Adding(v) \ {c}
    BY <2>6 DEF Adding, NoCall
  <2>13. ASSUME NEW v \in Users, v # u
         PROVE  Bound(v)'
    <3>1. new \notin Reviving(v)'
      BY <2>4, <2>5, <2>13 DEF Reviving
    <3>2. Reviving(v)' \subseteq Reviving(v)
      BY <2>11, <3>1
    <3>3. Adding(v)' \subseteq Adding(v)
      BY <2>12
    <3> QED
      BY <1>3, <2>7, <3>2, <3>3, BoundStays DEF BoundInv
  <2>14. Bound(u)'
    <3>1. IsFiniteSet(Reviving(u)) /\ IsFiniteSet(Adding(u)) /\ Cardinality(Reviving(u)) \in Nat /\ Cardinality(Adding(u)) \in Nat
      BY Finite
    <3>2. /\ IsFiniteSet(Reviving(u) \cup {new}) /\ new \notin Reviving(u)
          /\ Cardinality(Reviving(u) \cup {new}) = Cardinality(Reviving(u)) + 1
      BY <2>5, <3>1, FS_AddElement DEF Reviving
    <3>3. Cardinality(Reviving(u)') <= Cardinality(Reviving(u)) + 1 /\ Cardinality(Reviving(u)') \in Nat
      BY <2>11, <3>2, FS_Subset, FS_CardinalityType
    <3>4. c \in Adding(u)
      BY <1>1, <1>2 DEF Adding, CallFacts
    <3>5. IsFiniteSet(Adding(u) \ {c}) /\ Cardinality(Adding(u) \ {c}) = Cardinality(Adding(u)) - 1
      BY <3>1, <3>4, FS_RemoveElement
    <3>6. Cardinality(Adding(u)') <= Cardinality(Adding(u)) - 1 /\ Cardinality(Adding(u)') \in Nat
      BY <2>12, <3>5, FS_Subset, FS_CardinalityType
    <3> QED
      BY <1>1, <3>1, <3>3, <3>6, Finite DEF Bound, BoundInv
  <2> QED
    BY <2>7, <2>8, <2>9, <2>13, <2>14 DEF BoundInv
<1> QED
  BY <1>4, <1>5

-----------------------------------------------------------------------------
(* Changing a request: the reads *)

LEMMA ReadsKeeps ==
    ASSUME IInv, NEW c \in Callers, NEW r \in DOMAIN requests, NEW call \in Call,
           call.op \in Changing, call.request = r, CallFacts(call),
           call.op = "submit" => requests[r].status \in {"draft", "submitted"},
           Begins(c, call), UNCHANGED <<requests, published, failures>>
    PROVE  IInv'
<1>1. failures' \in 0..MaxFailures /\ failures' >= failures
  BY Finite DEF IInv, TypeOK
<1>2. call.op \notin {"duplicates", "insert"}
  BY DEF Changing
<1> QED
  BY <1>1, <1>2, CallKeeps DEF Begins

LEMMA RowTyped ==
    ASSUME IInv, NEW r \in DOMAIN requests
    PROVE  r \in 1..MaxRequests /\ r \in 0..MaxRequests /\ requests[r] \in Request
BY DEF IInv, TypeOK, PublicationAssumption

LEMMA NoCallTyped ==
    ASSUME IInv
    PROVE  NoCall \in Call
BY NoCallFacts DEF IInv

LEMMA UpdateRequestKeeps ==
    ASSUME IInv, NEW c \in Callers, NEW r \in DOMAIN requests, NEW title \in Titles \cup {None}, UpdateRequest(c, r, title)
    PROVE  IInv'
<1> DEFINE new == IF title = None THEN requests[r].title ELSE title
           call == [NoCall EXCEPT !.op = "update", !.title = new, !.request = r]
<1>1. new \in DOMAIN TitleSlug
  BY RowTyped DEF Request, IInv, PublicationAssumption
<1>2. Begins(c, call) /\ UNCHANGED <<requests, published, failures>>
  BY DEF UpdateRequest, Reads, NoCall
<1> HIDE DEF new
<1>3. call \in Call
  BY <1>1, RowTyped, NoCallTyped DEF NoCall, Call, Changing
<1>4. call.op = "update" /\ call.request = r /\ call.title = new
  BY DEF NoCall
<1> HIDE DEF call
<1>5. CallFacts(call)
  BY <1>1, <1>4 DEF CallFacts, Proposing
<1>6. call.op \in Changing
  BY <1>4 DEF Changing
<1> QED
  BY <1>2, <1>3, <1>4, <1>5, <1>6, ReadsKeeps

LEMMA UpsertAnswerKeeps ==
    ASSUME IInv, NEW c \in Callers, NEW r \in DOMAIN requests, NEW key \in Keys, UpsertAnswer(c, r, key)
    PROVE  IInv'
<1> DEFINE call == [NoCall EXCEPT !.op = "answer", !.key = key, !.request = r]
<1>1. Begins(c, call) /\ UNCHANGED <<requests, published, failures>>
  BY DEF UpsertAnswer, Reads, NoCall
<1>2. call \in Call
  BY RowTyped, NoCallTyped DEF NoCall, Call, Changing
<1>3. call.op = "answer" /\ call.request = r /\ call.key = key
  BY DEF NoCall
<1> HIDE DEF call
<1>4. CallFacts(call) /\ call.op \in Changing
  BY <1>3 DEF CallFacts, Proposing, Changing
<1> QED
  BY <1>1, <1>2, <1>3, <1>4, ReadsKeeps

LEMMA SubmitRequestKeeps ==
    ASSUME IInv, NEW c \in Callers, NEW r \in DOMAIN requests, SubmitRequest(c, r)
    PROVE  IInv'
<1> DEFINE call == [NoCall EXCEPT !.op = "submit", !.status = "submitted", !.request = r]
<1>1. Begins(c, call) /\ UNCHANGED <<requests, published, failures>> /\ requests[r].status = "draft"
  BY DEF SubmitRequest, Reads, NoCall
<1>2. call \in Call
  BY RowTyped, NoCallTyped DEF NoCall, Call, Changing, RequestStatuses
<1>3. call.op = "submit" /\ call.request = r /\ call.status = "submitted"
  BY DEF NoCall
<1> HIDE DEF call
<1>4. CallFacts(call) /\ call.op \in Changing
  BY <1>3 DEF CallFacts, Proposing, Changing
<1> QED
  BY <1>1, <1>2, <1>3, <1>4, ReadsKeeps

LEMMA ReviewRequestKeeps ==
    ASSUME IInv, NEW c \in Callers, NEW r \in DOMAIN requests, NEW approved \in BOOLEAN, ReviewRequest(c, r, approved)
    PROVE  IInv'
<1> DEFINE status == IF approved THEN "approved" ELSE "rejected"
           call == [NoCall EXCEPT !.op = "review", !.status = status, !.request = r]
<1>1. status \in {"approved", "rejected"}
  OBVIOUS
<1>2. Begins(c, call) /\ UNCHANGED <<requests, published, failures>>
  BY DEF ReviewRequest, Reads, NoCall
<1> HIDE DEF status
<1>3. call \in Call
  BY <1>1, RowTyped, NoCallTyped DEF NoCall, Call, Changing, RequestStatuses
<1>4. call.op = "review" /\ call.request = r /\ call.status = status
  BY DEF NoCall
<1> HIDE DEF call
<1>5. CallFacts(call) /\ call.op \in Changing
  BY <1>1, <1>4 DEF CallFacts, Proposing, Changing
<1> QED
  BY <1>2, <1>3, <1>4, <1>5, ReadsKeeps

LEMMA PublishFromRequestKeeps ==
    ASSUME IInv, NEW c \in Callers, NEW r \in DOMAIN requests, PublishFromRequest(c, r)
    PROVE  IInv'
<1> DEFINE title == requests[r].title
           call == [NoCall EXCEPT !.op = "publish", !.request = r, !.title = title]
<1>1. title \in DOMAIN TitleSlug
  BY RowTyped DEF Request
<1>2. Begins(c, call) /\ UNCHANGED <<requests, published, failures>>
  BY DEF PublishFromRequest
<1> HIDE DEF title
<1>3. call \in Call
  BY <1>1, RowTyped, NoCallTyped DEF NoCall, Call, Changing
<1>4. call.op = "publish" /\ call.request = r /\ call.title = title
  BY DEF NoCall
<1> HIDE DEF call
<1>5. CallFacts(call) /\ call.op \in Changing
  BY <1>1, <1>4 DEF CallFacts, Proposing, Changing
<1> QED
  BY <1>2, <1>3, <1>4, <1>5, ReadsKeeps

LEMMA InterruptedKeeps ==
    ASSUME IInv, NEW c \in Callers, Interrupted(c)
    PROVE  IInv'
<1>1. failures' \in 0..MaxFailures /\ failures' >= failures
  BY Finite DEF Interrupted, IInv, TypeOK
<1> QED
  BY <1>1, EndsKeeps DEF Interrupted

-----------------------------------------------------------------------------
(* Changing a request: the writes *)

\* A write to a row that leaves the markets alone, and converts nothing.
LEMMA WriteKeeps ==
    ASSUME IInv, NEW c \in Callers, NEW r \in DOMAIN requests, NEW row \in Request,
           row.by = requests[r].by,
           row.status \in {"draft", "submitted"} => r \in Reviving(row.by),
           row.status = "converted" => requests[r].status = "converted",
           requests' = [requests EXCEPT ![r] = row], Ends(c), UNCHANGED <<published, failures>>
    PROVE  IInv'
<1>1. published' \in Seq(Market)
  BY DEF IInv, TypeOK
<1>2. \A m \in DOMAIN published' : Len(published'[m].codes) >= 2 /\ IsInjective(published'[m].codes)
  BY DEF IInv, PublishedWhole
<1>3. \A q \in DOMAIN requests : requests'[q].status = "converted" => requests[q].status = "converted"
  BY DEF IInv, TypeOK
<1>4. \A q \in DOMAIN requests :
          requests'[q].status = "converted" => \E m \in DOMAIN published' : published'[m].request = q
  BY <1>3 DEF IInv, PublishedWhole
<1> QED
  BY <1>1, <1>2, <1>4, RowKeeps

LEMMA WriteTitleKeeps ==
    ASSUME IInv, NEW c \in Callers, WriteTitle(c)
    PROVE  IInv'
<1>1. CallFacts(serving[c]) /\ serving[c].op = "update"
  BY DEF IInv, CallsInv, WriteTitle
<1>2. PICK r \in DOMAIN requests : r = serving[c].request
  BY <1>1 DEF CallFacts, Changing
<1>3. PICK title \in DOMAIN TitleSlug : title = serving[c].title
  BY <1>1 DEF CallFacts
<1> DEFINE row == [requests[r] EXCEPT !.title = title]
<1>4. requests[r] \in Request
  BY RowTyped
<1>5. row \in Request /\ row.by = requests[r].by /\ row.status = requests[r].status
  BY <1>4 DEF Request
<1>6. requests' = [requests EXCEPT ![r] = row] /\ Ends(c) /\ UNCHANGED <<published, failures>>
  BY <1>2, <1>3 DEF WriteTitle
<1> HIDE DEF row
<1>7. row.status \in {"draft", "submitted"} => r \in Reviving(row.by)
  BY <1>5 DEF Reviving
<1> QED
  BY <1>5, <1>6, <1>7, WriteKeeps

LEMMA WriteAnswerKeeps ==
    ASSUME IInv, NEW c \in Callers, WriteAnswer(c)
    PROVE  IInv'
<1>1. CallFacts(serving[c]) /\ serving[c].op = "answer"
  BY DEF IInv, CallsInv, WriteAnswer
<1>2. PICK r \in DOMAIN requests : r = serving[c].request
  BY <1>1 DEF CallFacts, Changing
<1>3. PICK key \in Keys : key = serving[c].key
  BY <1>1 DEF CallFacts
<1> DEFINE row == [requests[r] EXCEPT !.answers = @ \cup {key}]
<1>4. requests[r] \in Request
  BY RowTyped
<1>5. row \in Request /\ row.by = requests[r].by /\ row.status = requests[r].status
  BY <1>4 DEF Request
<1>6. requests' = [requests EXCEPT ![r] = row] /\ Ends(c) /\ UNCHANGED <<published, failures>>
  BY <1>2, <1>3 DEF WriteAnswer
<1> HIDE DEF row
<1>7. row.status \in {"draft", "submitted"} => r \in Reviving(row.by)
  BY <1>5 DEF Reviving
<1> QED
  BY <1>5, <1>6, <1>7, WriteKeeps

\* A submission was counted when it read the draft.
LEMMA WriteStatusKeeps ==
    ASSUME IInv, NEW c \in Callers, WriteStatus(c)
    PROVE  IInv'
<1>1. CallFacts(serving[c]) /\ serving[c].op \in {"submit", "review"}
  BY DEF IInv, CallsInv, WriteStatus
<1>2. PICK r \in DOMAIN requests : r = serving[c].request
  BY <1>1 DEF CallFacts, Changing
<1>3. PICK status \in {"submitted", "approved", "rejected"} :
          status = serving[c].status /\ (status = "submitted" => Submitting(c, r))
  BY <1>1, <1>2 DEF CallFacts, Submitting
<1> DEFINE row == [requests[r] EXCEPT !.status = status]
<1>4. requests[r] \in Request
  BY RowTyped
<1>5. row \in Request /\ row.by = requests[r].by /\ row.status = status
  BY <1>3, <1>4 DEF Request, RequestStatuses
<1>6. requests' = [requests EXCEPT ![r] = row] /\ Ends(c) /\ UNCHANGED <<published, failures>>
  BY <1>2, <1>3 DEF WriteStatus
<1> HIDE DEF row
<1>7. row.status \in {"draft", "submitted"} => r \in Reviving(row.by)
  BY <1>3, <1>5 DEF Reviving
<1>8. row.status # "converted"
  BY <1>3, <1>5
<1> QED
  BY <1>5, <1>6, <1>7, <1>8, WriteKeeps

-----------------------------------------------------------------------------
(* Publishing and closing *)

LEMMA OutcomeCodesTyped ==
    ASSUME PublicationAssumption, NEW p \in Proposals
    PROVE  /\ OutcomeCodes(p) \in Seq({Code[l] : l \in DOMAIN Code} \cup {"YES", "NO"})
           /\ Len(OutcomeCodes(p)) >= 2
<1> DEFINE codes == {Code[l] : l \in DOMAIN Code} \cup {"YES", "NO"}
<1>1. p.outcomes \in Seq(DOMAIN Code) /\ Len(p.outcomes) \in Nat /\ DOMAIN p.outcomes = 1..Len(p.outcomes)
  BY DEF PublicationAssumption
<1>2. CASE Len(p.outcomes) >= 2
  <2>1. OutcomeCodes(p) = [i \in 1..Len(p.outcomes) |-> Code[p.outcomes[i]]]
    BY <1>1, <1>2 DEF OutcomeCodes
  <2>2. \A i \in 1..Len(p.outcomes) : Code[p.outcomes[i]] \in codes
    BY <1>1
  <2> HIDE DEF codes
  <2>3. OutcomeCodes(p) \in Seq(codes) /\ Len(OutcomeCodes(p)) = Len(p.outcomes)
    BY <1>1, <2>1, <2>2
  <2> QED
    BY <1>2, <2>3 DEF codes
<1>3. CASE ~(Len(p.outcomes) >= 2)
  <2>1. OutcomeCodes(p) = <<"YES", "NO">>
    BY <1>3 DEF OutcomeCodes
  <2>2. "YES" \in codes /\ "NO" \in codes
    OBVIOUS
  <2> HIDE DEF codes
  <2>3. OutcomeCodes(p) \in Seq(codes) /\ Len(OutcomeCodes(p)) = 2
    BY <2>1, <2>2
  <2> QED
    BY <2>3 DEF codes
<1> QED
  BY <1>2, <1>3

LEMMA MarketSlugTyped ==
    ASSUME IInv, NEW r \in DOMAIN requests, NEW title \in DOMAIN TitleSlug
    PROVE  MarketSlug(r, title) \in {TitleSlug[t] : t \in DOMAIN TitleSlug} \cup 1..MaxRequests
<1>1. r \in 1..MaxRequests /\ requests[r].proposal \in Proposals
  BY RowTyped DEF Request
<1>2. requests[r].proposal.slug \in {None} \cup {TitleSlug[t] : t \in DOMAIN TitleSlug}
  BY <1>1 DEF IInv, PublicationAssumption
<1> QED
  BY <1>1, <1>2 DEF MarketSlug, SlugOf

LEMMA InsertMarketKeeps ==
    ASSUME IInv, NEW c \in Callers, InsertMarket(c)
    PROVE  IInv'
<1>1. CallFacts(serving[c]) /\ serving[c].op = "publish" /\ Ends(c) /\ UNCHANGED failures
  BY DEF IInv, CallsInv, InsertMarket
<1>2. PICK r \in DOMAIN requests : r = serving[c].request
  BY <1>1 DEF CallFacts, Changing
<1>3. PICK title \in DOMAIN TitleSlug : title = serving[c].title
  BY <1>1 DEF CallFacts
<1>4. CASE UNCHANGED <<requests, published>>
  <2>1. failures' \in 0..MaxFailures /\ failures' >= failures
    BY <1>1, Finite DEF IInv, TypeOK
  <2> QED
    BY <1>1, <1>4, <2>1, EndsKeeps
<1>5. CASE ~UNCHANGED <<requests, published>>
  <2> DEFINE slug == MarketSlug(r, title)
             codes == OutcomeCodes(requests[r].proposal)
             market == [request |-> r, slug |-> slug, title |-> title, codes |-> codes, closed |-> FALSE]
             row == [requests[r] EXCEPT !.status = "converted"]
             new == Len(published) + 1
  <2>1. /\ ~Taken(r, slug) /\ IsInjective(codes)
        /\ requests' = [requests EXCEPT ![r] = row] /\ published' = Append(published, market)
    BY <1>2, <1>3, <1>5 DEF InsertMarket
  <2>2. requests[r] \in Request /\ r \in 1..MaxRequests
    BY RowTyped
  <2>3. row \in Request /\ row.by = requests[r].by /\ row.status = "converted"
    BY <2>2 DEF Request, RequestStatuses
  <2> HIDE DEF row
  <2>4. /\ codes \in Seq({Code[l] : l \in DOMAIN Code} \cup {"YES", "NO"}) /\ Len(codes) >= 2
        /\ slug \in {TitleSlug[t] : t \in DOMAIN TitleSlug} \cup 1..MaxRequests
    BY <2>2, OutcomeCodesTyped, MarketSlugTyped DEF Request, IInv
  <2> HIDE DEF slug, codes
  <2>5. market \in Market /\ market.request = r /\ market.slug = slug /\ market.codes = codes
    BY <2>2, <2>4 DEF Market
  <2> HIDE DEF market
  <2>6. published \in Seq(Market) /\ DOMAIN published = 1..Len(published) /\ Len(published) \in Nat
    BY DEF IInv, TypeOK
  <2>7. /\ published' \in Seq(Market) /\ DOMAIN published' = DOMAIN published \cup {new}
        /\ published'[new] = market /\ new \notin DOMAIN published
        /\ \A m \in DOMAIN published : published'[m] = published[m]
    BY <2>1, <2>5, <2>6, AppendProperties
  <2> HIDE DEF new
  <2>8. \A m \in DOMAIN published' : Len(published'[m].codes) >= 2 /\ IsInjective(published'[m].codes)
    <3>1. \A m \in DOMAIN published : Len(published[m].codes) >= 2 /\ IsInjective(published[m].codes)
      BY DEF IInv, PublishedWhole
    <3> QED
      BY <2>1, <2>4, <2>5, <2>7, <3>1
  <2>9. \A q \in DOMAIN requests :
             requests'[q].status = "converted" => \E m \in DOMAIN published' : published'[m].request = q
    <3>1. \A q \in DOMAIN requests \ {r} : requests'[q] = requests[q]
      BY <2>1 DEF IInv, TypeOK
    <3>2. \A q \in DOMAIN requests \ {r} :
              requests'[q].status = "converted" => \E m \in DOMAIN published : published[m].request = q
      BY <3>1 DEF IInv, PublishedWhole
    <3>3. \A q \in DOMAIN requests \ {r} :
              requests'[q].status = "converted" => \E m \in DOMAIN published' : published'[m].request = q
      BY <2>7, <3>2
    <3>4. \E m \in DOMAIN published' : published'[m].request = r
      BY <2>5, <2>7
    <3> QED
      BY <3>3, <3>4
  <2>10. ~(row.status \in {"draft", "submitted"})
    BY <2>3
  <2> QED
    BY <1>1, <2>1, <2>3, <2>7, <2>8, <2>9, <2>10, RowKeeps
<1> QED
  BY <1>4, <1>5

LEMMA CloseKeeps ==
    ASSUME IInv, NEW m \in DOMAIN published, Close(m)
    PROVE  IInv'
<1> USE DEF IInv
<1> DEFINE market == [published[m] EXCEPT !.closed = TRUE]
<1>1. published \in Seq(Market) /\ published[m] \in Market /\ DOMAIN published = 1..Len(published)
  BY DEF TypeOK
<1>2. /\ market \in Market /\ market.request = published[m].request /\ market.slug = published[m].slug
      /\ market.codes = published[m].codes
  BY <1>1 DEF Market
<1>3. published' = [published EXCEPT ![m] = market] /\ UNCHANGED <<requests, serving, failures>>
  BY DEF Close
<1> HIDE DEF market
<1>4. /\ published' \in Seq(Market) /\ DOMAIN published' = DOMAIN published
      /\ \A n \in DOMAIN published : /\ published'[n].request = published[n].request
                                     /\ published'[n].slug = published[n].slug
                                     /\ published'[n].codes = published[n].codes
  BY <1>1, <1>2, <1>3, ExceptSeq
<1>5. PublicationAssumption' /\ TypeOK'
  BY <1>3, <1>4 DEF TypeOK, PublicationAssumption
<1>6. CallsInv'
  BY <1>3 DEF CallsInv, CallFacts
<1>7. PublishedWhole'
  BY <1>3, <1>4 DEF PublishedWhole
<1>8. BoundInv'
  BY <1>3 DEF BoundInv, Bound, Reviving, Adding, Submitting
<1> QED
  BY <1>5, <1>6, <1>7, <1>8

-----------------------------------------------------------------------------
(* The invariant *)

LEMMA InitInv ==
    ASSUME PublicationAssumption, Init
    PROVE  IInv
<1>1. TypeOK
  <2>1. requests \in Seq(Request) /\ Len(requests) = 0 /\ published \in Seq(Market)
    BY DEF Init
  <2>2. serving \in [Callers -> Call] /\ failures \in 0..MaxFailures
    BY NoCallFacts DEF Init, PublicationAssumption
  <2> QED
    BY <2>1, <2>2 DEF TypeOK, PublicationAssumption
<1>2. CallsInv
  BY NoCallFacts DEF CallsInv, Init
<1>3. DOMAIN requests = {} /\ DOMAIN published = {}
  BY DEF Init
<1>4. PublishedWhole
  BY <1>3 DEF PublishedWhole
<1>5. ASSUME NEW u \in Users
      PROVE  Bound(u)
  <2>1. Reviving(u) = {} /\ Adding(u) = {} /\ failures = 0
    BY <1>3 DEF Reviving, Adding, Init, NoCall
  <2>2. Cardinality({}) = 0
    BY FS_EmptySet
  <2>3. MaxPending \in Nat /\ Cardinality(Callers) \in Nat /\ Cardinality(Callers) >= 1
    BY <1>1, Finite
  <2> QED
    BY <2>1, <2>2, <2>3 DEF Bound
<1> QED
  BY <1>1, <1>2, <1>4, <1>5 DEF IInv, BoundInv

LEMMA NextKeeps ==
    ASSUME IInv, Next
    PROVE  IInv'
<1>1. ASSUME NEW c \in Callers, NEW u \in Users, NEW p \in Proposals, CreateRequest(c, u, p)
      PROVE  IInv'
  BY <1>1, CreateRequestKeeps
<1>2. ASSUME NEW c \in Callers,
             \/ CheckSpam(c) \/ CheckSpamFails(c) \/ CheckDuplicates(c) \/ CheckDuplicatesFails(c) \/ InsertRequest(c)
      PROVE  IInv'
  BY <1>2, CheckSpamKeeps, CheckSpamFailsKeeps, CheckDuplicatesKeeps, CheckDuplicatesFailsKeeps, InsertRequestKeeps
<1>3. ASSUME NEW c \in Callers, NEW r \in DOMAIN requests,
             \/ \E title \in Titles \cup {None} : UpdateRequest(c, r, title)
             \/ \E key \in Keys : UpsertAnswer(c, r, key)
             \/ SubmitRequest(c, r)
             \/ \E approved \in BOOLEAN : ReviewRequest(c, r, approved)
             \/ PublishFromRequest(c, r)
      PROVE  IInv'
  BY <1>3, UpdateRequestKeeps, UpsertAnswerKeeps, SubmitRequestKeeps, ReviewRequestKeeps, PublishFromRequestKeeps
<1>4. ASSUME NEW c \in Callers, WriteTitle(c) \/ WriteAnswer(c) \/ WriteStatus(c) \/ Interrupted(c) \/ InsertMarket(c)
      PROVE  IInv'
  BY <1>4, WriteTitleKeeps, WriteAnswerKeeps, WriteStatusKeeps, InterruptedKeeps, InsertMarketKeeps
<1>5. ASSUME NEW m \in DOMAIN published, Close(m)
      PROVE  IInv'
  BY <1>5, CloseKeeps
<1> QED
  BY <1>1, <1>2, <1>3, <1>4, <1>5 DEF Next

LEMMA StutterKeeps ==
    ASSUME IInv, UNCHANGED vars
    PROVE  IInv'
BY DEF IInv, vars, PublicationAssumption, TypeOK, CallsInv, CallFacts, PublishedWhole, BoundInv, Bound,
       Reviving, Adding, Submitting

\* A pending request is one that may be pending.
LEMMA BoundSuffices ==
    ASSUME IInv
    PROVE  PendingBounded
<1> SUFFICES ASSUME NEW u \in Users
             PROVE  Cardinality(Pending(u)) <= MaxPending + Cardinality(Callers) - 1 + failures
  BY DEF PendingBounded, Pending
<1>1. Pending(u) \subseteq Reviving(u)
  BY DEF Pending, Reviving
<1>2. IsFiniteSet(Reviving(u)) /\ Cardinality(Reviving(u)) \in Nat /\ Cardinality(Adding(u)) \in Nat
  BY Finite DEF IInv
<1>3. Cardinality(Pending(u)) <= Cardinality(Reviving(u)) /\ Cardinality(Pending(u)) \in Nat
  BY <1>1, <1>2, FS_Subset, FS_CardinalityType
<1>4. Cardinality(Callers) \in Nat /\ failures \in Nat /\ MaxPending \in Nat
  BY Finite DEF IInv
<1> QED
  BY <1>2, <1>3, <1>4 DEF IInv, BoundInv, Bound

===================================================================================
