------------------------------- MODULE Publication -------------------------------
(***************************************************************************)
(* From a proposal to a market, in PostgreSQL: the quality checks, the      *)
(* requester's draft, the review and the publication.  Every call first     *)
(* reads, without a lock, and writes later in the same transaction or in    *)
(* another one; updates do not look at the status again.  A step here is    *)
(* one statement, or the statements after which nothing else is read.       *)
(***************************************************************************)
EXTENDS Integers, Sequences, FiniteSets, SequencesExt

CONSTANTS
    Users,
    Callers,       \* requests that the API serves at once
    Proposals,     \* what MarketRequestCreateRequest may hold
    Titles,        \* titles that an update may bring
    TitleSlug,     \* normalize_slug of a title, or None
    Code,          \* the outcome code of a custom label: its first ten letters
    SourceModes,   \* the resolution modes for which a settlement source exists
    Keys,          \* question keys of answers
    None,
    MaxPending,    \* MAX_PENDING_REQUESTS_PER_USER
    MaxRequests,   \* bound: rows of market_creation_requests
    MaxFailures    \* bound: quality queries that fail

PublicationAssumption ==
    /\ Proposals \subseteq [title : DOMAIN TitleSlug, slug : {None} \cup {TitleSlug[t] : t \in DOMAIN TitleSlug},
                            titleLength : Nat, questionLength : Nat, placeholder : BOOLEAN,
                            mode : STRING, access : STRING, source : BOOLEAN, rail : BOOLEAN,
                            outcomes : Seq(DOMAIN Code)]
    /\ Titles \subseteq DOMAIN TitleSlug
    /\ {MaxPending, MaxRequests, MaxFailures} \subseteq Nat
    /\ IsFiniteSet(Callers) /\ Callers # {}

VARIABLES
    requests,      \* the rows of market_creation_requests, their answers with them
    published,     \* the rows of markets made from requests, their outcomes with them
    serving,       \* what each request to the API is doing
    failures       \* quality queries that have failed

vars == <<requests, published, serving, failures>>

RequestStatuses == {"draft", "submitted", "approved", "rejected", "converted"}

Request == [by : Users, proposal : Proposals, title : DOMAIN TitleSlug,
            status : RequestStatuses, answers : SUBSET Keys]

\* Without a slug of its own, a market is named for its request.
Market == [request : 1..MaxRequests, slug : {TitleSlug[t] : t \in DOMAIN TitleSlug} \cup 1..MaxRequests,
           title : DOMAIN TitleSlug, codes : Seq({Code[l] : l \in DOMAIN Code} \cup {"YES", "NO"}),
           closed : BOOLEAN]

\* What a call that creates a request, or one that changes it, still needs.
Proposing == {"spam", "duplicates", "insert"}
Changing == {"update", "answer", "submit", "review", "publish"}

Call == [op : {"none"} \cup Proposing \cup Changing, by : Users \cup {None}, proposal : Proposals \cup {None},
         blocked : BOOLEAN, request : 0..MaxRequests, title : DOMAIN TitleSlug \cup {None},
         key : Keys \cup {None}, status : RequestStatuses \cup {None}]

NoCall == [op |-> "none", by |-> None, proposal |-> None, blocked |-> FALSE,
           request |-> 0, title |-> None, key |-> None, status |-> None]

TypeOK ==
    /\ requests \in Seq(Request) /\ Len(requests) <= MaxRequests
    /\ published \in Seq(Market)
    /\ serving \in [Callers -> Call]
    /\ failures \in 0..MaxFailures

Init ==
    /\ requests = <<>>
    /\ published = <<>>
    /\ serving = [c \in Callers |-> NoCall]
    /\ failures = 0

Begins(c, call) == serving[c].op = "none" /\ serving' = [serving EXCEPT ![c] = call]

Continues(c, op, blocked) == serving' = [serving EXCEPT ![c].op = op, ![c].blocked = blocked]

Ends(c) == serving' = [serving EXCEPT ![c] = NoCall]

-----------------------------------------------------------------------------
(* MarketQualityService.check_proposal and create_request *)

LintErrors(p) ==
    {e \in {"title_too_short", "title_too_long", "question_too_short", "question_too_long",
            "spam_content", "invalid_resolution_mode", "invalid_access_mode"} :
        \/ e = "title_too_short" /\ p.titleLength < 8
        \/ e = "title_too_long" /\ p.titleLength > 200
        \/ e = "question_too_short" /\ p.questionLength < 10
        \/ e = "question_too_long" /\ p.questionLength > 500
        \/ e = "spam_content" /\ p.placeholder
        \/ e = "invalid_resolution_mode" /\ p.mode \notin {"oracle", "api", "council"}
        \/ e = "invalid_access_mode" /\ p.access \notin {"public", "private_group"}}

CreateRequest(c, u, p) ==
    /\ Len(requests) < MaxRequests
    /\ Begins(c, [NoCall EXCEPT !.op = "spam", !.by = u, !.proposal = p])
    /\ UNCHANGED <<requests, published, failures>>

\* Mutant: drafts do not count as pending.
PendingSubmitted(u) == {r \in DOMAIN requests : requests[r].by = u /\ requests[r].status = "submitted"}

Pending(u) == {r \in DOMAIN requests : requests[r].by = u /\ requests[r].status \in {"draft", "submitted"}}

CheckSpam(c) ==
    /\ serving[c].op = "spam"
    /\ Continues(c, "duplicates", Cardinality(Pending(serving[c].by)) >= MaxPending)
    /\ UNCHANGED <<requests, published, failures>>

\* A query that fails is logged, and the proposal goes on.
CheckSpamFails(c) ==
    /\ serving[c].op = "spam"
    /\ failures < MaxFailures /\ failures' = failures + 1
    /\ Continues(c, "duplicates", FALSE)
    /\ UNCHANGED <<requests, published>>

SlugOf(slug, title) == IF slug # None THEN slug ELSE TitleSlug[title]

\* The exact matches among the markets that are still going and the open requests.
Duplicates(p) ==
    LET slug == SlugOf(p.slug, p.title)
        going == {published[m] : m \in {n \in DOMAIN published : ~published[n].closed}}
        open == {requests[r] : r \in {q \in DOMAIN requests : requests[q].status \in {"draft", "submitted", "approved"}}}
    IN \/ \E market \in going : market.title = p.title \/ market.slug = slug
       \/ slug # None /\ \E request \in open : request.proposal.slug = slug

CheckDuplicates(c) ==
    LET p == serving[c].proposal
    IN /\ serving[c].op = "duplicates"
       /\ IF serving[c].blocked \/ LintErrors(p) # {} \/ Duplicates(p)
          THEN Ends(c)
          ELSE Continues(c, "insert", FALSE)
       /\ UNCHANGED <<requests, published, failures>>

CheckDuplicatesFails(c) ==
    /\ serving[c].op = "duplicates"
    /\ failures < MaxFailures /\ failures' = failures + 1
    /\ IF serving[c].blocked \/ LintErrors(serving[c].proposal) # {} THEN Ends(c) ELSE Continues(c, "insert", FALSE)
    /\ UNCHANGED <<requests, published>>

\* The slug of a request is unique where it has one.
InsertRequest(c) ==
    LET p == serving[c].proposal
    IN /\ serving[c].op = "insert" /\ Len(requests) < MaxRequests
       /\ IF p.slug # None /\ \E r \in DOMAIN requests : requests[r].proposal.slug = p.slug
          THEN UNCHANGED requests
          ELSE requests' = Append(requests, [by |-> serving[c].by, proposal |-> p, title |-> p.title,
                                             status |-> "draft", answers |-> {}])
       /\ Ends(c)
       /\ UNCHANGED <<published, failures>>

-----------------------------------------------------------------------------
(* update_request, upsert_answer, submit_request and review_request *)

Reads(c, r, from, call) ==
    /\ r \in DOMAIN requests /\ requests[r].status = from
    /\ Begins(c, [call EXCEPT !.request = r])
    /\ UNCHANGED <<requests, published, failures>>

UpdateRequest(c, r, title) ==
    Reads(c, r, "draft", [NoCall EXCEPT !.op = "update", !.title = IF title = None THEN requests[r].title ELSE title])

UpsertAnswer(c, r, key) ==
    Reads(c, r, "draft", [NoCall EXCEPT !.op = "answer", !.key = key])

SubmitRequest(c, r) == Reads(c, r, "draft", [NoCall EXCEPT !.op = "submit", !.status = "submitted"])

ReviewRequest(c, r, approved) ==
    Reads(c, r, "submitted", [NoCall EXCEPT !.op = "review", !.status = IF approved THEN "approved" ELSE "rejected"])

WriteTitle(c) ==
    /\ serving[c].op = "update"
    /\ requests' = [requests EXCEPT ![serving[c].request].title = serving[c].title]
    /\ Ends(c)
    /\ UNCHANGED <<published, failures>>

\* A key that was inserted in between refuses the insert: the row is there.
WriteAnswer(c) ==
    LET r == serving[c].request
    IN /\ serving[c].op = "answer"
       /\ requests' = [requests EXCEPT ![r].answers = @ \cup {serving[c].key}]
       /\ Ends(c)
       /\ UNCHANGED <<published, failures>>

WriteStatus(c) ==
    /\ serving[c].op \in {"submit", "review"}
    /\ requests' = [requests EXCEPT ![serving[c].request].status = serving[c].status]
    /\ Ends(c)
    /\ UNCHANGED <<published, failures>>

-----------------------------------------------------------------------------
(* publish_from_request *)

\* The guards and the reads, and then the wait for the reference snapshot.
PublishFromRequest(c, r) ==
    /\ r \in DOMAIN requests /\ requests[r].status \in {"submitted", "approved"}
    /\ \A m \in DOMAIN published : published[m].request # r
    /\ requests[r].proposal.rail
    /\ requests[r].proposal.source \/ requests[r].proposal.mode \in SourceModes
    /\ Begins(c, [NoCall EXCEPT !.op = "publish", !.request = r, !.title = requests[r].title])
    /\ UNCHANGED <<requests, published, failures>>

\* The market data service or the API fails.
Interrupted(c) ==
    /\ serving[c].op = "publish"
    /\ Ends(c)
    /\ UNCHANGED <<requests, published, failures>>

\* Without a slug of its own and letters in its title, a market is named for its request.
MarketSlug(r, title) ==
    LET slug == SlugOf(requests[r].proposal.slug, title) IN IF slug = None THEN r ELSE slug

OutcomeCodes(p) ==
    IF Len(p.outcomes) >= 2 THEN [i \in DOMAIN p.outcomes |-> Code[p.outcomes[i]]] ELSE <<"YES", "NO">>

\* The unique constraints on a market's slug and on the request it was made from.
Taken(r, slug) == \E m \in DOMAIN published : published[m].request = r \/ published[m].slug = slug

\* Mutant: the request is converted whether its market could be inserted or not.
InsertMarketOrNot(c) ==
    LET r == serving[c].request
        slug == MarketSlug(r, serving[c].title)
        codes == OutcomeCodes(requests[r].proposal)
    IN /\ serving[c].op = "publish"
       /\ requests' = [requests EXCEPT ![r].status = "converted"]
       /\ published' = IF Taken(r, slug) \/ ~IsInjective(codes) THEN published
                       ELSE Append(published, [request |-> r, slug |-> slug, title |-> serving[c].title,
                                               codes |-> codes, closed |-> FALSE])
       /\ Ends(c)
       /\ UNCHANGED failures

\* The market, its outcomes and the conversion, or none of them.
InsertMarket(c) ==
    LET r == serving[c].request
        slug == MarketSlug(r, serving[c].title)
        codes == OutcomeCodes(requests[r].proposal)
    IN /\ serving[c].op = "publish"
       /\ IF Taken(r, slug) \/ ~IsInjective(codes)
          THEN UNCHANGED <<requests, published>>
          ELSE /\ requests' = [requests EXCEPT ![r].status = "converted"]
               /\ published' = Append(published, [request |-> r, slug |-> slug, title |-> serving[c].title,
                                                  codes |-> codes, closed |-> FALSE])
       /\ Ends(c)
       /\ UNCHANGED failures

\* A market is settled or cancelled.
Close(m) ==
    /\ ~published[m].closed
    /\ published' = [published EXCEPT ![m].closed = TRUE]
    /\ UNCHANGED <<requests, serving, failures>>

Next ==
    \/ \E c \in Callers :
        \/ \E u \in Users, p \in Proposals : CreateRequest(c, u, p)
        \/ CheckSpam(c) \/ CheckSpamFails(c) \/ CheckDuplicates(c) \/ CheckDuplicatesFails(c) \/ InsertRequest(c)
        \/ \E r \in DOMAIN requests :
            \/ \E title \in Titles \cup {None} : UpdateRequest(c, r, title)
            \/ \E key \in Keys : UpsertAnswer(c, r, key)
            \/ SubmitRequest(c, r)
            \/ \E approved \in BOOLEAN : ReviewRequest(c, r, approved)
            \/ PublishFromRequest(c, r)
        \/ WriteTitle(c) \/ WriteAnswer(c) \/ WriteStatus(c) \/ Interrupted(c) \/ InsertMarket(c)
    \/ \E m \in DOMAIN published : Close(m)

-----------------------------------------------------------------------------
(* Properties *)

\* Conversion, market and outcomes come together: a converted request has its
\* market, and a market has two or more outcomes that can be told apart.
PublishedWhole ==
    /\ \A r \in DOMAIN requests :
           requests[r].status = "converted" => \E m \in DOMAIN published : published[m].request = r
    /\ \A m \in DOMAIN published : Len(published[m].codes) >= 2 /\ IsInjective(published[m].codes)

\* The limit on pending requests is checked long before the insert: a user
\* passes it by one request for each other call under way, and for each check
\* that failed, but by no more.
PendingBounded ==
    \A u \in Users :
        Cardinality({r \in DOMAIN requests : requests[r].by = u /\ requests[r].status \in {"draft", "submitted"}})
            <= MaxPending + Cardinality(Callers) - 1 + failures
=============================================================================
