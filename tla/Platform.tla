-------------------------------- MODULE Platform --------------------------------
(***************************************************************************)
(* The parts of the API around the exchange, side by side: the publication  *)
(* of markets, wallets, communities with their posts, the client of the     *)
(* oracle's chain, and the websocket gateway.  They share no row, so a      *)
(* behaviour takes the steps of one of them and has no state of the others. *)
(***************************************************************************)
EXTENDS Integers, Sequences, FiniteSets

CONSTANTS
    Parts,
    Users, Requesters, Callers, None,
    Proposals, Titles, TitleSlug, Code, SourceModes, Keys, MaxPending, MaxRequests, MaxFailures,
    Repeated, MaxRepeated,  \* the queue: proposals that are only made, moved and published, and how many
    Founder, Addresses, Stores,
    Admins, Slugs, Seeded, Visible, Granted, Created, Changes, Backends, MaxMembers, MaxPosts,
    Candidates, Modes, Bond, Targets, Funds, Liveness, MaxTransactions, MaxTime,
    Markets, Clients, Capacity, MaxEvents

VARIABLES
    part,
    requests, published, serving, failures,
    store, wallets, updating,
    backend, communities, members, issued, posts, handling,
    mode, chain, sent, assertions, payloads, asking,
    running, wire, channelOf, channels, dispatching, dispatched, clients

P == INSTANCE Publication WITH Users <- Requesters
\* The same requests, more of them and with less in each.
Q == INSTANCE Publication WITH
         Users <- Requesters, Proposals <- Repeated, MaxRequests <- MaxRepeated, Titles <- {}, Keys <- {}
W == INSTANCE Wallets
C == INSTANCE Community
O == INSTANCE OracleClient
G == INSTANCE Gateway

ASSUME PlatformAssumption ==
    /\ Parts \subseteq {"publication", "queue", "wallets", "community", "oracle", "gateway"}
    /\ P!PublicationAssumption /\ Q!PublicationAssumption /\ W!WalletsAssumption
    /\ C!CommunityAssumption /\ O!OracleClientAssumption /\ G!GatewayAssumption

publicationVars == <<requests, published, serving, failures>>
walletVars == <<store, wallets, updating>>
communityVars == <<backend, communities, members, issued, posts, handling>>
oracleVars == <<mode, chain, sent, assertions, payloads, asking>>
gatewayVars == <<running, wire, channelOf, channels, dispatching, dispatched, clients>>
vars == <<part, publicationVars, walletVars, communityVars, oracleVars, gatewayVars>>

Init ==
    /\ part \in Parts
    /\ IF part \in {"publication", "queue"} THEN P!Init
       ELSE requests = None /\ published = None /\ serving = None /\ failures = None
    /\ IF part = "wallets" THEN W!Init
       ELSE store = None /\ wallets = None /\ updating = None
    /\ IF part = "community" THEN C!Init
       ELSE /\ backend = None /\ communities = None /\ members = None
            /\ issued = None /\ posts = None /\ handling = None
    /\ IF part = "oracle" THEN O!Init
       ELSE /\ mode = None /\ chain = None /\ sent = None
            /\ assertions = None /\ payloads = None /\ asking = None
    /\ IF part = "gateway" THEN G!Init
       ELSE /\ running = None /\ wire = None /\ channelOf = None /\ channels = None
            /\ dispatching = None /\ dispatched = None /\ clients = None

Next ==
    \/ part = "publication" /\ P!Next /\ UNCHANGED <<part, walletVars, communityVars, oracleVars, gatewayVars>>
    \/ part = "queue" /\ Q!Next /\ UNCHANGED <<part, walletVars, communityVars, oracleVars, gatewayVars>>
    \/ part = "wallets" /\ W!Next /\ UNCHANGED <<part, publicationVars, communityVars, oracleVars, gatewayVars>>
    \/ part = "community" /\ C!Next /\ UNCHANGED <<part, publicationVars, walletVars, oracleVars, gatewayVars>>
    \/ part = "oracle" /\ O!Next /\ UNCHANGED <<part, publicationVars, walletVars, communityVars, gatewayVars>>
    \/ part = "gateway" /\ G!Next /\ UNCHANGED <<part, publicationVars, walletVars, communityVars, oracleVars>>

Spec == Init /\ [][Next]_vars

-----------------------------------------------------------------------------
(* Properties *)

\* Every row and every call holds values of its type: what the tables and the
\* schemas of the API allow.
TypeOK ==
    /\ part = "publication" => P!TypeOK
    /\ part = "queue" => Q!TypeOK
    /\ part = "wallets" => W!TypeOK
    /\ part = "community" => C!TypeOK
    /\ part = "oracle" => O!TypeOK
    /\ part = "gateway" => G!TypeOK

\* A converted request has its market, and a market its outcomes
\* (publish_from_request).
PublishedWhole == part \in {"publication", "queue"} => P!PublishedWhole

\* Overlapping proposals pass the limit on pending requests by a known number
\* only (check_proposal and create_request).
PendingBounded == part \in {"publication", "queue"} => P!PendingBounded

\* Overlapping calls leave no more primary wallets than there are calls
\* (create_wallet and update_wallet).
PrimaryWallets == part = "wallets" => W!PrimaryWallets

\* A confirmed payload names the assertion of its own transaction
\* (begin_resolution and reconcile_resolution).
RecordedOwnAssertion == part = "oracle" => O!RecordedOwnAssertion

\* A payload is never ahead of the chain (reconcile_resolution).
RecordedNotAhead == part = "oracle" => O!RecordedNotAhead

\* Tasks that find no channel of a market at once still share one, and a
\* websocket that keeps up hears every event of its market (sender_for).
ClientsHear == part = "gateway" => G!ClientsHear
=============================================================================
