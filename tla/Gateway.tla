--------------------------------- MODULE Gateway ---------------------------------
(***************************************************************************)
(* The websocket gateway: one task takes the engine's events from Redis in  *)
(* their order and sends each to the broadcast channel of its market; every *)
(* websocket has a task that reads from the channel it subscribed to.  The  *)
(* map of channels is read and written under a lock that is released in     *)
(* between, and a slow reader loses what the channel no longer holds.       *)
(***************************************************************************)
EXTENDS Integers, Sequences, SequencesExt

CONSTANTS
    Markets,
    Clients,      \* websockets
    None,
    Capacity,     \* of a broadcast channel
    MaxEvents     \* bound: events published

GatewayAssumption == Capacity \in Nat \ {0} /\ MaxEvents \in Nat

VARIABLES
    running,      \* FALSE once the process has ended
    wire,         \* markets of the events on their way from Redis
    channelOf,    \* by market, the channel in the map, or 0
    channels,     \* by channel, the events sent to it
    dispatching,  \* the market whose channel the event loop has to make, or None
    dispatched,   \* the market of every event sent so far; its number is the event
    clients

vars == <<running, wire, channelOf, channels, dispatching, dispatched, clients>>

\* A websocket: the channel it reads, how far, and what it was sent of it.
Client == [phase : {"away", "finding", "listening"}, market : Markets \cup {None}, channel : Nat, at : Nat,
           from : Nat, got : Seq(1..MaxEvents), lagged : BOOLEAN]

Away == [phase |-> "away", market |-> None, channel |-> 0, at |-> 0, from |-> 0, got |-> <<>>, lagged |-> FALSE]

TypeOK ==
    /\ running \in BOOLEAN
    /\ wire \in Seq(Markets) /\ dispatched \in Seq(Markets)
    /\ Len(wire) + Len(dispatched) <= MaxEvents
    /\ channelOf \in [Markets -> 0..Len(channels)]
    /\ dispatching \in Markets \cup {None}
    /\ channels \in Seq(Seq(1..MaxEvents))
    /\ clients \in [Clients -> Client]

Init ==
    /\ running = TRUE
    /\ wire = <<>> /\ dispatched = <<>> /\ channels = <<>>
    /\ channelOf = [m \in Markets |-> 0]
    /\ dispatching = None
    /\ clients = [k \in Clients |-> Away]

-----------------------------------------------------------------------------
(* GatewayState *)

\* Mutant: a task that found no channel puts its own, whatever was put since.
InsertChannel(m) ==
    /\ channels' = Append(channels, <<>>)
    /\ channelOf' = [channelOf EXCEPT ![m] = Len(channels) + 1]

OrInsertChannel(m) ==
    IF channelOf[m] # 0
    THEN UNCHANGED <<channels, channelOf>>
    ELSE /\ channels' = Append(channels, <<>>)
         /\ channelOf' = [channelOf EXCEPT ![m] = Len(channels) + 1]

\* A receiver holds what is sent from now on.
Listening(k, m, channel, length) ==
    [clients EXCEPT ![k] = [Away EXCEPT !.phase = "listening", !.market = m, !.channel = channel,
                                        !.at = length, !.from = Len(dispatched)]]

Subscribe(k, m) ==
    /\ running /\ clients[k].phase = "away"
    /\ clients' = IF channelOf[m] # 0
                  THEN Listening(k, m, channelOf[m], Len(channels[channelOf[m]]))
                  ELSE [clients EXCEPT ![k] = [Away EXCEPT !.phase = "finding", !.market = m]]
    /\ UNCHANGED <<running, wire, channelOf, channels, dispatching, dispatched>>

SubscribeNew(k) ==
    LET m == clients[k].market
    IN /\ clients[k].phase = "finding"
       /\ OrInsertChannel(m)
       /\ clients' = Listening(k, m, channelOf'[m], Len(channels'[channelOf'[m]]))
       /\ UNCHANGED <<running, wire, dispatching, dispatched>>

-----------------------------------------------------------------------------
(* run_pubsub_loop *)

\* The engine publishes an event to Redis.
Publish(m) ==
    /\ running /\ Len(wire) + Len(dispatched) < MaxEvents
    /\ wire' = Append(wire, m)
    /\ UNCHANGED <<running, channelOf, channels, dispatching, dispatched, clients>>

Send(m) ==
    /\ channels' = [channels EXCEPT ![channelOf[m]] = Append(@, Len(dispatched) + 1)]
    /\ dispatched' = Append(dispatched, m)

Dispatch ==
    /\ wire # <<>> /\ dispatching = None
    /\ IF channelOf[Head(wire)] # 0
       THEN Send(Head(wire)) /\ wire' = Tail(wire) /\ UNCHANGED dispatching
       ELSE dispatching' = Head(wire) /\ UNCHANGED <<channels, dispatched, wire>>
    /\ UNCHANGED <<running, channelOf, clients>>

\* The sender that the loop has just put, or found, gets the event in the next step.
MakeChannel ==
    /\ dispatching # None
    /\ OrInsertChannel(dispatching)
    /\ dispatching' = None
    /\ UNCHANGED <<running, wire, dispatched, clients>>

\* An event that does not parse is logged and dropped.
DropEvent ==
    /\ wire # <<>> /\ dispatching = None
    /\ wire' = Tail(wire)
    /\ UNCHANGED <<running, channelOf, channels, dispatching, dispatched, clients>>

\* The stream ends with Redis, a payload is not text or the process is told to
\* stop: main returns, and every task and websocket goes with it.
Ends ==
    /\ running /\ running' = FALSE
    /\ wire' = <<>> /\ dispatching' = None
    /\ clients' = [k \in Clients |-> Away]
    /\ UNCHANGED <<channelOf, channels, dispatched>>

-----------------------------------------------------------------------------
(* handle_market_socket *)

\* The events that the channel of a client still holds.
Held(k) == LET sent == channels[clients[k].channel] IN Len(sent) - clients[k].at

Receive(k) ==
    /\ clients[k].phase = "listening" /\ Held(k) \in 1..Capacity
    /\ clients' = [clients EXCEPT ![k].at = @ + 1,
                                  ![k].got = Append(@, channels[clients[k].channel][clients[k].at + 1])]
    /\ UNCHANGED <<running, wire, channelOf, channels, dispatching, dispatched>>

\* A receiver that is too far behind goes on with the oldest event that is held.
Lag(k) ==
    /\ clients[k].phase = "listening" /\ Held(k) > Capacity
    /\ clients' = [clients EXCEPT ![k].at = @ + Held(k) - Capacity, ![k].lagged = TRUE]
    /\ UNCHANGED <<running, wire, channelOf, channels, dispatching, dispatched>>

Disconnect(k) ==
    /\ clients[k].phase = "listening"
    /\ clients' = [clients EXCEPT ![k] = Away]
    /\ UNCHANGED <<running, wire, channelOf, channels, dispatching, dispatched>>

Next ==
    \/ \E m \in Markets : Publish(m) \/ \E k \in Clients : Subscribe(k, m)
    \/ \E k \in Clients : SubscribeNew(k) \/ Receive(k) \/ Lag(k) \/ Disconnect(k)
    \/ Dispatch \/ MakeChannel \/ DropEvent \/ Ends

-----------------------------------------------------------------------------
(* Properties *)

\* Two tasks that find no channel at once still share one: a client has, or has
\* waiting, exactly the events of its market since it subscribed, in their
\* order; one that lagged misses some of them, but sees no event twice or late.
ClientsHear ==
    \A k \in Clients :
        clients[k].phase = "listening" =>
            LET since == {i \in 1..Len(dispatched) : i > clients[k].from /\ dispatched[i] = clients[k].market}
                sent == channels[clients[k].channel]
                heard == clients[k].got \o SubSeq(sent, clients[k].at + 1, Len(sent))
            IN /\ ToSet(heard) \subseteq since
               /\ ~clients[k].lagged => since \subseteq ToSet(heard)
               /\ \A i, j \in DOMAIN heard : i < j => heard[i] < heard[j]
=============================================================================
