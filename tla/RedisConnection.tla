-------------------------- MODULE RedisConnection --------------------------
(***************************************************************************)
(* The connection manager of src/src/config/redis.ts inside one process:  *)
(* getClientOrConnect and connect, called by overlapping requests.  An     *)
(* ioredis client that fails its first connection, or loses it later,      *)
(* keeps reconnecting by itself (its default retryStrategy), also when the *)
(* manager has forgotten or replaced it.                                   *)
(***************************************************************************)
EXTENDS Naturals, Sequences, FiniteSets

CONSTANTS Calls,       \* the calls that can be in flight together
          MaxLosses    \* bound: connections that fail or drop

ASSUME MaxLossesAssumption == MaxLosses \in Nat

VARIABLES clients,       \* every client ever created, oldest first: "connecting",
                         \* "ready" or "reconnecting"
          client,        \* RedisManager.client: index in clients, 0 for null
          isConnecting,  \* RedisManager.isConnecting
          losses,        \* connections that failed or dropped (history)
          conn           \* call -> where it is in getClientOrConnect

connVars == <<clients, client, isConnecting, losses, conn>>

\* Where a call is: outside, in the polling loop, awaiting client.connect(),
\* answered with a client, or failed with an error.
Outside == [at |-> "outside", got |-> 0]
Waiting == [at |-> "waiting", got |-> 0]
Failed == [at |-> "failed", got |-> 0]
Answered(k) == [at |-> "answered", got |-> k]

ConnInit ==
    /\ clients = << >>
    /\ client = 0
    /\ isConnecting = FALSE
    /\ losses = 0
    /\ conn = [c \in Calls |-> Outside]

Ready == client # 0 /\ clients[client] = "ready"

\* connect() up to its first await; entered while a connection is in progress
\* it throws "Connection already in progress".
Connect(c) ==
    /\ UNCHANGED losses
    /\ IF isConnecting
       THEN /\ conn' = [conn EXCEPT ![c] = Failed]
            /\ UNCHANGED <<clients, client, isConnecting>>
       ELSE /\ isConnecting' = TRUE
            /\ clients' = Append(clients, "connecting")
            /\ client' = Len(clients) + 1
            /\ conn' = [conn EXCEPT ![c] = [at |-> "connecting", got |-> Len(clients) + 1]]

AnswerReady(c) ==
    /\ Ready
    /\ conn' = [conn EXCEPT ![c] = Answered(client)]
    /\ UNCHANGED <<clients, client, isConnecting, losses>>

\* Whether a call must wait for the connection in progress.
MustWait == isConnecting

getClientOrConnect(c) ==
    /\ conn[c] = Outside
    /\ \/ AnswerReady(c)
       \/ /\ ~Ready
          /\ MustWait
          /\ conn' = [conn EXCEPT ![c] = Waiting]
          /\ UNCHANGED <<clients, client, isConnecting, losses>>
       \/ ~Ready /\ ~MustWait /\ Connect(c)

\* As a mistake: the polling loop ends in connect() without a second look.
NotReadyAfterWait == FALSE

\* What a call that leaves the polling loop looks at before it connects.
ReadyAfterWait == Ready

\* A turn of the polling loop that finds no connection in progress.
Poll(c) ==
    /\ conn[c] = Waiting
    /\ ~MustWait
    /\ \/ ReadyAfterWait /\ AnswerReady(c)
       \/ ~ReadyAfterWait /\ Connect(c)

\* client.connect() resolves: the call returns whatever this.client is by now.
Connected(c) ==
    /\ conn[c].at = "connecting"
    /\ clients' = [clients EXCEPT ![conn[c].got] = "ready"]
    /\ isConnecting' = FALSE
    /\ conn' = [conn EXCEPT ![c] = Answered(client)]
    /\ UNCHANGED <<client, losses>>

\* As a mistake: isConnecting is reset on success only.
ConnectFailsBusy(c) ==
    /\ losses < MaxLosses
    /\ conn[c].at = "connecting"
    /\ clients' = [clients EXCEPT ![conn[c].got] = "reconnecting"]
    /\ client' = 0
    /\ UNCHANGED isConnecting
    /\ losses' = losses + 1
    /\ conn' = [conn EXCEPT ![c] = Failed]

\* client.connect() rejects: the manager forgets the client, which goes on
\* reconnecting by itself, and the call throws.
ConnectFails(c) ==
    /\ losses < MaxLosses
    /\ conn[c].at = "connecting"
    /\ clients' = [clients EXCEPT ![conn[c].got] = "reconnecting"]
    /\ client' = 0
    /\ isConnecting' = FALSE
    /\ losses' = losses + 1
    /\ conn' = [conn EXCEPT ![c] = Failed]

Drops(k) ==
    /\ losses < MaxLosses
    /\ clients[k] = "ready"
    /\ clients' = [clients EXCEPT ![k] = "reconnecting"]
    /\ losses' = losses + 1
    /\ UNCHANGED <<client, isConnecting, conn>>

Reconnects(k) ==
    /\ clients[k] = "reconnecting"
    /\ clients' = [clients EXCEPT ![k] = "ready"]
    /\ UNCHANGED <<client, isConnecting, losses, conn>>

ConnEnvironment == \E k \in DOMAIN clients : Drops(k) \/ Reconnects(k)

\* A new connection is only made for the first call and after the loss of
\* another one, however the calls overlap around the 50 ms polling loop; in
\* particular no two connections are in progress at once and the error
\* "Connection already in progress" is never thrown (redis.ts:35-61).
ConnectionsHaveReasons ==
    /\ Len(clients) <= 1 + losses
    /\ Cardinality({k \in DOMAIN clients : clients[k] = "connecting"}) <= 1
=============================================================================
