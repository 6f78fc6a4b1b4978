------------------------- MODULE RateLimitingProofs -------------------------
(***************************************************************************)
(* Proofs about RateLimiting and the RedisConnection under it, for any     *)
(* number of overlapping requests, losses of a connection and requests.    *)
(***************************************************************************)
EXTENDS RateLimiting, SequenceTheorems, FiniteSetTheorems, TLAPS

-----------------------------------------------------------------------------
(* The connection manager.                                                 *)

ClientStates == {"connecting", "ready", "reconnecting"}
ConnLabels == {"outside", "waiting", "connecting", "answered", "failed"}
ConnRecords == [at : ConnLabels, got : Nat]

ConnType ==
    /\ clients \in Seq(ClientStates)
    /\ client \in 0..Len(clients)
    /\ isConnecting \in BOOLEAN
    /\ losses \in Nat
    /\ conn \in [Calls -> ConnRecords]

\* A call that holds a client holds one that was made.
HoldsClient ==
    \A c \in Calls : conn[c].at \in {"connecting", "answered"} => conn[c].got \in 1..Len(clients)

\* Only the newest client can be connecting, for one call, and it is the
\* manager's client as long as it is.
OneConnects ==
    /\ \A k \in 1..Len(clients) :
          clients[k] = "connecting" => isConnecting = TRUE /\ k = Len(clients)
    /\ \A c \in Calls :
          conn[c].at = "connecting" =>
              isConnecting = TRUE /\ conn[c].got = Len(clients) /\ client = Len(clients)
    /\ \A c, d \in Calls : conn[c].at = "connecting" /\ conn[d].at = "connecting" => c = d

\* A client that is not the first answers for a loss; a call is let through to
\* connect only when every client there is does.
LossesCovered ==
    /\ Len(clients) <= 1 + losses
    /\ isConnecting = FALSE /\ ~Ready => Len(clients) <= losses

ConnInv == ConnType /\ HoldsClient /\ OneConnects /\ LossesCovered

LEMMA ConnInitially == ConnInit => ConnInv
<1> SUFFICES ASSUME ConnInit PROVE ConnInv
  OBVIOUS
<1> USE DEF ConnInit
<1>1. Outside \in ConnRecords /\ Outside.at = "outside"
  BY DEF Outside, ConnRecords, ConnLabels
<1>2. Len(clients) = 0 /\ clients \in Seq(ClientStates)
  OBVIOUS
<1>3. ConnType
  <2>1. isConnecting \in BOOLEAN /\ conn \in [Calls -> ConnRecords]
    BY <1>1
  <2> QED
    BY <1>2, <2>1 DEF ConnType
<1>4. HoldsClient /\ OneConnects /\ LossesCovered
  BY <1>1, <1>2 DEF HoldsClient, OneConnects, LossesCovered
<1> QED
  BY <1>3, <1>4 DEF ConnInv

\* A call is given another record.
LEMMA ConnReplaced ==
  ASSUME conn \in [Calls -> ConnRecords], NEW c \in Calls, NEW new \in ConnRecords,
         conn' = [conn EXCEPT ![c] = new]
  PROVE  /\ conn' \in [Calls -> ConnRecords] /\ conn'[c] = new
         /\ \A d \in Calls : d # c => conn'[d] = conn[d]
OBVIOUS

\* A call moves that neither connects nor did, and nothing else changes.
LEMMA ConnMoves ==
  ASSUME ConnInv, NEW c \in Calls, NEW new \in ConnRecords,
         conn' = [conn EXCEPT ![c] = new],
         UNCHANGED <<clients, client, isConnecting, losses>>,
         new.at # "connecting", new.at = "answered" => new.got \in 1..Len(clients)
  PROVE  ConnInv'
<1>1. /\ conn' \in [Calls -> ConnRecords] /\ conn'[c] = new
      /\ \A d \in Calls : d # c => conn'[d] = conn[d]
  BY ConnReplaced DEF ConnInv, ConnType
<1>2. ConnType' /\ HoldsClient'
  BY <1>1 DEF ConnInv, ConnType, HoldsClient
<1>3. OneConnects'
  BY <1>1 DEF ConnInv, OneConnects
<1>4. LossesCovered'
  BY DEF ConnInv, LossesCovered, Ready
<1> QED
  BY <1>2, <1>3, <1>4 DEF ConnInv

LEMMA AnswerReadyKeeps ==
  ASSUME ConnInv, NEW c \in Calls, AnswerReady(c)
  PROVE  ConnInv'
<1> DEFINE new == Answered(client)
<1>1. new \in ConnRecords /\ new.at = "answered" /\ new.got \in 1..Len(clients)
  BY DEF Answered, ConnRecords, ConnLabels, AnswerReady, Ready, ConnInv, ConnType
<1>2. conn' = [conn EXCEPT ![c] = new] /\ UNCHANGED <<clients, client, isConnecting, losses>>
  BY DEF AnswerReady
<1> HIDE DEF new
<1> QED
  BY <1>1, <1>2, ConnMoves

LEMMA ConnectKeeps ==
  ASSUME ConnInv, NEW c \in Calls, Connect(c), ~Ready, isConnecting = FALSE
  PROVE  ConnInv'
<1> DEFINE new == [at |-> "connecting", got |-> Len(clients) + 1]
<1>1. /\ isConnecting' = TRUE /\ clients' = Append(clients, "connecting")
      /\ client' = Len(clients) + 1 /\ losses' = losses /\ conn' = [conn EXCEPT ![c] = new]
  BY DEF Connect
<1>2. new \in ConnRecords /\ new.at = "connecting" /\ new.got = Len(clients) + 1
  BY DEF ConnRecords, ConnLabels, ConnInv, ConnType
<1> HIDE DEF new
<1>3. /\ conn' \in [Calls -> ConnRecords] /\ conn'[c] = new
      /\ \A d \in Calls : d # c => conn'[d] = conn[d]
  BY <1>1, <1>2, ConnReplaced DEF ConnInv, ConnType
<1>4. /\ clients' \in Seq(ClientStates) /\ Len(clients') = Len(clients) + 1
      /\ \A k \in 1..Len(clients) : clients'[k] = clients[k]
  BY <1>1, AppendProperties DEF ConnInv, ConnType, ClientStates
<1>5. Len(clients) \in Nat
  BY DEF ConnInv, ConnType
<1>6. ConnType' /\ HoldsClient'
  BY <1>1, <1>2, <1>3, <1>4, <1>5 DEF ConnInv, ConnType, HoldsClient
<1>7. \A d \in Calls : conn[d].at # "connecting"
  BY DEF ConnInv, OneConnects
<1>8. OneConnects'
  BY <1>1, <1>2, <1>3, <1>4, <1>5, <1>7 DEF ConnInv, OneConnects
<1>9. LossesCovered'
  BY <1>1, <1>4, <1>5 DEF ConnInv, ConnType, LossesCovered
<1> QED
  BY <1>6, <1>8, <1>9 DEF ConnInv

LEMMA ConnectedKeeps ==
  ASSUME ConnInv, NEW c \in Calls, Connected(c)
  PROVE  ConnInv'
<1> DEFINE new == Answered(client)
<1>1. /\ clients' = [clients EXCEPT ![conn[c].got] = "ready"]
      /\ isConnecting' = FALSE /\ client' = client /\ losses' = losses
      /\ conn' = [conn EXCEPT ![c] = new] /\ conn[c].at = "connecting"
  BY DEF Connected
<1>2. /\ conn[c].got = Len(clients) /\ client = Len(clients) /\ Len(clients) \in 1..Len(clients)
      /\ isConnecting = TRUE
  BY <1>1 DEF ConnInv, OneConnects, HoldsClient
<1>3. new \in ConnRecords /\ new.at = "answered" /\ new.got = Len(clients)
  BY <1>2 DEF Answered, ConnRecords, ConnLabels, ConnInv, ConnType
<1> HIDE DEF new
<1>4. /\ conn' \in [Calls -> ConnRecords] /\ conn'[c] = new
      /\ \A d \in Calls : d # c => conn'[d] = conn[d]
  BY <1>1, <1>3, ConnReplaced DEF ConnInv, ConnType
<1>5. /\ clients' \in Seq(ClientStates) /\ Len(clients') = Len(clients)
      /\ clients'[Len(clients)] = "ready"
      /\ \A k \in 1..Len(clients) : k # Len(clients) => clients'[k] = clients[k]
  BY <1>1, <1>2 DEF ConnInv, ConnType, ClientStates
<1>6. ConnType' /\ HoldsClient'
  BY <1>1, <1>2, <1>3, <1>4, <1>5 DEF ConnInv, ConnType, HoldsClient
<1>7. OneConnects'
  BY <1>1, <1>2, <1>3, <1>4, <1>5 DEF ConnInv, OneConnects
<1>8. LossesCovered'
  BY <1>1, <1>2, <1>5 DEF ConnInv, ConnType, LossesCovered, Ready
<1> QED
  BY <1>6, <1>7, <1>8 DEF ConnInv

LEMMA ConnectFailsKeeps ==
  ASSUME ConnInv, NEW c \in Calls, ConnectFails(c)
  PROVE  ConnInv'
<1>1. /\ clients' = [clients EXCEPT ![conn[c].got] = "reconnecting"]
      /\ isConnecting' = FALSE /\ client' = 0 /\ losses' = losses + 1
      /\ conn' = [conn EXCEPT ![c] = Failed] /\ conn[c].at = "connecting"
  BY DEF ConnectFails
<1>2. conn[c].got = Len(clients) /\ Len(clients) \in 1..Len(clients) /\ isConnecting = TRUE
  BY <1>1 DEF ConnInv, OneConnects, HoldsClient
<1>3. Failed \in ConnRecords /\ Failed.at = "failed"
  BY DEF Failed, ConnRecords, ConnLabels
<1>4. /\ conn' \in [Calls -> ConnRecords] /\ conn'[c] = Failed
      /\ \A d \in Calls : d # c => conn'[d] = conn[d]
  BY <1>1, <1>3, ConnReplaced DEF ConnInv, ConnType
<1>5. /\ clients' \in Seq(ClientStates) /\ Len(clients') = Len(clients)
      /\ clients'[Len(clients)] = "reconnecting"
      /\ \A k \in 1..Len(clients) : k # Len(clients) => clients'[k] = clients[k]
  BY <1>1, <1>2 DEF ConnInv, ConnType, ClientStates
<1>6. ConnType' /\ HoldsClient'
  <2>1. Len(clients) \in Nat /\ losses \in Nat
    BY DEF ConnInv, ConnType
  <2>2. ConnType'
    <3>1. client' = 0 /\ losses' = losses + 1 /\ isConnecting' = FALSE
      BY <1>1
    <3>2. losses' \in Nat /\ client' \in 0..Len(clients')
      BY <3>1, <1>5, <2>1
    <3>3. isConnecting' \in BOOLEAN
      BY <3>1
    <3> QED
      BY <3>2, <3>3, <1>4, <1>5 DEF ConnType
  <2>3. HoldsClient'
    BY <1>1, <1>3, <1>4, <1>5 DEF ConnInv, HoldsClient
  <2> QED
    BY <2>2, <2>3
<1>7. OneConnects'
  BY <1>1, <1>2, <1>3, <1>4, <1>5 DEF ConnInv, OneConnects
<1>8. LossesCovered'
  <2>1. Len(clients) \in Nat /\ losses \in Nat /\ Len(clients) <= 1 + losses
    BY DEF ConnInv, ConnType, LossesCovered
  <2>3. Len(clients') = Len(clients) /\ losses' = losses + 1
    BY <1>1, <1>5
  <2>2. Len(clients') <= losses'
    BY <2>3, <2>1
  <2> QED
    BY <2>1, <2>2, <2>3 DEF LossesCovered
<1> QED
  BY <1>6, <1>7, <1>8 DEF ConnInv

\* A client that is not connecting drops or comes back: a loss is counted for
\* every one that stops being ready.
LEMMA DropsKeeps ==
  ASSUME ConnInv, NEW k \in 1..Len(clients), Drops(k)
  PROVE  ConnInv'
<1>1. /\ clients[k] = "ready" /\ clients' = [clients EXCEPT ![k] = "reconnecting"]
      /\ losses' = losses + 1 /\ UNCHANGED <<client, isConnecting, conn>>
  BY DEF Drops
<1>2. /\ clients' \in Seq(ClientStates) /\ Len(clients') = Len(clients)
      /\ clients'[k] = "reconnecting"
      /\ \A i \in 1..Len(clients) : i # k => clients'[i] = clients[i]
  BY <1>1 DEF ConnInv, ConnType, ClientStates
<1>3. ConnType' /\ HoldsClient'
  BY <1>1, <1>2 DEF ConnInv, ConnType, HoldsClient
<1>4. OneConnects'
  BY <1>1, <1>2 DEF ConnInv, OneConnects
<1>5. LossesCovered'
  BY <1>1, <1>2 DEF ConnInv, ConnType, LossesCovered
<1> QED
  BY <1>3, <1>4, <1>5 DEF ConnInv

LEMMA ReconnectsKeeps ==
  ASSUME ConnInv, NEW k \in 1..Len(clients), Reconnects(k)
  PROVE  ConnInv'
<1>1. /\ clients[k] = "reconnecting" /\ clients' = [clients EXCEPT ![k] = "ready"]
      /\ UNCHANGED <<client, isConnecting, losses, conn>>
  BY DEF Reconnects
<1>2. /\ clients' \in Seq(ClientStates) /\ Len(clients') = Len(clients)
      /\ clients'[k] = "ready"
      /\ \A i \in 1..Len(clients) : i # k => clients'[i] = clients[i]
  BY <1>1 DEF ConnInv, ConnType, ClientStates
<1>3. ConnType' /\ HoldsClient'
  BY <1>1, <1>2 DEF ConnInv, ConnType, HoldsClient
<1>4. OneConnects'
  BY <1>1, <1>2 DEF ConnInv, OneConnects
<1>5. Ready => Ready'
  BY <1>1, <1>2 DEF ConnInv, ConnType, Ready
<1>6. LossesCovered'
  BY <1>1, <1>2, <1>5 DEF ConnInv, LossesCovered
<1> QED
  BY <1>3, <1>4, <1>6 DEF ConnInv

LEMMA getClientOrConnectKeeps ==
  ASSUME ConnInv, NEW c \in Calls, getClientOrConnect(c)
  PROVE  ConnInv'
<1>1. CASE AnswerReady(c)
  BY <1>1, AnswerReadyKeeps
<1>2. CASE /\ conn' = [conn EXCEPT ![c] = Waiting]
           /\ UNCHANGED <<clients, client, isConnecting, losses>>
  <2>1. Waiting \in ConnRecords /\ Waiting.at = "waiting"
    BY DEF Waiting, ConnRecords, ConnLabels
  <2> QED
    BY <1>2, <2>1, ConnMoves
<1>3. CASE ~Ready /\ ~MustWait /\ Connect(c)
  <2>1. isConnecting = FALSE
    BY <1>3 DEF MustWait, ConnInv, ConnType
  <2> QED
    BY <1>3, <2>1, ConnectKeeps
<1> QED
  BY <1>1, <1>2, <1>3 DEF getClientOrConnect

LEMMA PollKeeps ==
  ASSUME ConnInv, NEW c \in Calls, Poll(c)
  PROVE  ConnInv'
<1>1. CASE AnswerReady(c)
  BY <1>1, AnswerReadyKeeps
<1>2. CASE ~Ready /\ ~MustWait /\ Connect(c)
  <2>1. isConnecting = FALSE
    BY <1>2 DEF MustWait, ConnInv, ConnType
  <2> QED
    BY <1>2, <2>1, ConnectKeeps
<1> QED
  BY <1>1, <1>2 DEF Poll, ReadyAfterWait

LEMMA ConnEnvironmentKeeps ==
  ASSUME ConnInv, ConnEnvironment
  PROVE  ConnInv'
<1>1. PICK k \in 1..Len(clients) : Drops(k) \/ Reconnects(k)
  BY DEF ConnEnvironment, ConnInv, ConnType
<1> QED
  BY <1>1, DropsKeeps, ReconnectsKeeps

LEMMA ConnUnchanged == ConnInv /\ UNCHANGED connVars => ConnInv'
BY DEF connVars, ConnInv, ConnType, HoldsClient, OneConnects, LossesCovered, Ready

LEMMA ReasonsFollow == ConnInv => ConnectionsHaveReasons
<1> SUFFICES ASSUME ConnInv PROVE ConnectionsHaveReasons
  OBVIOUS
<1> DEFINE inProgress == {k \in DOMAIN clients : clients[k] = "connecting"}
<1>1. inProgress \subseteq {Len(clients)}
  BY DEF ConnInv, ConnType, OneConnects
<1>2. IsFiniteSet({Len(clients)}) /\ Cardinality({Len(clients)}) = 1
  BY FS_Singleton
<1>3. Cardinality(inProgress) <= 1
  BY <1>1, <1>2, FS_Subset
<1> QED
  BY <1>3 DEF ConnectionsHaveReasons, ConnInv, LossesCovered

\* A client is never forgotten by its index.
LEMMA ClientsStay ==
  ASSUME ConnInv, NEW c \in Calls,
         getClientOrConnect(c) \/ Poll(c) \/ Connected(c) \/ ConnectFails(c)
  PROVE  Len(clients') >= Len(clients)
<1>1. clients \in Seq(ClientStates) /\ Len(clients) \in Nat
  BY DEF ConnInv, ConnType
<1>2. AnswerReady(c) => clients' = clients
  BY DEF AnswerReady
<1>3. Connect(c) => clients' = clients \/ clients' = Append(clients, "connecting")
  BY DEF Connect
<1>4. Connected(c) \/ ConnectFails(c) =>
        \E k, s : clients' = [clients EXCEPT ![k] = s]
  BY DEF Connected, ConnectFails
<1>5. \/ clients' = clients \/ clients' = Append(clients, "connecting")
      \/ \E k, s : clients' = [clients EXCEPT ![k] = s]
  BY <1>2, <1>3, <1>4 DEF getClientOrConnect, Poll
<1>6. CASE \E k, s : clients' = [clients EXCEPT ![k] = s]
  BY <1>1, <1>6
<1>7. CASE clients' = Append(clients, "connecting")
  BY <1>1, <1>7, AppendProperties DEF ClientStates
<1> QED
  BY <1>1, <1>5, <1>6, <1>7

LEMMA ClientsStayOutside ==
  ASSUME ConnInv, NEW k, Drops(k) \/ Reconnects(k)
  PROVE  Len(clients') = Len(clients)
BY DEF Drops, Reconnects, ConnInv, ConnType

-----------------------------------------------------------------------------
(* A counter.                                                              *)

PresetNumbers == [points : Nat, duration : Nat, blockDuration : Nat]
CounterRecords == [count : Nat, left : Nat, window : Nat, granted : Nat]

\* A block is no shorter than the window, for every preset but one.
BlockOutlasts(p) ==
    p # Numbers(failedLoginAttempts) => p.blockDuration = 0 \/ p.blockDuration >= p.duration

\* What a counter must keep to let no more requests through than its points: it
\* lives as long as its window, and has counted every request it let through.
Fits(p, c) ==
    p # Numbers(failedLoginAttempts) =>
        /\ c.window <= c.left /\ c.window <= p.duration
        /\ c.granted <= c.count /\ c.granted <= p.points

LEMMA PresetsBlockLongEnough ==
  \A p \in Presets : Numbers(p) \in PresetNumbers /\ BlockOutlasts(Numbers(p))
<1> DEFINE Fine(p) == Numbers(p) \in PresetNumbers /\ BlockOutlasts(Numbers(p))
<1> USE DEF PresetNumbers, BlockOutlasts, Numbers, Limit, Minute, Hour, Day
<1>1. \A p \in GlobalPresets : Fine(p)
  BY DEF GlobalPresets
<1>2. \A p \in WebhookPresets : Fine(p)
  BY DEF WebhookPresets
<1>3. \A p \in WalletPresets : Fine(p)
  BY DEF WalletPresets
<1>4. \A p \in AccessPresets : Fine(p)
  BY DEF AccessPresets, failedLoginAttempts
<1>5. \A p \in ProfilePresets : Fine(p)
  BY DEF ProfilePresets
<1>6. \A p \in EsimPresets : Fine(p)
  BY DEF EsimPresets
<1>7. \A p \in AdminPresets : Fine(p)
  BY DEF AdminPresets
<1>8. \A p \in StatementPresets : Fine(p)
  BY DEF StatementPresets
<1> HIDE DEF Fine
<1>9. \A p \in Presets : Fine(p)
  BY <1>1, <1>2, <1>3, <1>4, <1>5, <1>6, <1>7, <1>8 DEF Presets
<1> QED
  BY <1>9 DEF Fine

LEMMA HitFits ==
  ASSUME preset \in PresetNumbers, NEW c \in CounterRecords, Fits(preset, c)
  PROVE  /\ Hit(c) \in CounterRecords /\ Fits(preset, Hit(c))
         /\ ~Over(Hit(c)) => Hit(c).granted > 0
<1> USE DEF PresetNumbers, CounterRecords
<1>1. CASE c.left = 0 /\ c.window = 0
  BY <1>1 DEF Hit, Fits, Over
<1>2. CASE c.left = 0 /\ c.window # 0
  BY <1>2 DEF Hit, Fits, Over
<1>3. CASE c.left # 0
  BY <1>3 DEF Hit, Fits, Over
<1> QED
  BY <1>1, <1>2, <1>3

LEMMA BlockedFits ==
  ASSUME preset \in PresetNumbers, BlockOutlasts(preset), preset.blockDuration > 0,
         NEW c \in CounterRecords, Fits(preset, c)
  PROVE  Blocked(c) \in CounterRecords /\ Fits(preset, Blocked(c))
<1> USE DEF PresetNumbers, CounterRecords
<1>1. Blocked(c) \in CounterRecords
  <2> DEFINE full == preset.points + 1
             life == preset.blockDuration
  <2>1. full \in Nat /\ life \in Nat
    OBVIOUS
  <2>2. Blocked(c) = [c EXCEPT !.count = full, !.left = life]
    BY DEF Blocked
  <2> HIDE DEF full, life
  <2> QED
    BY <2>1, <2>2
<1>2. /\ Blocked(c).count = preset.points + 1 /\ Blocked(c).left = preset.blockDuration
      /\ Blocked(c).window = c.window /\ Blocked(c).granted = c.granted
  BY DEF Blocked
<1> QED
  BY <1>1, <1>2 DEF BlockOutlasts, Fits

LEMMA LaterFits ==
  ASSUME preset \in PresetNumbers, NEW c \in CounterRecords, NEW d \in Nat, Fits(preset, c)
  PROVE  Later(c, d) \in CounterRecords /\ Fits(preset, Later(c, d))
<1> USE DEF CounterRecords
<1> DEFINE left == IF c.left > d THEN c.left - d ELSE 0
           window == IF c.window > d THEN c.window - d ELSE 0
<1>1. left \in Nat /\ window \in Nat
  OBVIOUS
<1>2. /\ Later(c, d) \in CounterRecords
      /\ Later(c, d).left = left /\ Later(c, d).window = window
      /\ Later(c, d).count = c.count /\ Later(c, d).granted = c.granted
  <2> HIDE DEF left, window
  <2>1. Later(c, d) = [c EXCEPT !.left = left, !.window = window]
    BY DEF Later, left, window
  <2> QED
    BY <1>1, <2>1
<1>3. c.window <= c.left => window <= left
  OBVIOUS
<1>4. window <= c.window
  OBVIOUS
<1> HIDE DEF left, window
<1> QED
  BY <1>1, <1>2, <1>3, <1>4 DEF Fits, PresetNumbers

-----------------------------------------------------------------------------
(* The requests and their limiters.                                        *)

LimiterRecords == [client : Nat, memory : CounterRecords]
ReqLabels == {"idle", "client", "consume", "block"}
ReqRecords == [at : ReqLabels, rl : Nat]

LimiterType ==
    /\ preset \in PresetNumbers /\ BlockOutlasts(preset)
    /\ store \in CounterRecords
    /\ limiters \in Seq(LimiterRecords)
    /\ limiter \in 0..Len(limiters)

\* A limiter has a client, a request that counts has a limiter, and a request
\* that blocks does so for a preset that blocks.
LimitersHaveClients == \A i \in 1..Len(limiters) : limiters[i].client \in 1..Len(clients)
Requests ==
    /\ req \in [Calls -> ReqRecords]
    /\ \A r \in Calls : req[r].at \in {"consume", "block"} => req[r].rl \in 1..Len(limiters)
    /\ \A r \in Calls : req[r].at = "block" => preset.blockDuration > 0

CountersFit ==
    /\ Fits(preset, store)
    /\ \A i \in 1..Len(limiters) : Fits(preset, limiters[i].memory)

WindowInv == ConnInv /\ LimiterType /\ LimitersHaveClients /\ Requests /\ CountersFit

LEMMA WindowInitially == Init => WindowInv
<1> SUFFICES ASSUME Init PROVE WindowInv
  OBVIOUS
<1> USE DEF Init
<1>1. ConnInv
  BY ConnInitially
<1>2. preset \in PresetNumbers /\ BlockOutlasts(preset)
  BY PresetsBlockLongEnough
<1>3. NoCounter \in CounterRecords /\ Fits(preset, NoCounter)
  BY <1>2 DEF NoCounter, CounterRecords, Fits, PresetNumbers
<1>4. limiters \in Seq(LimiterRecords) /\ Len(limiters) = 0
  OBVIOUS
<1>5. Idle \in ReqRecords /\ Idle.at = "idle"
  BY DEF Idle, ReqRecords, ReqLabels
<1>6. LimiterType
  BY <1>2, <1>3, <1>4 DEF LimiterType
<1>7. Requests
  BY <1>5 DEF Requests
<1>8. LimitersHaveClients /\ CountersFit
  BY <1>3, <1>4 DEF LimitersHaveClients, CountersFit
<1> QED
  BY <1>1, <1>6, <1>7, <1>8 DEF WindowInv

\* A request moves on, and no limiter goes away.
LEMMA RequestMoves ==
  ASSUME Requests, NEW r \in Calls, NEW label \in ReqLabels, NEW rl \in Nat,
         Move(r, label, rl), preset' = preset,
         Len(limiters) \in Nat, Len(limiters') \in Nat, Len(limiters') >= Len(limiters),
         label \in {"consume", "block"} => rl \in 1..Len(limiters'),
         label = "block" => preset.blockDuration > 0
  PROVE  Requests'
<1> DEFINE new == [at |-> label, rl |-> rl]
<1>1. new \in ReqRecords /\ new.at = label /\ new.rl = rl
  BY DEF ReqRecords
<1>2. req' = [req EXCEPT ![r] = new]
  BY DEF Move
<1> HIDE DEF new
<1>3. /\ req' \in [Calls -> ReqRecords] /\ req'[r] = new
      /\ \A q \in Calls : q # r => req'[q] = req[q]
  BY <1>1, <1>2 DEF Requests
<1> QED
  BY <1>1, <1>3 DEF Requests

\* A limiter is given another counter in memory.
LEMMA MemoryReplaced ==
  ASSUME WindowInv, NEW k \in 1..Len(limiters), NEW m \in CounterRecords, Fits(preset, m),
         limiters' = [limiters EXCEPT ![k].memory = m],
         preset' = preset, Len(clients') = Len(clients)
  PROVE  /\ limiters' \in Seq(LimiterRecords) /\ Len(limiters') = Len(limiters)
         /\ LimitersHaveClients'
         /\ \A i \in 1..Len(limiters') : Fits(preset, limiters[i].memory)'
<1>1. limiters \in Seq(LimiterRecords) /\ limiters[k] \in LimiterRecords
  BY DEF WindowInv, LimiterType
<1> DEFINE new == [limiters[k] EXCEPT !.memory = m]
<1>2. new \in LimiterRecords /\ new.memory = m /\ new.client = limiters[k].client
  BY <1>1 DEF LimiterRecords
<1>3. limiters' = [limiters EXCEPT ![k] = new]
  OBVIOUS
<1> HIDE DEF new
<1>4. /\ limiters' \in Seq(LimiterRecords) /\ Len(limiters') = Len(limiters)
      /\ limiters'[k] = new
      /\ \A i \in 1..Len(limiters) : i # k => limiters'[i] = limiters[i]
  BY <1>1, <1>2, <1>3
<1>5. LimitersHaveClients'
  BY <1>2, <1>4 DEF WindowInv, LimitersHaveClients
<1>6. \A i \in 1..Len(limiters') : Fits(preset', limiters'[i].memory)
  BY <1>2, <1>4 DEF WindowInv, CountersFit
<1> QED
  BY <1>4, <1>5, <1>6

LEMMA InMemoryFits ==
  ASSUME WindowInv, NEW r \in Calls, req[r].at = "consume", InMemory(r),
         preset' = preset, Len(clients') = Len(clients)
  PROVE  /\ limiters' \in Seq(LimiterRecords) /\ Len(limiters') = Len(limiters)
         /\ LimitersHaveClients'
         /\ \A i \in 1..Len(limiters') : Fits(preset, limiters[i].memory)'
<1> DEFINE k == req[r].rl
           c == Hit(limiters[k].memory)
           m == IF Blocks(c) THEN Blocked(c) ELSE c
<1>1. k \in 1..Len(limiters)
  BY DEF WindowInv, Requests
<1>2. limiters[k].memory \in CounterRecords /\ Fits(preset, limiters[k].memory)
  <2>1. limiters[k] \in LimiterRecords
    BY <1>1 DEF WindowInv, LimiterType
  <2>2. Fits(preset, limiters[k].memory)
    BY <1>1 DEF WindowInv, CountersFit
  <2> QED
    BY <2>1, <2>2 DEF LimiterRecords
<1>3. preset \in PresetNumbers /\ BlockOutlasts(preset)
  BY DEF WindowInv, LimiterType
<1>4. c \in CounterRecords /\ Fits(preset, c)
  BY <1>2, <1>3, HitFits
<1>5. limiters' = [limiters EXCEPT ![k].memory = m]
  BY DEF InMemory
<1> HIDE DEF c, k
<1>6. m \in CounterRecords /\ Fits(preset, m)
  <2>1. CASE Blocks(c)
    <3>1. preset.blockDuration > 0
      BY <2>1 DEF Blocks
    <3> QED
      BY <2>1, <3>1, <1>3, <1>4, BlockedFits
  <2>2. CASE ~Blocks(c)
    BY <2>2, <1>4
  <2> QED
    BY <2>1, <2>2
<1> HIDE DEF m
<1> QED
  BY <1>1, <1>5, <1>6, MemoryReplaced

LEMMA ArriveKeeps == ASSUME WindowInv, NEW r \in Calls, Arrive(r) PROVE WindowInv'
<1>1. preset' = preset /\ store' = store /\ limiters' = limiters /\ limiter' = limiter
  BY DEF Arrive
<1>2. limiter \in 0..Len(limiters) /\ Len(limiters) \in Nat
  BY DEF WindowInv, LimiterType
<1>3. CASE limiter # 0 /\ Move(r, "consume", limiter) /\ UNCHANGED connVars
  <2>1. ConnInv' /\ clients' = clients
    BY <1>3, ConnUnchanged DEF WindowInv, connVars
  <2>2. Requests'
    BY <1>1, <1>2, <1>3, RequestMoves DEF WindowInv, ReqLabels
  <2> QED
    BY <1>1, <2>1, <2>2 DEF WindowInv, LimiterType, LimitersHaveClients, CountersFit
<1>4. CASE limiter = 0 /\ Move(r, "client", 0) /\ getClientOrConnect(r)
  <2>1. ConnInv' /\ Len(clients') >= Len(clients)
    BY <1>4, getClientOrConnectKeeps, ClientsStay DEF WindowInv
  <2>2. Requests'
    BY <1>1, <1>2, <1>4, RequestMoves DEF WindowInv, ReqLabels
  <2>3. LimitersHaveClients'
    BY <1>1, <2>1 DEF WindowInv, LimitersHaveClients, ConnInv, ConnType
  <2> QED
    BY <1>1, <2>1, <2>2, <2>3 DEF WindowInv, LimiterType, CountersFit
<1> QED
  BY <1>3, <1>4 DEF Arrive

LEMMA AwaitClientKeeps == ASSUME WindowInv, NEW r \in Calls, AwaitClient(r) PROVE WindowInv'
<1>1. UNCHANGED <<preset, store, limiters, limiter, req>>
  BY DEF AwaitClient
<1>2. ConnInv' /\ Len(clients') >= Len(clients)
  BY PollKeeps, ConnectedKeeps, ConnectFailsKeeps, ClientsStay DEF WindowInv, AwaitClient
<1>3. LimitersHaveClients'
  BY <1>1, <1>2 DEF WindowInv, LimitersHaveClients, ConnInv, ConnType
<1>4. Requests' /\ LimiterType' /\ CountersFit'
  BY <1>1 DEF WindowInv, Requests, LimiterType, CountersFit
<1> QED
  BY <1>2, <1>3, <1>4 DEF WindowInv

\* A call that has its answer leaves the connection manager.
LEMMA LeaveKeeps ==
  ASSUME ConnInv, NEW r \in Calls, conn' = [conn EXCEPT ![r] = Outside],
         UNCHANGED <<clients, client, isConnecting, losses>>
  PROVE  ConnInv'
<1>1. Outside \in ConnRecords /\ Outside.at = "outside"
  BY DEF Outside, ConnRecords, ConnLabels
<1> QED
  BY <1>1, ConnMoves

LEMMA getLimiterKeeps == ASSUME WindowInv, NEW r \in Calls, getLimiter(r) PROVE WindowInv'
<1> DEFINE new == [client |-> conn[r].got, memory |-> NoCounter]
<1>1. /\ limiters' = Append(limiters, new) /\ limiter' = Len(limiters) + 1
      /\ Move(r, "consume", Len(limiters) + 1) /\ preset' = preset /\ store' = store
      /\ clients' = clients
  BY DEF getLimiter
<1>2. ConnInv'
  BY LeaveKeeps DEF getLimiter, WindowInv
<1>3. conn[r].got \in 1..Len(clients) /\ conn[r].got \in Nat
  BY DEF getLimiter, WindowInv, ConnInv, HoldsClient
<1>4. preset \in PresetNumbers /\ NoCounter \in CounterRecords /\ Fits(preset, NoCounter)
  BY DEF WindowInv, LimiterType, NoCounter, CounterRecords, Fits, PresetNumbers
<1>5. new \in LimiterRecords /\ new.client = conn[r].got /\ new.memory = NoCounter
  BY <1>3, <1>4 DEF LimiterRecords
<1> HIDE DEF new
<1>6. limiters \in Seq(LimiterRecords) /\ Len(limiters) \in Nat
  BY DEF WindowInv, LimiterType
<1>7. /\ limiters' \in Seq(LimiterRecords) /\ Len(limiters') = Len(limiters) + 1
      /\ limiters'[Len(limiters) + 1] = new
      /\ \A i \in 1..Len(limiters) : limiters'[i] = limiters[i]
  BY <1>1, <1>5, <1>6, AppendProperties
<1>8. \A i \in 1..Len(limiters') : i \in 1..Len(limiters) \/ i = Len(limiters) + 1
  BY <1>6, <1>7
<1>9. LimiterType'
  BY <1>1, <1>6, <1>7 DEF WindowInv, LimiterType
<1>10. LimitersHaveClients'
  BY <1>1, <1>3, <1>5, <1>7, <1>8 DEF WindowInv, LimitersHaveClients
<1>11. CountersFit'
  BY <1>1, <1>4, <1>5, <1>7, <1>8 DEF WindowInv, CountersFit
<1>12. Requests'
  BY <1>1, <1>6, <1>7, RequestMoves DEF WindowInv, ReqLabels
<1> QED
  BY <1>2, <1>9, <1>10, <1>11, <1>12 DEF WindowInv

LEMMA NoClientKeeps == ASSUME WindowInv, NEW r \in Calls, NoClient(r) PROVE WindowInv'
<1>1. UNCHANGED <<preset, store, limiters, limiter, clients>> /\ Move(r, "idle", 0)
  BY DEF NoClient
<1>2. ConnInv'
  BY LeaveKeeps DEF NoClient, WindowInv
<1>3. Len(limiters) \in Nat
  BY DEF WindowInv, LimiterType
<1>4. Requests'
  BY <1>1, <1>3, RequestMoves DEF WindowInv, ReqLabels
<1> QED
  BY <1>1, <1>2, <1>4 DEF WindowInv, LimiterType, LimitersHaveClients, CountersFit

LEMMA ConsumeKeeps == ASSUME WindowInv, NEW r \in Calls, Consume(r) PROVE WindowInv'
<1>1. /\ req[r].at = "consume" /\ store' = Hit(store)
      /\ UNCHANGED <<preset, limiters, limiter, connVars>>
  BY DEF Consume, limiterVars
<1>2. ConnInv' /\ clients' = clients
  BY <1>1, ConnUnchanged DEF WindowInv, connVars
<1>3. store' \in CounterRecords /\ Fits(preset, store')
  BY <1>1, HitFits DEF WindowInv, LimiterType, CountersFit
<1>4. Len(limiters) \in Nat
  BY DEF WindowInv, LimiterType
<1>5. Requests'
  <2>1. CASE Blocks(store') /\ Move(r, "block", req[r].rl)
    <3>1. preset.blockDuration > 0
      BY <2>1 DEF Blocks
    <3>2. req[r].rl \in 1..Len(limiters) /\ req[r].rl \in Nat
      BY <1>1 DEF WindowInv, Requests
    <3> QED
      BY <1>1, <1>4, <2>1, <3>1, <3>2, RequestMoves DEF WindowInv, ReqLabels
  <2>2. CASE Move(r, "idle", 0)
    BY <1>1, <1>4, <2>2, RequestMoves DEF WindowInv, ReqLabels
  <2> QED
    BY <2>1, <2>2 DEF Consume
<1> QED
  BY <1>1, <1>2, <1>3, <1>5 DEF WindowInv, LimiterType, LimitersHaveClients, CountersFit

LEMMA ConsumeInsuredKeeps == ASSUME WindowInv, NEW r \in Calls, ConsumeInsured(r) PROVE WindowInv'
<1>1. /\ req[r].at = "consume" /\ InMemory(r) /\ Move(r, "idle", 0)
      /\ UNCHANGED <<preset, store, limiter, connVars>>
  BY DEF ConsumeInsured
<1>2. ConnInv' /\ clients' = clients
  BY <1>1, ConnUnchanged DEF WindowInv, connVars
<1>3. /\ limiters' \in Seq(LimiterRecords) /\ Len(limiters') = Len(limiters)
      /\ LimitersHaveClients'
      /\ \A i \in 1..Len(limiters') : Fits(preset, limiters[i].memory)'
  BY <1>1, <1>2, InMemoryFits
<1>4. Len(limiters) \in Nat
  BY DEF WindowInv, LimiterType
<1>5. Requests'
  BY <1>1, <1>3, <1>4, RequestMoves DEF WindowInv, ReqLabels
<1> QED
  BY <1>1, <1>2, <1>3, <1>5 DEF WindowInv, LimiterType, CountersFit

\* A reply that is lost takes back the request its counter let through.
LEMMA ConsumeReplyLostKeeps == ASSUME WindowInv, NEW r \in Calls, ConsumeReplyLost(r) PROVE WindowInv'
<1>1. /\ req[r].at = "consume" /\ InMemory(r) /\ Move(r, "idle", 0)
      /\ UNCHANGED <<preset, limiter>> /\ Drops(limiters[req[r].rl].client)
  BY DEF ConsumeReplyLost
<1>2. limiters[req[r].rl].client \in 1..Len(clients)
  BY <1>1 DEF WindowInv, Requests, LimitersHaveClients
<1>3. ConnInv' /\ Len(clients') = Len(clients)
  BY <1>1, <1>2, DropsKeeps, ClientsStayOutside DEF WindowInv
<1>4. /\ limiters' \in Seq(LimiterRecords) /\ Len(limiters') = Len(limiters)
      /\ LimitersHaveClients'
      /\ \A i \in 1..Len(limiters') : Fits(preset, limiters[i].memory)'
  BY <1>1, <1>3, InMemoryFits
<1>5. Len(limiters) \in Nat
  BY DEF WindowInv, LimiterType
<1>6. Requests'
  BY <1>1, <1>4, <1>5, RequestMoves DEF WindowInv, ReqLabels
<1>7. store' \in CounterRecords /\ Fits(preset, store')
  <2> DEFINE c == Hit(store)
             n == c.granted - (IF Over(c) THEN 0 ELSE 1)
  <2>1. c \in CounterRecords /\ Fits(preset, c) /\ (~Over(c) => c.granted > 0)
    BY HitFits DEF WindowInv, LimiterType, CountersFit
  <2>2. store' = [c EXCEPT !.granted = n]
    BY DEF ConsumeReplyLost
  <2> HIDE DEF c
  <2>3. n \in Nat /\ n <= c.granted
    BY <2>1 DEF CounterRecords
  <2> HIDE DEF n
  <2>4. preset \in PresetNumbers
    BY DEF WindowInv, LimiterType
  <2>5. /\ store' \in CounterRecords /\ store'.granted = n
        /\ store'.count = c.count /\ store'.left = c.left /\ store'.window = c.window
    BY <2>1, <2>2, <2>3 DEF CounterRecords
  <2> QED
    BY <2>1, <2>3, <2>4, <2>5 DEF Fits, CounterRecords, PresetNumbers
<1> QED
  BY <1>1, <1>3, <1>4, <1>6, <1>7 DEF WindowInv, LimiterType, CountersFit

LEMMA BlockKeeps == ASSUME WindowInv, NEW r \in Calls, Block(r) PROVE WindowInv'
<1>1. /\ req[r].at = "block" /\ store' = Blocked(store) /\ Move(r, "idle", 0)
      /\ UNCHANGED <<preset, limiters, limiter, connVars>>
  BY DEF Block, limiterVars
<1>2. ConnInv' /\ clients' = clients
  BY <1>1, ConnUnchanged DEF WindowInv, connVars
<1>3. preset.blockDuration > 0
  BY <1>1 DEF WindowInv, Requests
<1>4. store' \in CounterRecords /\ Fits(preset, store')
  BY <1>1, <1>3, BlockedFits DEF WindowInv, LimiterType, CountersFit
<1>5. Len(limiters) \in Nat
  BY DEF WindowInv, LimiterType
<1>6. Requests'
  BY <1>1, <1>5, RequestMoves DEF WindowInv, ReqLabels
<1> QED
  BY <1>1, <1>2, <1>4, <1>6 DEF WindowInv, LimiterType, LimitersHaveClients, CountersFit

LEMMA BlockInsuredKeeps == ASSUME WindowInv, NEW r \in Calls, BlockInsured(r) PROVE WindowInv'
<1> DEFINE k == req[r].rl
           m == Blocked(limiters[k].memory)
<1>1. /\ req[r].at = "block" /\ Move(r, "idle", 0)
      /\ limiters' = [limiters EXCEPT ![k].memory = m]
      /\ UNCHANGED <<preset, store, limiter, connVars>>
  BY DEF BlockInsured
<1>2. ConnInv' /\ clients' = clients
  BY <1>1, ConnUnchanged DEF WindowInv, connVars
<1>3. preset.blockDuration > 0 /\ k \in 1..Len(limiters)
  BY <1>1 DEF WindowInv, Requests
<1> HIDE DEF k
<1>4. limiters[k].memory \in CounterRecords /\ Fits(preset, limiters[k].memory)
  <2>1. limiters[k] \in LimiterRecords
    BY <1>3 DEF WindowInv, LimiterType
  <2> QED
    BY <1>3, <2>1 DEF WindowInv, CountersFit, LimiterRecords
<1>5. m \in CounterRecords /\ Fits(preset, m)
  BY <1>3, <1>4, BlockedFits DEF WindowInv, LimiterType
<1> HIDE DEF m
<1>6. /\ limiters' \in Seq(LimiterRecords) /\ Len(limiters') = Len(limiters)
      /\ LimitersHaveClients'
      /\ \A i \in 1..Len(limiters') : Fits(preset, limiters[i].memory)'
  BY <1>1, <1>2, <1>3, <1>5, MemoryReplaced
<1>7. Len(limiters) \in Nat
  BY DEF WindowInv, LimiterType
<1>8. Requests'
  BY <1>1, <1>6, <1>7, RequestMoves DEF WindowInv, ReqLabels
<1> QED
  BY <1>1, <1>2, <1>6, <1>8 DEF WindowInv, LimiterType, CountersFit

LEMMA TimeSteps ==
  ASSUME NEW S, NEW half, NEW d \in ((UNION {{c.left, c.window} : c \in S}) \cup {half}) \ {0}
  PROVE  d = half \/ \E c \in S : d \in {c.left, c.window}
<1> DEFINE all == {{c.left, c.window} : c \in S}
<1>1. \A e \in all : \E c \in S : e = {c.left, c.window}
  OBVIOUS
<1>2. d = half \/ d \in UNION all
  OBVIOUS
<1> HIDE DEF all
<1> QED
  BY <1>1, <1>2

\* Time takes as much from the life of a counter as from its window.
LEMMA TickKeeps == ASSUME WindowInv, Tick PROVE WindowInv'
<1>1. UNCHANGED <<preset, limiter, req, connVars>>
  BY DEF Tick
<1>2. ConnInv' /\ clients' = clients
  BY <1>1, ConnUnchanged DEF WindowInv, connVars
<1>3. /\ limiters \in Seq(LimiterRecords) /\ Len(limiters) \in Nat
      /\ \A i \in 1..Len(limiters) : limiters[i] \in LimiterRecords
      /\ preset \in PresetNumbers
  BY DEF WindowInv, LimiterType
<1>4. \A c \in Counters : c \in CounterRecords /\ Fits(preset, c)
  BY <1>3 DEF Counters, WindowInv, LimiterType, LimiterRecords, CountersFit
<1>5. PICK d \in ((UNION {{c.left, c.window} : c \in Counters}) \cup {preset.duration \div 2}) \ {0} :
        /\ store' = Later(store, d)
        /\ limiters' = [i \in DOMAIN limiters |-> [limiters[i] EXCEPT !.memory = Later(@, d)]]
  BY DEF Tick
<1>6. d \in Nat
  <2>1. preset.duration \div 2 \in Nat
    BY <1>3 DEF PresetNumbers
  <2>2. \A c \in Counters : c.left \in Nat /\ c.window \in Nat
    BY <1>4 DEF CounterRecords
  <2>3. d = preset.duration \div 2 \/ \E c \in Counters : d \in {c.left, c.window}
    BY TimeSteps
  <2> QED
    BY <2>1, <2>2, <2>3
<1>7. store' \in CounterRecords /\ Fits(preset, store')
  BY <1>3, <1>5, <1>6, LaterFits DEF WindowInv, LimiterType, CountersFit
<1>8. \A i \in 1..Len(limiters) :
        /\ limiters'[i] \in LimiterRecords /\ limiters'[i].client = limiters[i].client
        /\ Fits(preset, limiters'[i].memory)
  <2> TAKE i \in 1..Len(limiters)
  <2> DEFINE m == Later(limiters[i].memory, d)
  <2>1. limiters[i].memory \in CounterRecords /\ Fits(preset, limiters[i].memory)
    BY <1>3 DEF LimiterRecords, WindowInv, CountersFit
  <2>2. m \in CounterRecords /\ Fits(preset, m)
    BY <1>3, <1>6, <2>1, LaterFits
  <2>3. limiters'[i] = [limiters[i] EXCEPT !.memory = m]
    BY <1>3, <1>5
  <2> HIDE DEF m
  <2>4. limiters'[i] \in LimiterRecords /\ limiters'[i].client = limiters[i].client
        /\ limiters'[i].memory = m
    BY <1>3, <2>2, <2>3 DEF LimiterRecords
  <2> QED
    BY <2>2, <2>4
<1>9. limiters' \in Seq(LimiterRecords) /\ Len(limiters') = Len(limiters)
  <2>1. limiters' = [i \in 1..Len(limiters) |-> limiters'[i]]
    BY <1>3, <1>5
  <2> QED
    BY <1>3, <1>8, <2>1
<1>10. LimiterType' /\ Requests'
  BY <1>1, <1>7, <1>9 DEF WindowInv, LimiterType, Requests
<1>11. LimitersHaveClients' /\ CountersFit'
  BY <1>1, <1>2, <1>7, <1>8, <1>9 DEF WindowInv, LimitersHaveClients, CountersFit
<1> QED
  BY <1>2, <1>10, <1>11 DEF WindowInv

LEMMA ConnectionsKeep == ASSUME WindowInv, Connections PROVE WindowInv'
<1>1. UNCHANGED <<preset, store, limiters, limiter, req>> /\ ConnEnvironment
  BY DEF Connections
<1>2. ConnInv'
  BY <1>1, ConnEnvironmentKeeps DEF WindowInv
<1>3. Len(clients') = Len(clients)
  BY <1>1, ClientsStayOutside DEF ConnEnvironment, WindowInv
<1> QED
  BY <1>1, <1>2, <1>3 DEF WindowInv, LimiterType, LimitersHaveClients, Requests, CountersFit

LEMMA StutterKeeps == WindowInv /\ UNCHANGED vars => WindowInv'
BY ConnUnchanged
   DEF vars, connVars, WindowInv, LimiterType, LimitersHaveClients, Requests, CountersFit

LEMMA WindowInvStep == WindowInv /\ [Next]_vars => WindowInv'
<1> SUFFICES ASSUME WindowInv, [Next]_vars PROVE WindowInv'
  OBVIOUS
<1>1. ASSUME NEW r \in Calls, Arrive(r) PROVE WindowInv'
  BY <1>1, ArriveKeeps
<1>2. ASSUME NEW r \in Calls, RequestStep(r) PROVE WindowInv'
  <2>1. CASE AwaitClient(r) \/ getLimiter(r) \/ NoClient(r)
    BY <2>1, AwaitClientKeeps, getLimiterKeeps, NoClientKeeps
  <2>2. CASE Consume(r) \/ ConsumeInsured(r) \/ ConsumeReplyLost(r)
    BY <2>2, ConsumeKeeps, ConsumeInsuredKeeps, ConsumeReplyLostKeeps
  <2>3. CASE Block(r) \/ BlockInsured(r)
    BY <2>3, BlockKeeps, BlockInsuredKeeps
  <2> QED
    BY <1>2, <2>1, <2>2, <2>3 DEF RequestStep
<1>3. ASSUME NEW r \in Calls, StillWaiting(r) PROVE WindowInv'
  BY <1>3, StutterKeeps DEF StillWaiting
<1>4. CASE Tick
  BY <1>4, TickKeeps
<1>5. CASE Connections
  BY <1>5, ConnectionsKeep
<1>6. CASE Done
  BY <1>6, StutterKeeps DEF Done
<1>7. CASE UNCHANGED vars
  BY <1>7, StutterKeeps
<1> QED
  BY <1>1, <1>2, <1>3, <1>4, <1>5, <1>6, <1>7 DEF Next

\* However many calls overlap, a new connection answers for the loss of another
\* one, and no two are in progress at once (redis.ts:35-61).
THEOREM ConnectionsHaveReasonsHolds == Spec => []ConnectionsHaveReasons
<1>1. WindowInv => ConnectionsHaveReasons
  BY ReasonsFollow DEF WindowInv
<1> QED
  BY <1>1, WindowInitially, WindowInvStep, PTL DEF Spec

\* For every preset the code has but one, with any number of requests, limiters
\* and blocks and whatever the connection does, a counter lets no more requests
\* through in a window than the preset's points (rate-limiting.ts:14).
THEOREM WindowBudgetHolds == Spec => []WindowBudget
<1>1. WindowInv => WindowBudget
  <2> SUFFICES ASSUME WindowInv, preset # Numbers(failedLoginAttempts), NEW c \in Counters
               PROVE  c.granted <= preset.points
    BY DEF WindowBudget
  <2>1. DOMAIN limiters = 1..Len(limiters)
    BY DEF WindowInv, LimiterType
  <2> QED
    BY <2>1 DEF WindowInv, CountersFit, Counters, Fits
<1> QED
  BY <1>1, WindowInitially, WindowInvStep, PTL DEF Spec
=============================================================================
