---------------------------- MODULE RateLimiting ----------------------------
(***************************************************************************)
(* The rate limiter middleware of src/src/middlewares/rate-limiting.ts in  *)
(* one process, for one key: createRateLimiter over the connection manager *)
(* of RedisConnection, and the table of presets it is called with.  The    *)
(* limiter itself is the library rate-limiter-flexible: a counter in Redis *)
(* whose first request sets its time to live, a block that rewrites the    *)
(* counter and its time to live, and an insurance limiter in memory for    *)
(* the requests Redis does not answer.  Times are in seconds.              *)
(***************************************************************************)
EXTENDS RedisConnection, FiniteSetsExt

CONSTANTS MaxPoints,     \* the presets with at most so many points are run
          MaxRequests    \* bound: requests that arrive

Minute == 60
Hour == 60 * Minute
Day == 24 * Hour
-----------------------------------------------------------------------------
(* The presets.  A prefix is the sequence of its segments after "rl".      *)

Limit(prefix, points, duration, blockDuration, key) ==
    [prefix |-> prefix, points |-> points, duration |-> duration,
     blockDuration |-> blockDuration, key |-> key]

\* The first segment a key may have, by the kind of its generator.  Text is what the
\* request itself says, in a header or a field of its body, and may be any segment;
\* an address stands for any IP literal.
Text == "text"
KeyHeads == [ address     |-> {"address"},
              userOrIp    |-> {"user", "ip"},
              userOrBare  |-> {"user", "address"},
              ipEmail     |-> {"address"},
              emailIp     |-> {Text},
              email       |-> {Text},
              header      |-> {Text},
              constant    |-> {"sendgrid"},
              chat        |-> {"chat", Text},
              receipt     |-> {"txn", "ip"},
              reference   |-> {Text, "address"},
              identifier  |-> {Text} ]
MayBeginWith(p, segment) == KeyHeads[p.key] \intersect {segment, Text} # {}

GlobalPresets ==
    {Limit(<<"global">>, 1000, 15 * Minute, 0, "address"),
     Limit(<<"signup">>, 3, Hour, 0, "ipEmail"),
     Limit(<<"login", "ip">>, 20, 15 * Minute, 0, "address"),
     Limit(<<"swap", "quote">>, 10, Minute, Minute, "userOrIp"),
     Limit(<<"swap", "execute">>, 5, 5 * Minute, 5 * Minute, "userOrIp"),
     Limit(<<"login", "email">>, 10, 15 * Minute, 0, "email")}

WebhookPresets ==
    {Limit(<<"webhooks", "sumsub">>, 20, 15 * Minute, 0, "header"),
     Limit(<<"webhooks", "fireblocks">>, 20, 15 * Minute, 0, "header"),
     Limit(<<"webhooks", "fireblocks", "test">>, 1000, Minute, 0, "address"),
     Limit(<<"webhooks", "sendgrid">>, 100, Minute, 0, "constant"),
     Limit(<<"webhooks", "airalo">>, 50, Minute, 0, "header"),
     Limit(<<"webhooks", "telegram">>, 100, Minute, 0, "chat"),
     Limit(<<"webhooks", "fivewest">>, 20, 15 * Minute, 0, "address"),
     Limit(<<"webhooks", "relay">>, 20, 15 * Minute, 0, "address"),
     Limit(<<"webhooks", "transactpay">>, 50, Minute, 0, "address")}

\* The wallet limiters of end-to-end tests have prefixes of their own.
WalletPresets ==
    {Limit(<<"wallet", "transaction">>, 20, Minute, 0, "header"),
     Limit(<<"wallet", "transaction", "e2e">>, 200, Minute, 0, "header"),
     Limit(<<"wallet", "transfer">>, 5, Minute, 0, "emailIp"),
     Limit(<<"wallet", "transfer", "e2e">>, 100, Minute, 0, "emailIp"),
     Limit(<<"payout">>, 5, 5 * Minute, 5 * Minute, "userOrIp")}

failedLoginAttempts == Limit(<<"login", "failed">>, 3, Day, Hour, "emailIp")

AccessPresets ==
    {Limit(<<"mfa", "verify">>, 10, 15 * Minute, Hour, "emailIp"),
     failedLoginAttempts,
     Limit(<<"redbiller", "callback">>, 3, Minute, 5 * Minute, "reference"),
     Limit(<<"transaction-pin", "reset">>, 3, Hour, Hour, "userOrIp")}

ProfilePresets ==
    {Limit(<<"notification", "preferences">>, 10, 5 * Minute, 15 * Minute, "userOrBare"),
     Limit(<<"device", "token">>, 5, 5 * Minute, 30 * Minute, "userOrBare"),
     Limit(<<"profile", "update">>, 5, Hour, Hour, "userOrBare"),
     Limit(<<"profile", "update", "otp">>, 5, Hour, Hour, "userOrBare"),
     Limit(<<"otp", "generate">>, 5, Hour, Hour, "identifier"),
     Limit(<<"otp", "validate">>, 5, Hour, Hour, "identifier"),
     Limit(<<"kyc", "bvn">>, 3, Hour, Hour, "userOrIp"),
     Limit(<<"email", "send">>, 10, Hour, Hour, "userOrIp"),
     Limit(<<"auth", "reset-password">>, 5, 15 * Minute, Hour, "emailIp")}

\* As a mistake: the window is widened to an hour, the block stays as it was.
EsimPresetsWidened == {Limit(<<"esim", "purchase">>, 3, Hour, 300, "userOrIp")}

EsimPresets ==
    {Limit(<<"esim", "countries">>, 5, Minute, Minute, "userOrIp"),
     Limit(<<"esim", "data-plans">>, 10, Minute, Minute, "userOrIp"),
     Limit(<<"esim", "topup-packages">>, 15, Minute, Minute, "userOrIp"),
     Limit(<<"esim", "purchase">>, 3, Minute, 300, "userOrIp"),
     Limit(<<"esim", "topup">>, 3, Minute, 300, "userOrIp"),
     Limit(<<"esim", "transactions">>, 20, Minute, Minute, "userOrIp"),
     Limit(<<"esim", "transaction-receipt">>, 10, Minute, Minute, "receipt"),
     Limit(<<"esim", "claim">>, 5, Hour, Hour, "userOrIp")}

AdminPresets ==
    {Limit(<<"admin", "cipher", "rotate">>, 3, Hour, Hour, "userOrIp"),
     Limit(<<"admin", "cipher", "status">>, 30, Minute, Minute, "userOrIp"),
     Limit(<<"assets", "historical-prices">>, 10, Minute, Minute, "userOrIp"),
     Limit(<<"wallet", "estimate-fee">>, 10, Minute, Minute, "userOrIp"),
     Limit(<<"admin", "role-permission">>, 20, Hour, Hour, "userOrIp"),
     Limit(<<"admin", "invite">>, 10, Hour, Hour, "userOrIp"),
     Limit(<<"admin", "audit-approval">>, 30, Hour, Hour, "userOrIp"),
     Limit(<<"admin", "password-validate">>, 5, 15 * Minute, 15 * Minute, "userOrIp")}

StatementPresets ==
    {Limit(<<"wallet", "statement">>, 5, Hour, Hour, "userOrIp"),
     Limit(<<"admin", "login">>, 10, 15 * Minute, 15 * Minute, "emailIp"),
     Limit(<<"profile", "password">>, 5, Hour, Hour, "userOrBare"),
     Limit(<<"profile", "purposes">>, 5, Hour, Hour, "userOrBare")}

Presets == UNION {GlobalPresets, WebhookPresets, WalletPresets, AccessPresets,
                  ProfilePresets, EsimPresets, AdminPresets, StatementPresets}
-----------------------------------------------------------------------------
VARIABLES preset,      \* the numbers of the preset this middleware was made from
          store,       \* the counter of the key in Redis
          limiters,    \* the limiters made so far: client used, counter in memory
          limiter,     \* the variable `limiter`: index in limiters, 0 for null
          req,         \* request slot -> where its request is
          arrived      \* requests so far

vars == <<preset, store, limiters, limiter, req, arrived, connVars>>

(* A counter: the points consumed and the seconds it has to live (0: no     *)
(* such key).  window and granted are history: the seconds left of the      *)
(* window that began with the counter, and the requests it has let through. *)
NoCounter == [count |-> 0, left |-> 0, window |-> 0, granted |-> 0]

Idle == [at |-> "idle", rl |-> 0]

Numbers(p) == [points |-> p.points, duration |-> p.duration, blockDuration |-> p.blockDuration]

Init ==
    /\ preset \in {Numbers(p) : p \in Presets}
    /\ store = NoCounter
    /\ limiters = << >>
    /\ limiter = 0
    /\ req = [r \in Calls |-> Idle]
    /\ arrived = 0
    /\ ConnInit

\* One request more on a counter: its first request starts its life.
Hit(c) ==
    LET fresh == c.left = 0
        new == fresh /\ c.window = 0
        count == IF fresh THEN 1 ELSE c.count + 1
    IN  [count |-> count,
         left |-> IF fresh THEN preset.duration ELSE c.left,
         window |-> IF new THEN preset.duration ELSE c.window,
         granted |-> (IF new THEN 0 ELSE c.granted)
                     + (IF count <= preset.points THEN 1 ELSE 0)]
Over(c) == c.count > preset.points

\* The first request over the limit blocks the key, if the preset blocks.
Blocks(c) == preset.blockDuration > 0 /\ c.count = preset.points + 1
Blocked(c) == [c EXCEPT !.count = preset.points + 1, !.left = preset.blockDuration]

Move(r, at, rl) == req' = [req EXCEPT ![r] = [at |-> at, rl |-> rl]]
limiterVars == <<preset, limiters, limiter, arrived>>
-----------------------------------------------------------------------------
(* A request: getLimiter() finds a limiter or asks for a client.           *)

MayArrive == arrived < MaxRequests /\ preset.points <= MaxPoints

Arrive(r) ==
    /\ MayArrive
    /\ req[r].at = "idle"
    /\ arrived' = arrived + 1
    /\ UNCHANGED <<preset, store, limiters, limiter>>
    /\ \/ limiter # 0 /\ Move(r, "consume", limiter) /\ UNCHANGED connVars
       \/ limiter = 0 /\ Move(r, "client", 0) /\ getClientOrConnect(r)

AwaitClient(r) ==
    /\ req[r].at = "client"
    /\ Poll(r) \/ Connected(r) \/ ConnectFails(r)
    /\ UNCHANGED <<preset, store, limiters, limiter, req, arrived>>

\* The polling loop goes round.
StillWaiting(r) == req[r].at = "client" /\ conn[r] = Waiting /\ MustWait /\ UNCHANGED vars

\* Every request that waited for a client makes a limiter; the last one stays.
getLimiter(r) ==
    /\ req[r].at = "client"
    /\ conn[r].at = "answered"
    /\ limiters' = Append(limiters, [client |-> conn[r].got, memory |-> NoCounter])
    /\ limiter' = Len(limiters) + 1
    /\ Move(r, "consume", Len(limiters) + 1)
    /\ conn' = [conn EXCEPT ![r] = Outside]
    /\ UNCHANGED <<preset, store, arrived, clients, client, isConnecting, losses>>

\* getRedisClient() throws: the request ends in the error handler.
NoClient(r) ==
    /\ req[r].at = "client"
    /\ conn[r].at = "failed"
    /\ Move(r, "idle", 0)
    /\ conn' = [conn EXCEPT ![r] = Outside]
    /\ UNCHANGED <<preset, store, limiters, limiter, arrived, clients, client, isConnecting, losses>>

StoreAnswers(r) == clients[limiters[req[r].rl].client] = "ready"

\* rl.consume(key, 1) answered by Redis: the request goes on, is refused, or is
\* the one that has to block the key first.
Consume(r) ==
    /\ req[r].at = "consume"
    /\ StoreAnswers(r)
    /\ store' = Hit(store)
    /\ IF Blocks(store') THEN Move(r, "block", req[r].rl) ELSE Move(r, "idle", 0)
    /\ UNCHANGED <<limiterVars, connVars>>

InMemory(r) ==
    LET c == Hit(limiters[req[r].rl].memory)
    IN  limiters' = [limiters EXCEPT ![req[r].rl].memory = IF Blocks(c) THEN Blocked(c) ELSE c]

\* Redis does not answer: the insurance limiter decides.
ConsumeInsured(r) ==
    /\ req[r].at = "consume"
    /\ ~StoreAnswers(r)
    /\ InMemory(r)
    /\ Move(r, "idle", 0)
    /\ UNCHANGED <<preset, store, limiter, arrived, connVars>>

\* Redis counts the request, but the connection drops before the reply.
ConsumeReplyLost(r) ==
    /\ req[r].at = "consume"
    /\ StoreAnswers(r)
    /\ Drops(limiters[req[r].rl].client)
    /\ LET c == Hit(store) IN store' = [c EXCEPT !.granted = @ - (IF Over(c) THEN 0 ELSE 1)]
    /\ InMemory(r)
    /\ Move(r, "idle", 0)
    /\ UNCHANGED <<preset, limiter, arrived>>

Block(r) ==
    /\ req[r].at = "block"
    /\ StoreAnswers(r)
    /\ store' = Blocked(store)
    /\ Move(r, "idle", 0)
    /\ UNCHANGED <<limiterVars, connVars>>

BlockInsured(r) ==
    /\ req[r].at = "block"
    /\ ~StoreAnswers(r)
    /\ limiters' = [limiters EXCEPT ![req[r].rl].memory = Blocked(@)]
    /\ Move(r, "idle", 0)
    /\ UNCHANGED <<preset, store, limiter, arrived, connVars>>

RequestStep(r) ==
    \/ AwaitClient(r) \/ getLimiter(r) \/ NoClient(r)
    \/ Consume(r) \/ ConsumeInsured(r) \/ ConsumeReplyLost(r)
    \/ Block(r) \/ BlockInsured(r)

\* Time passes: to the end of a counter or of a window, or by half a window.
Later(c, d) ==
    [c EXCEPT !.left = IF @ > d THEN @ - d ELSE 0, !.window = IF @ > d THEN @ - d ELSE 0]
Counters == {store} \cup {limiters[i].memory : i \in DOMAIN limiters}
Tick ==
    \E d \in ((UNION {{c.left, c.window} : c \in Counters}) \cup {preset.duration \div 2}) \ {0} :
        /\ \E c \in Counters : c.left > 0 \/ c.window > 0
        /\ store' = Later(store, d)
        /\ limiters' = [i \in DOMAIN limiters |->
                           [limiters[i] EXCEPT !.memory = Later(@, d)]]
        /\ UNCHANGED <<preset, limiter, req, arrived, connVars>>

Connections ==
    /\ ConnEnvironment
    /\ UNCHANGED <<preset, store, limiters, limiter, req, arrived>>

Done == ~MayArrive /\ (\A r \in Calls : req[r].at = "idle") /\ UNCHANGED vars

Next == (\E r \in Calls : Arrive(r) \/ RequestStep(r) \/ StillWaiting(r)) \/ Tick \/ Connections \/ Done

Spec == Init /\ [][Next]_vars /\ \A r \in Calls : WF_vars(RequestStep(r))
-----------------------------------------------------------------------------
\* "Max number of requests within duration" (rate-limiting.ts:14): whatever
\* counter is asked, Redis or the memory of a limiter, and whatever overlaps,
\* expires, blocks or drops, it lets no more requests through than its points
\* while a window lasts.  The one preset whose block is shorter than its window
\* (login:failed) is excluded: its block rewrites the time to live of the count.
WindowBudget ==
    preset # Numbers(failedLoginAttempts) => \A c \in Counters : c.granted <= preset.points

\* Every request is answered, refused or failed, whatever the connection does.
EveryRequestEnds == \A r \in Calls : req[r].at # "idle" ~> req[r].at = "idle"
=============================================================================
