------------------------------ MODULE Devices ------------------------------
(***************************************************************************)
(* The rows of user_devices of one user after registration                 *)
(* (src/src/repository/device.ts): trust tokens given and revoked, push    *)
(* tokens registered, refused by the push service and cleared, and         *)
(* device_trust_token_history with its clean-up.  Every method is one      *)
(* statement; what a caller read before it may be out of date.             *)
(***************************************************************************)
EXTENDS Naturals, FiniteSets

CONSTANTS
  Devices,            \* rows of the user
  PushTokens,         \* what a device registers with the push service
  TrustTokens,        \* random tokens of createTrustRecord, each made once
  NoToken,            \* null
  Senders,            \* notifications being sent
  MaxRegistrations    \* bound: calls of updateDeviceToken

ASSUME DeviceAssumption ==
  /\ NoToken \notin PushTokens \union TrustTokens
  /\ MaxRegistrations \in Nat

VARIABLES
  device,        \* row -> [status, hash, push, idle]; idle: last_active_at too old
  age,           \* trust token -> "unmade", "valid", "over" (expires_at), "old" (a day more)
  unrecorded,    \* trust tokens whose row in the history is not written yet
  tokenHistory,  \* device_trust_token_history
  sender,        \* sender -> [at, read, refused]
  refused,       \* push tokens the push service has turned down
  registrations, \* calls of updateDeviceToken so far (bound)
  wanted         \* history: the push token each row should hold

deviceVars ==
  <<device, age, unrecorded, tokenHistory, sender, refused, registrations, wanted>>

NoSender == [at |-> "idle", read |-> {}, refused |-> {}]

DevicesInit ==
  /\ device = [d \in Devices |->
                 [status |-> "pending", hash |-> NoToken, push |-> NoToken, idle |-> FALSE]]
  /\ age = [k \in TrustTokens |-> "unmade"]
  /\ unrecorded = {} /\ tokenHistory = {}
  /\ sender = [s \in Senders |-> NoSender]
  /\ refused = {} /\ registrations = 0
  /\ wanted = [d \in Devices |-> NoToken]

-----------------------------------------------------------------------------
(* Trust.  revoked_at is set exactly when the status is "revoked".         *)

Revoked(row) == [row EXCEPT !.status = "revoked", !.hash = NoToken]
Activated(row, token) ==
  [row EXCEPT !.status = "active", !.hash = token, !.idle = FALSE]

\* DeviceTrustService.isTrusted: what a row makes of a token presented with it.
isTrusted(row, token, ages) ==
  /\ row.status = "active"
  /\ row.hash # NoToken /\ ages[row.hash] = "valid"
  /\ row.hash = token

UpdateWhere(test(_), new(_)) ==
  device' = [d \in Devices |-> IF test(d) THEN new(device[d]) ELSE device[d]]

\* createTrustRecord and the activation; the row may have been revoked since it
\* was chosen, and comes back.
activateTrustedDevice(d) ==
  /\ \E k \in TrustTokens :
       /\ age[k] = "unmade"
       /\ age' = [age EXCEPT ![k] = "valid"]
       /\ device' = [device EXCEPT ![d] = Activated(@, k)]
       /\ unrecorded' = unrecorded \union {k}
  /\ UNCHANGED <<tokenHistory, sender, refused, registrations, wanted>>

add(k) ==
  /\ k \in unrecorded
  /\ tokenHistory' = tokenHistory \union {k} /\ unrecorded' = unrecorded \ {k}
  /\ UNCHANGED <<device, age, sender, refused, registrations, wanted>>

revokeById(d) ==
  /\ device' = [device EXCEPT ![d] = Revoked(@)]
  /\ UNCHANGED <<age, unrecorded, tokenHistory, sender, refused, registrations, wanted>>

revokeAllByUserId ==
  /\ UpdateWhere(LAMBDA d : TRUE, Revoked)
  /\ UNCHANGED <<age, unrecorded, tokenHistory, sender, refused, registrations, wanted>>

\* Rows whose expires_at is a day ago.
deleteExpiredBatch ==
  /\ tokenHistory' = {k \in tokenHistory : age[k] # "old"}
  /\ UNCHANGED <<device, age, unrecorded, sender, refused, registrations, wanted>>

-----------------------------------------------------------------------------
(* Push tokens.                                                            *)

\* last_active_at, and columns nothing here reads; updateCountry sets the country
\* unconditionally, otherwise the same.
recordLoginObservation(d) ==
  /\ device' = [device EXCEPT ![d].idle = FALSE]
  /\ UNCHANGED <<age, unrecorded, tokenHistory, sender, refused, registrations, wanted>>

updateCountry(d) == recordLoginObservation(d)

updateDeviceToken(d, t) ==
  /\ registrations < MaxRegistrations
  /\ registrations' = registrations + 1
  /\ device' = [device EXCEPT ![d].push = t, ![d].idle = FALSE]
  /\ wanted' = [wanted EXCEPT ![d] = t]
  /\ UNCHANGED <<age, unrecorded, tokenHistory, sender, refused>>

WithoutPush(row) == [row EXCEPT !.push = NoToken]

findUsersDeviceToken(s) ==
  /\ sender[s].at = "idle"
  /\ sender' = [sender EXCEPT ![s] =
       [at |-> "sending", refused |-> {},
        read |-> {<<d, device[d].push>> : d \in {e \in Devices : device[e].push # NoToken}}]]
  /\ UNCHANGED <<device, age, unrecorded, tokenHistory, refused, registrations, wanted>>

\* The push service answers: some of the tokens are of no use any more.
Refuse(s) ==
  /\ sender[s].at = "sending"
  /\ \E dead \in SUBSET sender[s].read :
       /\ sender' = [sender EXCEPT ![s] =
            IF dead = {} THEN NoSender ELSE [@ EXCEPT !.at = "clearing", !.refused = dead]]
       /\ refused' = refused \union {pair[2] : pair \in dead}
  /\ UNCHANGED <<device, age, unrecorded, tokenHistory, registrations, wanted>>

\* The rows clearDeviceTokens takes: those named whose token is among the expected
\* ones; as a mistake, all those named.
NamedRow(d, pairs) == d \in {pair[1] : pair \in pairs}
Expected(d, pairs) ==
  /\ d \in {pair[1] : pair \in pairs}
  /\ device[d].push \in {pair[2] : pair \in pairs}

clearDeviceTokens(s) ==
  /\ sender[s].at = "clearing"
  /\ UpdateWhere(LAMBDA d : Expected(d, sender[s].refused), WithoutPush)
  /\ sender' = [sender EXCEPT ![s] = NoSender]
  /\ UNCHANGED <<age, unrecorded, tokenHistory, refused, registrations, wanted>>

\* Without expected tokens it clears whatever the row holds, as its caller asks.
clearWithoutExpected(d) ==
  /\ device' = [device EXCEPT ![d] = WithoutPush(@)]
  /\ wanted' = [wanted EXCEPT ![d] = NoToken]
  /\ UNCHANGED <<age, unrecorded, tokenHistory, sender, refused, registrations>>

clearStaleDeviceTokens ==
  /\ UpdateWhere(LAMBDA d : device[d].idle, WithoutPush)
  /\ wanted' = [d \in Devices |-> IF device[d].idle THEN NoToken ELSE wanted[d]]
  /\ UNCHANGED <<age, unrecorded, tokenHistory, sender, refused, registrations>>

\* Time: a row is not used for 180 days; a trust token passes its expires_at, and
\* then a day more.
DeviceElapse ==
  /\ \/ /\ \E d \in Devices : device' = [device EXCEPT ![d].idle = TRUE]
        /\ UNCHANGED age
     \/ /\ \E k \in TrustTokens :
             \/ age[k] = "valid" /\ age' = [age EXCEPT ![k] = "over"]
             \/ age[k] = "over" /\ age' = [age EXCEPT ![k] = "old"]
        /\ UNCHANGED device
  /\ UNCHANGED <<unrecorded, tokenHistory, sender, refused, registrations, wanted>>

DeviceStep ==
  \/ \E d \in Devices :
       \/ activateTrustedDevice(d) \/ revokeById(d) \/ recordLoginObservation(d)
       \/ updateCountry(d) \/ clearWithoutExpected(d) \/ \E t \in PushTokens : updateDeviceToken(d, t)
  \/ \E k \in TrustTokens : add(k)
  \/ \E s \in Senders : findUsersDeviceToken(s) \/ Refuse(s) \/ clearDeviceTokens(s)
  \/ revokeAllByUserId \/ deleteExpiredBatch \/ clearStaleDeviceTokens \/ DeviceElapse

-----------------------------------------------------------------------------
\* No clean-up takes a token still in use.  A push token registered while a
\* notification was refused under the old one stays (device.ts:205-224 names the
\* tokens it expects to find), and a trust token the device still presents with
\* success stays in the history (device-trust-token-history.ts:26-42 deletes by
\* expires_at) once it has got there.
CleanupSparesLiveTokens ==
  \A d \in Devices :
    /\ wanted[d] # NoToken /\ wanted[d] \notin refused => device[d].push = wanted[d]
    /\ \A k \in TrustTokens :
         isTrusted(device[d], k, age) => k \in unrecorded \union tokenHistory
=============================================================================
