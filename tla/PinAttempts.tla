---------------------------- MODULE PinAttempts ----------------------------
(***************************************************************************)
(* PinHelper (src/src/utils/helpers/pin.helper.ts): failed PINs of one     *)
(* user and kind counted in Redis, blocks at thresholds of the total, and  *)
(* the reset; the middleware that turns a blocked user away               *)
(* (src/src/middlewares/auth.ts); which PINs may be chosen.  Every Redis   *)
(* command is a step, and the process may stop between any two of them.    *)
(***************************************************************************)
EXTENDS Naturals, FiniteSets, Sequences

CONSTANTS
  Pins,         \* calls of registerFailedPinAttempt and resetPinAttempts
  Thresholds,   \* totals that block once: 5, 10, 15
  Always,       \* total from which every failure blocks: 20
  MaxFailures   \* bound: failures ever registered

ASSUME PinAssumption ==
  /\ Thresholds \subseteq 1..(Always - 1)
  /\ Always \in Nat /\ MaxFailures \in Nat

VARIABLES
  attempts,     \* pin:attempts, 0 when absent
  total,        \* pin:total_attempts, 0 when absent
  expiring,     \* the counters that have a time to live
  blocked,      \* whether pin:block exists
  pinCall,      \* call -> [at, count, left]
  failed,       \* failures so far (bound)
  blockedAt,    \* history: totals that blocked since pin:total_attempts appeared
  cut           \* history: a call stopped half-way

pinVars == <<attempts, total, expiring, blocked, pinCall, failed, blockedAt, cut>>

PinKeys == {"attempts", "total", "block"}
NoCall == [at |-> "idle", count |-> 0, left |-> {}]

PinInit ==
  /\ attempts = 0 /\ total = 0 /\ expiring = {} /\ blocked = FALSE
  /\ pinCall = [c \in Pins |-> NoCall]
  /\ failed = 0 /\ blockedAt = {} /\ cut = FALSE

PinAt(c, label) == pinCall[c].at = label
PinGoto(c, label) == pinCall' = [pinCall EXCEPT ![c].at = label]
PinEnds(c) == pinCall' = [pinCall EXCEPT ![c] = NoCall]

Blocks(count) == count \in Thresholds \/ count >= Always

\* What a call takes for the total: the reply of its own INCR, or, as a mistake,
\* the key's value when it decides.
CountByNow(c) == total
Count(c) == pinCall[c].count

registerFailedPinAttempt(c) ==
  /\ PinAt(c, "idle") /\ failed < MaxFailures
  /\ failed' = failed + 1
  /\ attempts' = attempts + 1
  /\ PinGoto(c, "counting")
  /\ UNCHANGED <<total, expiring, blocked, blockedAt, cut>>

IncrTotal(c) ==
  /\ PinAt(c, "counting")
  /\ total' = total + 1
  /\ pinCall' = [pinCall EXCEPT ![c].at = "expiring attempts", ![c].count = total + 1]
  /\ UNCHANGED <<attempts, expiring, blocked, failed, blockedAt, cut>>

ExpireAttemptsKey(c) ==
  /\ PinAt(c, "expiring attempts")
  /\ expiring' = IF attempts = 0 THEN expiring ELSE expiring \union {"attempts"}
  /\ PinGoto(c, "expiring total")
  /\ UNCHANGED <<attempts, total, blocked, failed, blockedAt, cut>>

ExpireTotalKey(c) ==
  /\ PinAt(c, "expiring total")
  /\ expiring' = IF total = 0 THEN expiring ELSE expiring \union {"total"}
  /\ PinGoto(c, "deciding")
  /\ UNCHANGED <<attempts, total, blocked, failed, blockedAt, cut>>

\* The next command is the SET of the block, or the call is over.
Decide(c) ==
  /\ PinAt(c, "deciding")
  /\ IF Blocks(Count(c))
     THEN /\ blocked' = TRUE
          /\ blockedAt' = blockedAt \union {Count(c)}
          /\ PinGoto(c, "clearing")
     ELSE PinEnds(c) /\ UNCHANGED <<blocked, blockedAt>>
  /\ UNCHANGED <<attempts, total, expiring, failed, cut>>

ClearAttempts(c) ==
  /\ PinAt(c, "clearing")
  /\ attempts' = 0 /\ expiring' = expiring \ {"attempts"}
  /\ PinEnds(c)
  /\ UNCHANGED <<total, blocked, failed, blockedAt, cut>>

\* A key goes, by DEL or because its time is over; with the total the counting
\* starts anew.
Gone(key) ==
  /\ attempts' = IF key = "attempts" THEN 0 ELSE attempts
  /\ total' = IF key = "total" THEN 0 ELSE total
  /\ blocked' = (blocked /\ key # "block")
  /\ expiring' = expiring \ {key}
  /\ blockedAt' = IF key = "total" THEN {} ELSE blockedAt

\* Three DELs are sent at once and answered in any order.
resetPinAttempts(c) ==
  /\ PinAt(c, "idle")
  /\ pinCall' = [pinCall EXCEPT ![c] = [at |-> "resetting", count |-> 0, left |-> PinKeys]]
  /\ UNCHANGED <<attempts, total, expiring, blocked, failed, blockedAt, cut>>

ResetOne(c) ==
  /\ PinAt(c, "resetting")
  /\ \E key \in pinCall[c].left :
       /\ Gone(key)
       /\ IF pinCall[c].left = {key}
          THEN PinEnds(c)
          ELSE pinCall' = [pinCall EXCEPT ![c].left = @ \ {key}]
  /\ UNCHANGED <<failed, cut>>

PinTimeout ==
  /\ \E key \in expiring \union {k \in {"block"} : blocked} : Gone(key)
  /\ UNCHANGED <<pinCall, failed, cut>>

PinCut(c) ==
  /\ ~PinAt(c, "idle")
  /\ PinEnds(c) /\ cut' = TRUE
  /\ UNCHANGED <<attempts, total, expiring, blocked, failed, blockedAt>>

\* The middleware finds the block; a user who is not blocked passes, and nothing
\* changes.
checkPinBlocked(c) ==
  /\ PinAt(c, "idle") /\ blocked
  /\ PinGoto(c, "turning away")
  /\ UNCHANGED <<attempts, total, expiring, blocked, failed, blockedAt, cut>>

\* A second command asks for the time left, which is told to the user ("some
\* time" when the key has gone meanwhile); he is turned away with 403 whatever it
\* says.
getRemainingBlockTime(c) ==
  /\ PinAt(c, "turning away")
  /\ PinEnds(c)
  /\ UNCHANGED <<attempts, total, expiring, blocked, failed, blockedAt, cut>>

PinStep(c) ==
  \/ registerFailedPinAttempt(c) \/ IncrTotal(c) \/ ExpireAttemptsKey(c)
  \/ ExpireTotalKey(c) \/ Decide(c) \/ ClearAttempts(c)
  \/ resetPinAttempts(c) \/ ResetOne(c) \/ PinCut(c)
  \/ checkPinBlocked(c) \/ getRemainingBlockTime(c)

-----------------------------------------------------------------------------
(* A PIN is the sequence of what was typed, digits as numbers.             *)

PinLength(pinType) == IF pinType = "unlock" THEN 6 ELSE 4

isValidPin(pin, pinType) ==
  Len(pin) = PinLength(pinType) /\ \A i \in DOMAIN pin : pin[i] \in 0..9

isWeakPin(pin) ==
  LET Pairs == 2..Len(pin)
      same == \A i \in Pairs : pin[i] = pin[i - 1]
      ascending == \A i \in Pairs : pin[i] = pin[i - 1] + 1
      descending == \A i \in Pairs : pin[i] = pin[i - 1] - 1
  IN  same \/ ascending \/ descending

validatePin(pin, pinType) == isValidPin(pin, pinType) /\ ~isWeakPin(pin)

-----------------------------------------------------------------------------
\* However failures overlap, each threshold the total has passed has set a
\* block, once no call is under way: no two of them can both miss it
\* (pin.helper.ts:38-66 tests for equality).  A call that was cut short may have
\* been the one to set it.
EveryThresholdBlocks ==
  (\A c \in Pins : PinAt(c, "idle")) /\ ~cut =>
    \A count \in 1..total : Blocks(count) => count \in blockedAt
=============================================================================
