--------------------------- MODULE TransactionPin ---------------------------
(***************************************************************************)
(* PinService.verifyTransactionPin (src/services/pin.service.ts) for one   *)
(* user who has a PIN, and AuthHelper.rateLimitPinAttempts, which guards   *)
(* the same failure counter.                                               *)
(*                                                                         *)
(* The counter is read and written by separate Redis commands, so calls    *)
(* interleave between the two.  bcrypt's answer is the input `right`: it   *)
(* depends on nothing the calls share.                                     *)
(***************************************************************************)
EXTENDS Integers

CONSTANTS
  Calls,        \* slots for calls in flight at the same time
  maxAttempts,  \* envConfig.pin.maxAttempts
  MaxCalls      \* bound: calls ever made

ASSUME PinAssumption ==
  /\ maxAttempts \in Nat \ {0}
  /\ MaxCalls \in Nat

VARIABLES
  failures,  \* pin:failures:<user>, 0 when absent
  locked,    \* the pin:lockout:<user> keys that exist: {} or {"pin:lockout"}
  pc,        \* next command of the call, "idle" when none
  right,     \* calls whose PIN is the right one
  read,      \* the failures this call read
  begun,     \* calls made so far
  limited,   \* calls turned away by rateLimitPinAttempts
  \* history, read by no action
  wrong,     \* wrong PINs compared, ever
  tries,     \* wrong PINs compared since the counter was last cleared
  disturbed  \* calls that began beside another one or were cut short

vars == <<failures, locked, pc, right, read, begun, limited,
          wrong, tries, disturbed>>

Labels == {"idle", "lockCheck", "clear", "read", "write", "lock", "forget"}
LockoutKey == "pin:lockout"

Init ==
  /\ failures = 0 /\ locked = {}
  /\ pc = [c \in Calls |-> "idle"]
  /\ right = {}
  /\ read = [c \in Calls |-> 0]
  /\ begun = 0 /\ limited = 0
  /\ wrong = 0 /\ tries = 0 /\ disturbed = {}

Goto(c, from, to) == pc[c] = from /\ pc' = [pc EXCEPT ![c] = to]

\* The limit; before each definition, a form it could have had by mistake.
ReachedByOne(n) == n > maxAttempts
ReachedEarly(n) == n >= maxAttempts - 1
Reached(n) == n >= maxAttempts

\* DEL; before it, a DECR in its place.
Decremented(n) == n - 1
Deleted(n) == 0

Begin(c, isMatch) ==
  /\ begun < MaxCalls
  /\ begun' = begun + 1
  /\ Goto(c, "idle", "lockCheck")
  /\ right' = IF isMatch THEN right \union {c} ELSE right \ {c}
  /\ disturbed' = IF \E d \in Calls : pc[d] # "idle"
                  THEN disturbed \union {c} ELSE disturbed
  /\ UNCHANGED <<failures, locked, read, limited, wrong, tries>>

\* redis.get(lockoutKey), then bcrypt.
LockCheck(c) ==
  /\ Goto(c, "lockCheck", IF LockoutKey \in locked THEN "idle"
                          ELSE IF c \in right THEN "clear" ELSE "read")
  /\ UNCHANGED <<failures, locked, right, read, begun, limited, wrong, tries,
                 disturbed>>

ClearFailures(c) ==
  /\ Goto(c, "clear", "idle")
  /\ failures' = Deleted(failures) /\ tries' = 0
  /\ UNCHANGED <<locked, right, read, begun, limited, wrong, disturbed>>

ReadFailures(c) ==
  /\ Goto(c, "read", IF Reached(failures + 1) THEN "lock" ELSE "write")
  /\ read' = [read EXCEPT ![c] = failures]
  /\ wrong' = wrong + 1 /\ tries' = tries + 1
  /\ UNCHANGED <<failures, locked, right, begun, limited, disturbed>>

\* The value written is the one read before the await, plus one.
WriteFailures(c) ==
  /\ Goto(c, "write", "idle")
  /\ failures' = read[c] + 1
  /\ UNCHANGED <<locked, right, read, begun, limited, wrong, tries,
                 disturbed>>

SetLockout(c) ==
  /\ Goto(c, "lock", "forget")
  /\ locked' = {LockoutKey}
  /\ UNCHANGED <<failures, right, read, begun, limited, wrong, tries,
                 disturbed>>

ForgetFailures(c) ==
  /\ Goto(c, "forget", "idle")
  /\ failures' = Deleted(failures) /\ tries' = 0
  /\ UNCHANGED <<locked, right, read, begun, limited, wrong, disturbed>>

\* Middleware in front of PIN operations: refuses once the counter is full.
RateLimitPinAttempts ==
  /\ begun < MaxCalls
  /\ begun' = begun + 1
  /\ limited' = IF failures >= maxAttempts THEN limited + 1 ELSE limited
  /\ UNCHANGED <<failures, locked, pc, right, read, wrong, tries,
                 disturbed>>

Abort(c) ==
  /\ pc[c] # "idle"
  /\ pc' = [pc EXCEPT ![c] = "idle"]
  /\ disturbed' = disturbed \union {c}
  /\ UNCHANGED <<failures, locked, right, read, begun, limited, wrong, tries>>

ExpireFailures ==
  /\ failures > 0 /\ failures' = 0 /\ tries' = 0
  /\ UNCHANGED <<locked, pc, right, read, begun, limited, wrong, disturbed>>

ExpireLockout ==
  /\ locked # {} /\ locked' = {}
  /\ UNCHANGED <<failures, pc, right, read, begun, limited, wrong, tries,
                 disturbed>>

VerifyTransactionPin(c) ==
  \/ \E isMatch \in BOOLEAN : Begin(c, isMatch)
  \/ LockCheck(c) \/ ClearFailures(c) \/ ReadFailures(c)
  \/ WriteFailures(c) \/ SetLockout(c) \/ ForgetFailures(c) \/ Abort(c)

Next == \/ \E c \in Calls : VerifyTransactionPin(c)
        \/ RateLimitPinAttempts \/ ExpireFailures \/ ExpireLockout

Spec == Init /\ [][Next]_vars

-----------------------------------------------------------------------------
(* Type correctness; the counter counts and the lockout is one key.        *)
TypeOK ==
  /\ failures \in Nat /\ locked \in SUBSET {LockoutKey}
  /\ pc \in [Calls -> Labels]
  /\ right \in SUBSET Calls
  /\ read \in [Calls -> Nat]
  /\ begun \in Nat /\ limited \in Nat
  /\ wrong \in Nat /\ tries \in Nat
  /\ disturbed \in SUBSET Calls

(* The stored counter stays below the limit, because the call that would   *)
(* bring it there writes the lockout instead: rateLimitPinAttempts, which  *)
(* looks for a counter at the limit, never turns anybody away.             *)
RateLimitNeverFires == failures < maxAttempts /\ limited = 0

(* Nobody is locked out without maxAttempts wrong PINs: a stale write may  *)
(* lose failures but never invents one.                                    *)
LockoutIsEarned == locked # {} => wrong >= maxAttempts

(* While no call overlaps another and none is interrupted, at most         *)
(* maxAttempts wrong PINs are compared before the counter is cleared.      *)
(* Two calls that overlap can exceed it: both read the same counter.        *)
SequentialBudget == disturbed = {} => tries <= maxAttempts
=============================================================================
