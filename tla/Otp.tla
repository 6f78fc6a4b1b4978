-------------------------------- MODULE Otp --------------------------------
(***************************************************************************)
(* OtpService (src/services/otp/index.service.ts) for one identifier and   *)
(* one OTP type: no Redis key is shared between two of them.               *)
(*                                                                         *)
(* Every `await redis...` of the service is one step, so calls interleave  *)
(* exactly where the code suspends; what runs between two awaits is part   *)
(* of the step.  The five Redis keys are five variables and any of them    *)
(* may expire at any time.  A call may be cut short before any step: Redis *)
(* failed and the catch block answered, or the process died.               *)
(***************************************************************************)
EXTENDS Integers, FiniteSets

CONSTANTS
  Calls,                      \* slots for calls in flight at the same time
  Codes,                      \* what generateOtp may draw
  NoCode,                     \* the key that holds the code is absent
  MAX_RESEND_ATTEMPTS,
  MAX_VERIFICATION_ATTEMPTS,
  Production,                 \* envConfig.env = "production"
  MaxCalls                    \* bound: calls ever made

ASSUME OtpAssumption ==
  /\ IsFiniteSet(Calls)
  /\ NoCode \notin Codes
  /\ MAX_RESEND_ATTEMPTS \in Nat \ {0}
  /\ MAX_VERIFICATION_ATTEMPTS \in Nat \ {0}
  /\ Production \in BOOLEAN
  /\ MaxCalls \in Nat

VARIABLES
  \* Redis: the five keys of getRedisKeys
  otp,                  \* baseKey: the code, or NoCode
  resends,              \* resendKey: 0 when absent
  attempts,             \* attemptsKey: 0 when absent
  blocked,              \* operations whose blocked key is set
  \* the calls in flight
  pc,                   \* the next await of the call, "idle" when none
  op,                   \* the method called
  given,                \* validateOtp, checkOtp: the code in the request
  count,                \* what incrEx returned to this call
  begun,                \* calls made so far
  \* history, read by no action
  guesses, guessers,    \* comparisons paid by the present attempts key,
                        \*   and the calls it let through so far
  mails, mailers,       \* the same for the resend key and the mails
  stored, accepted      \* codes written, and codes a validateOtp took

redisVars == <<otp, resends, attempts, blocked>>
callVars == <<op, given, begun>>
guessVars == <<guesses, guessers>>
mailVars == <<mails, mailers>>
useVars == <<stored, accepted>>
historyVars == <<guessVars, mailVars, useVars>>
vars == <<redisVars, pc, callVars, count, historyVars>>

Sends == {"generateAndSendOtp", "resendOtp"}
Verifies == {"validateOtp", "checkOtp"}
Operations == {"resend", "verification"}
Labels == {"idle", "resendCheck", "sendCheck", "countResend", "blockResend",
           "store", "mail", "unstore", "verifyCheck", "countAttempt",
           "blockVerification", "compare", "take", "clearAttempts",
           "clearResends"}

Init ==
  /\ otp = NoCode /\ resends = 0 /\ attempts = 0
  /\ blocked = {}
  /\ pc = [c \in Calls |-> "idle"]
  /\ op = [c \in Calls |-> "generateAndSendOtp"]
  /\ given = [c \in Calls |-> NoCode]
  /\ count = [c \in Calls |-> 0]
  /\ begun = 0
  /\ guesses = 0 /\ guessers = {} /\ mails = 0 /\ mailers = {}
  /\ stored = 0 /\ accepted = 0

\* The limits, and the atomic GETDEL and DEL; before each, a form the code could
\* have had by mistake, for the runs to tell apart.
OverResendLimitByOne(n) == n > MAX_RESEND_ATTEMPTS + 1
OverResendLimit(n) == n > MAX_RESEND_ATTEMPTS
OverVerificationLimitByOne(n) == n > MAX_VERIFICATION_ATTEMPTS + 1
OverVerificationLimit(n) == n > MAX_VERIFICATION_ATTEMPTS
GetOnly == UNCHANGED otp
GetDel == otp' = NoCode
Decremented(n) == n - 1
Deleted(n) == 0

Goto(c, label) == pc' = [pc EXCEPT ![c] = label]
At(c, label) == pc[c] = label
Return(c) == Goto(c, "idle")

-----------------------------------------------------------------------------
(* A request reaches the service.                                          *)

BeginSend(c, o) ==
  /\ At(c, "idle") /\ begun < MaxCalls
  /\ begun' = begun + 1
  /\ op' = [op EXCEPT ![c] = o]
  /\ Goto(c, IF o = "resendOtp" THEN "resendCheck" ELSE "sendCheck")
  /\ UNCHANGED <<redisVars, given, count, historyVars>>

BeginVerify(c, o, code) ==
  /\ At(c, "idle") /\ begun < MaxCalls
  /\ begun' = begun + 1
  /\ op' = [op EXCEPT ![c] = o]
  /\ given' = [given EXCEPT ![c] = code]
  /\ Goto(c, "verifyCheck")
  /\ UNCHANGED <<redisVars, count, historyVars>>

-----------------------------------------------------------------------------
(* generateAndSendOtp, and resendOtp, which looks at the block once more   *)
(* before calling it.                                                      *)

ResendCheck(c) ==
  /\ At(c, "resendCheck")
  /\ Goto(c, IF "resend" \in blocked THEN "idle" ELSE "sendCheck")
  /\ UNCHANGED <<redisVars, callVars, count, historyVars>>

SendCheck(c) ==
  /\ At(c, "sendCheck")
  /\ Goto(c, IF "resend" \in blocked THEN "idle" ELSE "countResend")
  /\ UNCHANGED <<redisVars, callVars, count, historyVars>>

\* incrEx is one Lua script: nobody else can read the same value.
CountResend(c) ==
  /\ At(c, "countResend")
  /\ resends' = resends + 1
  /\ count' = [count EXCEPT ![c] = resends']
  /\ \/ /\ OverResendLimit(resends')
        /\ Goto(c, "blockResend")
        /\ UNCHANGED mailers
     \/ /\ ~OverResendLimit(resends')
        /\ Goto(c, "store")
        /\ mailers' = mailers \union {c}
  /\ UNCHANGED <<otp, attempts, blocked, callVars,
                 guessVars, mails, useVars>>

BlockResend(c) ==
  /\ At(c, "blockResend")
  /\ blocked' = blocked \union {"resend"}
  /\ Return(c)
  /\ UNCHANGED <<otp, resends, attempts, callVars, count, historyVars>>

Store(c) ==
  /\ At(c, "store")
  /\ otp' \in Codes
  /\ stored' = stored + 1
  /\ Goto(c, "mail")
  /\ UNCHANGED <<resends, attempts, blocked,
                 callVars, count, guessVars, mailVars, accepted>>

\* Only in production is the code withdrawn when the mail was not sent.
Mail(c, sent) ==
  /\ At(c, "mail")
  /\ Goto(c, IF Production /\ ~sent THEN "unstore" ELSE "idle")
  /\ mailers' = mailers \ {c}
  /\ mails' = IF c \in mailers THEN mails + 1 ELSE mails
  /\ UNCHANGED <<redisVars, callVars, count, guessVars, useVars>>

Unstore(c) ==
  /\ At(c, "unstore")
  /\ otp' = NoCode
  /\ Return(c)
  /\ UNCHANGED <<resends, attempts, blocked,
                 callVars, count, historyVars>>

-----------------------------------------------------------------------------
(* validateOtp and checkOtp.                                               *)

VerifyCheck(c) ==
  /\ At(c, "verifyCheck")
  /\ Goto(c, IF "verification" \in blocked THEN "idle" ELSE "countAttempt")
  /\ UNCHANGED <<redisVars, callVars, count, historyVars>>

CountAttempt(c) ==
  /\ At(c, "countAttempt")
  /\ attempts' = attempts + 1
  /\ count' = [count EXCEPT ![c] = attempts']
  /\ \/ /\ OverVerificationLimit(attempts')
        /\ Goto(c, "blockVerification")
        /\ UNCHANGED guessers
     \/ /\ ~OverVerificationLimit(attempts')
        /\ Goto(c, "compare")
        /\ guessers' = guessers \union {c}
  /\ UNCHANGED <<otp, resends, blocked, callVars,
                 guesses, mailVars, useVars>>

BlockVerification(c) ==
  /\ At(c, "blockVerification")
  /\ blocked' = blocked \union {"verification"}
  /\ Return(c)
  /\ UNCHANGED <<otp, resends, attempts, callVars, count, historyVars>>

\* The last attempt blocks when it is wrong, not before.
Compare(c) ==
  /\ At(c, "compare")
  /\ Goto(c, CASE otp = NoCode -> "idle"
               [] otp = given[c] -> IF op[c] = "validateOtp" THEN "take"
                                    ELSE "clearAttempts"
               [] OTHER -> IF count[c] >= MAX_VERIFICATION_ATTEMPTS
                           THEN "blockVerification" ELSE "idle")
  /\ guessers' = guessers \ {c}
  /\ guesses' = IF c \in guessers /\ otp # NoCode THEN guesses + 1 ELSE guesses
  /\ UNCHANGED <<redisVars, callVars, count, mailVars, useVars>>

\* GETDEL takes whatever code is stored now, which need not be the one compared.
Take(c) ==
  /\ At(c, "take")
  /\ GetDel
  /\ Goto(c, IF otp = NoCode THEN "idle" ELSE "clearAttempts")
  /\ accepted' = IF otp = NoCode THEN accepted ELSE accepted + 1
  /\ UNCHANGED <<resends, attempts, blocked,
                 callVars, count, guessVars, mailVars, stored>>

ResetGuesses == guesses' = 0 /\ guessers' = {}
ResetMails == mails' = 0 /\ mailers' = {}

ClearAttempts(c) ==
  /\ At(c, "clearAttempts")
  /\ attempts' = Deleted(attempts)
  /\ ResetGuesses
  /\ Goto(c, IF op[c] = "validateOtp" THEN "clearResends" ELSE "idle")
  /\ UNCHANGED <<otp, resends, blocked, callVars,
                 count, mailVars, useVars>>

ClearResends(c) ==
  /\ At(c, "clearResends")
  /\ resends' = Deleted(resends)
  /\ ResetMails
  /\ Return(c)
  /\ UNCHANGED <<otp, attempts, blocked, callVars,
                 count, guessVars, useVars>>

-----------------------------------------------------------------------------
(* What happens around the calls.                                          *)

\* A Redis error answered by the catch block, or the end of the process.
Abort(c) ==
  /\ ~At(c, "idle")
  /\ Return(c)
  /\ guessers' = guessers \ {c}
  /\ mailers' = mailers \ {c}
  /\ UNCHANGED <<redisVars, callVars, count, guesses, mails, useVars>>

ExpireOtp ==
  /\ otp # NoCode /\ otp' = NoCode
  /\ UNCHANGED <<resends, attempts, blocked, pc,
                 callVars, count, historyVars>>

ExpireResends ==
  /\ resends > 0 /\ resends' = 0
  /\ ResetMails
  /\ UNCHANGED <<otp, attempts, blocked, pc,
                 callVars, count, guessVars, useVars>>

ExpireAttempts ==
  /\ attempts > 0 /\ attempts' = 0
  /\ ResetGuesses
  /\ UNCHANGED <<otp, resends, blocked, pc,
                 callVars, count, mailVars, useVars>>

ExpireBlock(operation) ==
  /\ operation \in blocked /\ blocked' = blocked \ {operation}
  /\ UNCHANGED <<otp, resends, attempts, pc, callVars, count, historyVars>>

Expire == \/ ExpireOtp \/ ExpireResends \/ ExpireAttempts
          \/ \E operation \in Operations : ExpireBlock(operation)

Begin(c) == \/ \E o \in Sends : BeginSend(c, o)
            \/ \E o \in Verifies, code \in Codes : BeginVerify(c, o, code)

Send(c) == \/ ResendCheck(c) \/ SendCheck(c) \/ CountResend(c)
           \/ BlockResend(c) \/ Store(c) \/ Unstore(c)
           \/ \E sent \in BOOLEAN : Mail(c, sent)

Verify(c) == \/ VerifyCheck(c) \/ CountAttempt(c) \/ BlockVerification(c)
             \/ Compare(c) \/ Take(c) \/ ClearAttempts(c) \/ ClearResends(c)

Next == Expire \/ \E c \in Calls : Begin(c) \/ Send(c) \/ Verify(c) \/ Abort(c)

Spec == Init /\ [][Next]_vars

-----------------------------------------------------------------------------
(* Type correctness of the Redis keys and of the calls in flight.          *)
TypeOK ==
  /\ otp \in Codes \union {NoCode}
  /\ resends \in Nat /\ attempts \in Nat
  /\ blocked \in SUBSET Operations
  /\ pc \in [Calls -> Labels]
  /\ op \in [Calls -> Sends \union Verifies]
  /\ given \in [Calls -> Codes \union {NoCode}]
  /\ count \in [Calls -> Nat]
  /\ begun \in Nat
  /\ guesses \in Nat /\ guessers \in SUBSET Calls
  /\ mails \in Nat /\ mailers \in SUBSET Calls
  /\ stored \in Nat /\ accepted \in Nat

(* However the calls interleave, expire or fail, one life of the attempts  *)
(* key pays for at most MAX_VERIFICATION_ATTEMPTS comparisons with a       *)
(* stored code, those still to come counted (incrEx before the GET).       *)
GuessBudget == guesses + Cardinality(guessers) <= MAX_VERIFICATION_ATTEMPTS

(* One life of the resend key pays for at most MAX_RESEND_ATTEMPTS mails.  *)
MailBudget == mails + Cardinality(mailers) <= MAX_RESEND_ATTEMPTS

(* A code that was written is good for one validateOtp: the codes accepted *)
(* and the one still stored are never more than the codes written, also    *)
(* when several validateOtp calls compared the same code before one took   *)
(* it.                                                                     *)
SingleUse == accepted + (IF otp = NoCode THEN 0 ELSE 1) <= stored

(* Both counters implement the abstract attempt budget.                    *)
Guessing == INSTANCE Budget WITH Callers <- Calls, used <- guesses,
              holders <- guessers, Max <- MAX_VERIFICATION_ATTEMPTS
GuessingIsBudget == Guessing!Spec

(* ... and so does the resend counter, which a validateOtp clears last.    *)
Mailing == INSTANCE Budget WITH Callers <- Calls, used <- mails,
             holders <- mailers, Max <- MAX_RESEND_ATTEMPTS
MailingIsBudget == Mailing!Spec
=============================================================================
