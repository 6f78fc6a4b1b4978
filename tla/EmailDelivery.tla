--------------------------- MODULE EmailDelivery ---------------------------
(***************************************************************************)
(* EmailService.sendEmail over EmailProviderFactory.sendWithFallback       *)
(* (src/services/email): retries around a chain of providers, each behind  *)
(* a circuit breaker, all in the memory of one EmailService.               *)
(*                                                                         *)
(* The code suspends only while a provider sends, while a retry sleeps and *)
(* while the log row is written.  Passing from one provider to the next,   *)
(* breakers included, happens inside the step that ends the send before.   *)
(***************************************************************************)
EXTENDS Integers, Sequences, FiniteSets, FiniteSetsExt, EmailProviders

CONSTANTS
  Senders,         \* sendEmail calls in flight at the same time
  ProviderOrder,   \* the providers in fallback order
  MAX_FAILURES,
  Retries,         \* async-retry's retries: attempts after the first
  MaxSends         \* bound: sendEmail calls ever made

ASSUME DeliveryAssumption ==
  /\ IsFiniteSet(Senders)
  /\ ProviderOrder \in Seq(validProviders) \ {<< >>}
  /\ MAX_FAILURES \in Nat \ {0} /\ Retries \in Nat /\ MaxSends \in Nat

Places == DOMAIN ProviderOrder
Providers == {ProviderOrder[i] : i \in Places}

VARIABLES
  failures,        \* failureCount
  rested,          \* providers whose last failure is over 5 minutes old
  pc, place,       \* the calls, and where in the order each is sending
  attempt,         \* async-retry's attempt number
  made

chainVars == <<failures, rested, pc, place, attempt, made>>

ChainInit ==
  /\ failures = [p \in Providers |-> 0]
  /\ rested = Providers
  /\ pc = [c \in Senders |-> "idle"]
  /\ place = [c \in Senders |-> 1]
  /\ attempt = [c \in Senders |-> 0]
  /\ made = 0

CallAt(c, label) == pc[c] = label
CallGoesTo(c, label) == pc' = [pc EXCEPT ![c] = label]
CallReturns(c) == CallGoesTo(c, "idle")
Provider(c) == ProviderOrder[place[c]]

\* The breaker's threshold, the retry counter and its limit; before each, a form
\* the code could have had by mistake.
OpensLate(n) == n > MAX_FAILURES
Opens(n) == n >= MAX_FAILURES
SameAttempt(c) == UNCHANGED attempt
NextAttempt(c) == attempt' = [attempt EXCEPT ![c] = @ + 1]
AttemptsLeftLate(c) == attempt[c] <= Retries + 1
AttemptsLeft(c) == attempt[c] <= Retries

Failed(p) == [failures EXCEPT ![p] = @ + 1]

-----------------------------------------------------------------------------
(* sendWithFallback: from a place in the order, with these failure counts, *)
(* on to the first provider whose breaker is closed, or to the end.        *)

isCircuitOpen(p, count, rest) == Opens(count[p]) /\ p \notin rest

\* isCircuitOpen sets the count of a provider that has rested to zero.
Reset(p, count) == IF Opens(count[p]) THEN [count EXCEPT ![p] = 0] ELSE count

TryFrom(c, first, count, rest) ==
  LET closed == {i \in first..Len(ProviderOrder) :
                   ~isCircuitOpen(ProviderOrder[i], count, rest)}
      next == Min(closed)
  IN  \/ /\ closed # {}
         /\ CallGoesTo(c, "sending")
         /\ place' = [place EXCEPT ![c] = next]
         /\ failures' = Reset(ProviderOrder[next], count)
      \/ /\ closed = {}             \* ALL_PROVIDERS_FAILED: sendEmail bails
         /\ CallReturns(c)
         /\ failures' = count
         /\ UNCHANGED place

SendEmail(c) ==
  /\ CallAt(c, "idle") /\ made < MaxSends
  /\ made' = made + 1
  /\ attempt' = [attempt EXCEPT ![c] = 1]
  /\ TryFrom(c, 1, failures, rested)
  /\ UNCHANGED rested

\* The provider's send ends, with a verdict that is one of its own.
Answers(c, verdict) == CallAt(c, "sending") /\ verdict \in Verdicts(Provider(c))

Delivered(c) ==
  /\ Answers(c, "delivered")
  /\ failures' = [failures EXCEPT ![Provider(c)] = 0]
  /\ CallGoesTo(c, "tracking")
  /\ UNCHANGED <<rested, place, attempt, made>>

\* The provider answers a transient error or throws: on to the next one.
TransientError(c) ==
  /\ Answers(c, "transient")
  /\ rested' = rested \ {Provider(c)}
  /\ TryFrom(c, place[c] + 1, Failed(Provider(c)), rested')
  /\ UNCHANGED <<attempt, made>>

\* A permanent error goes back to sendEmail, which throws it into async-retry.
PermanentError(c) ==
  /\ Answers(c, "permanent")
  /\ rested' = rested \ {Provider(c)}
  /\ failures' = Failed(Provider(c))
  /\ \/ AttemptsLeft(c) /\ CallGoesTo(c, "asleep")
     \/ ~AttemptsLeft(c) /\ CallReturns(c)
  /\ UNCHANGED <<place, attempt, made>>

Retry(c) ==
  /\ CallAt(c, "asleep")
  /\ NextAttempt(c)
  /\ TryFrom(c, 1, failures, rested)
  /\ UNCHANGED <<rested, made>>

\* logEmailSent writes its row or fails: sendEmail returns, with false in the
\* second case although the mail went out.
Track(c) ==
  /\ CallAt(c, "tracking")
  /\ CallReturns(c)
  /\ UNCHANGED <<failures, rested, place, attempt, made>>

getProviderHealth ==
  /\ failures' = [p \in Providers |->
                    IF p \in rested THEN Reset(p, failures)[p] ELSE failures[p]]
  /\ UNCHANGED <<rested, pc, place, attempt, made>>

\* CIRCUIT_RESET_TIME_MS go by since the provider's last failure.
Rest(p) ==
  /\ p \notin rested
  /\ rested' = rested \union {p}
  /\ UNCHANGED <<failures, pc, place, attempt, made>>

Step(c) ==
  \/ Delivered(c) \/ TransientError(c) \/ PermanentError(c) \/ Retry(c)
  \/ Track(c)

ChainNext ==
  \/ \E c \in Senders : SendEmail(c) \/ Step(c)
  \/ getProviderHealth
  \/ \E p \in Providers : Rest(p)

ChainSpec == ChainInit /\ [][ChainNext]_chainVars

\* Providers answer or time out, timers fire, the database answers or rejects.
FairChainSpec == ChainSpec /\ \A c \in Senders : WF_chainVars(Step(c))

-----------------------------------------------------------------------------
(* Properties.                                                             *)

Sending(p) == {c \in Senders : CallAt(c, "sending") /\ Provider(c) = p}

\* The circuit breaker: the sends that were already under way when it opened are
\* all that may still fail, so a failing provider is never hit more than
\* MAX_FAILURES times and once more for every other call in flight.
BreakerBoundsFailures ==
  \A p \in Providers :
    failures[p] + Cardinality(Sending(p)) <= MAX_FAILURES - 1 + Cardinality(Senders)

\* sendEmail's retries come to an end whatever the providers answer.
EverySendEnds == \A c \in Senders : ~CallAt(c, "idle") ~> CallAt(c, "idle")

=============================================================================
