-------------------------- MODULE DistributedLock --------------------------
(***************************************************************************)
(* DistributedLock.withLock (src/utils/distributedLock.ts) over one key:   *)
(* acquire, the protected function, release.                               *)
(*                                                                         *)
(* Each call draws a token of its own, here a number never drawn before.   *)
(* A Redis command may fail in two ways the catch blocks cannot tell       *)
(* apart: it never ran, or it ran and its reply was lost.                  *)
(***************************************************************************)
EXTENDS Integers

CONSTANTS
  Callers,       \* slots for calls in flight at the same time
  MaxRetries,    \* maxRetries
  MaxCalls       \* bound: calls ever made

ASSUME LockAssumption ==
  /\ MaxRetries \in Nat \ {0}
  /\ MaxCalls \in Nat

Free == 0        \* the key is absent; tokens start at 1

VARIABLES
  lock,          \* the Redis key: a token, or Free
  pc,            \* where each call is
  token,         \* its token
  attempt,       \* the loop counter of acquire
  begun,         \* calls made so far, the source of fresh tokens
  overrun        \* history: tokens whose lease ran out

callVars == <<pc, token, attempt>>
vars == <<lock, callVars, begun, overrun>>

Labels == {"idle", "set", "sleep", "fn", "release"}

Init ==
  /\ lock = Free
  /\ pc = [c \in Callers |-> "idle"]
  /\ token = [c \in Callers |-> Free]
  /\ attempt = [c \in Callers |-> 0]
  /\ begun = 0
  /\ overrun = {}

At(c, label) == pc[c] = label
Goto(c, label) == pc' = [pc EXCEPT ![c] = label]

\* The conditions of acquire and of release's script; before each, a form the
\* code could have had by mistake, for the runs to tell apart.
AnyToken(c) == lock # Free
OwnToken(c) == lock = token[c]
LastAttemptLate(c) == attempt[c] = MaxRetries
LastAttempt(c) == attempt[c] = MaxRetries - 1
SameAttempt(c) == UNCHANGED attempt
NextAttempt(c) == attempt' = [attempt EXCEPT ![c] = @ + 1]

-----------------------------------------------------------------------------
(* acquire                                                                 *)

Begin(c) ==
  /\ At(c, "idle") /\ begun < MaxCalls
  /\ begun' = begun + 1
  /\ token' = [token EXCEPT ![c] = begun']
  /\ attempt' = [attempt EXCEPT ![c] = 0]
  /\ Goto(c, "set")
  /\ UNCHANGED <<lock, overrun>>

\* SET NX PX answers OK.
Acquire(c) ==
  /\ At(c, "set") /\ lock = Free
  /\ lock' = token[c]
  /\ overrun' = overrun \ {token[c]}
  /\ Goto(c, "fn")
  /\ UNCHANGED <<token, attempt, begun>>

\* SET NX PX answers nil: sleep, or give up with a timeout.
Contend(c) ==
  /\ At(c, "set") /\ lock # Free
  /\ Goto(c, IF LastAttempt(c) THEN "idle" ELSE "sleep")
  /\ UNCHANGED <<lock, token, attempt, begun, overrun>>

Retry(c) ==
  /\ At(c, "sleep")
  /\ NextAttempt(c)
  /\ Goto(c, "set")
  /\ UNCHANGED <<lock, token, begun, overrun>>

\* An error is retried at once, without the sleep; the last one is returned.
SetFailed(c) ==
  /\ At(c, "set")
  /\ \/ LastAttempt(c) /\ Goto(c, "idle") /\ UNCHANGED attempt
     \/ ~LastAttempt(c) /\ NextAttempt(c) /\ UNCHANGED pc
  /\ UNCHANGED <<token, begun, overrun>>

SetNeverRan(c) ==
  /\ SetFailed(c)
  /\ UNCHANGED lock

\* The key now holds the call's own token, and the call does not know.
SetReplyLost(c) ==
  /\ SetFailed(c)
  /\ lock = Free
  /\ lock' = token[c]

-----------------------------------------------------------------------------
(* The protected function, and release in the finally block.               *)

\* fn resolved or rejected: the finally block runs either way.
FnEnds(c) ==
  /\ At(c, "fn")
  /\ Goto(c, "release")
  /\ UNCHANGED <<lock, token, attempt, begun, overrun>>

\* The Lua script compares and deletes in one step.
Release(c) ==
  /\ At(c, "release")
  /\ lock' = IF OwnToken(c) THEN Free ELSE lock
  /\ Goto(c, "idle")
  /\ UNCHANGED <<token, attempt, begun, overrun>>

\* A lost reply is a Release whose result nobody reads; this is the script
\* that never ran.
ReleaseNeverRan(c) ==
  /\ At(c, "release")
  /\ Goto(c, "idle")
  /\ UNCHANGED <<lock, token, attempt, begun, overrun>>

-----------------------------------------------------------------------------
(* The environment.                                                        *)

Expire ==
  /\ lock # Free
  /\ lock' = Free
  /\ overrun' = overrun \union {lock}
  /\ UNCHANGED <<callVars, begun>>

\* The process dies: no finally block, the key stays until it expires.
Crash(c) ==
  /\ ~At(c, "idle")
  /\ Goto(c, "idle")
  /\ UNCHANGED <<lock, token, attempt, begun, overrun>>

Step(c) ==
  \/ Acquire(c) \/ Contend(c) \/ Retry(c) \/ SetNeverRan(c) \/ SetReplyLost(c)
  \/ FnEnds(c) \/ Release(c) \/ ReleaseNeverRan(c)

Next ==
  \/ \E c \in Callers : Begin(c) \/ Step(c) \/ Crash(c)
  \/ Expire

Spec == Init /\ [][Next]_vars

\* A call that is not cut short is run by the event loop: its commands and its
\* timer are answered, and fn settles.
FairSpec == Spec /\ \A c \in Callers : WF_vars(Step(c))

-----------------------------------------------------------------------------
(* Properties.                                                             *)

\* Types, and the loop counter of acquire: never past the last attempt.
TypeOK ==
  /\ lock \in 0..begun
  /\ pc \in [Callers -> Labels]
  /\ token \in [Callers -> 0..begun]
  /\ attempt \in [Callers -> 0..MaxRetries - 1]
  /\ begun \in 0..MaxCalls
  /\ overrun \subseteq 1..begun

Inside(c) == pc[c] \in {"fn", "release"}

\* withLock: whoever is inside fn and whose lease has not run out still owns
\* the key: no release by a call that overran its own lease, no late or lost
\* command of another call has taken it away.
UnexpiredLeaseIsKept ==
  \A c \in Callers : Inside(c) /\ token[c] \notin overrun => lock = token[c]

\* acquire's retry loop: every withLock call comes to an end, however often
\* Redis fails, somebody else holds the key or the call's own unheard SET
\* stands in its way.
EveryCallEnds == \A c \in Callers : ~At(c, "idle") ~> At(c, "idle")

L == INSTANCE Lease WITH
       Tokens <- 1..MaxCalls,
       Nobody <- Free,
       holder <- lock,
       working <- {token[c] : c \in {d \in Callers : Inside(d)}}

\* withLock is a lease: it grants, lapses and gives up as Lease does.
IsALease == L!Spec
=============================================================================
