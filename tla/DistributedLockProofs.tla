----------------------- MODULE DistributedLockProofs -----------------------
(***************************************************************************)
(* Proofs about what keeps one thing from being done twice at a time.      *)
(* DistributedLock: its types, the lease kept until it runs out, and the   *)
(* refinement of Lease, for any number of callers, retries and calls.      *)
(* The idempotency middleware and the idempotency keys, for any number of  *)
(* requests, calls, bodies and scopes.                                     *)
(***************************************************************************)
EXTENDS DistributedLock, IdempotencyMiddleware, IdempotencyKeys, TLAPS

USE LockAssumption

\* A call that left "idle" has drawn its token, and no two calls drew the same.
TokensAreFresh ==
  /\ \A c \in Callers : ~At(c, "idle") => token[c] # Free
  /\ \A c, d \in Callers : token[c] = token[d] /\ token[c] # Free => c = d

\* Only a call with an attempt left goes to sleep.
SleepersHaveAttemptsLeft ==
  \A c \in Callers : At(c, "sleep") => attempt[c] # MaxRetries - 1

LockInv ==
  /\ TypeOK
  /\ SleepersHaveAttemptsLeft
  /\ TokensAreFresh
  /\ UnexpiredLeaseIsKept

\* Before any call of withLock the key is free and the invariant holds.
LEMMA LockInitially == Init => LockInv
  BY DEF Init, LockInv, TypeOK, SleepersHaveAttemptsLeft, TokensAreFresh,
         UnexpiredLeaseIsKept, Inside, At, Labels, Free

\* Every Redis command, timer, expiry and crash keeps the invariant.
LEMMA LockStep == LockInv /\ [Next]_vars => LockInv'
<1> SUFFICES ASSUME LockInv, [Next]_vars PROVE LockInv'
  OBVIOUS
<1> USE DEF LockInv, TypeOK, SleepersHaveAttemptsLeft, TokensAreFresh,
            UnexpiredLeaseIsKept, Inside, At, Goto, Labels, Free
<1>1. ASSUME NEW c \in Callers, Begin(c) PROVE LockInv'
  BY <1>1 DEF Begin
<1>2. ASSUME NEW c \in Callers, Acquire(c) PROVE LockInv'
  BY <1>2 DEF Acquire
<1>3. ASSUME NEW c \in Callers, Contend(c) PROVE LockInv'
  BY <1>3 DEF Contend, LastAttempt
<1>4. ASSUME NEW c \in Callers, Retry(c) PROVE LockInv'
  BY <1>4 DEF Retry, NextAttempt
<1>5. ASSUME NEW c \in Callers, SetNeverRan(c) PROVE LockInv'
  BY <1>5 DEF SetNeverRan, SetFailed, LastAttempt, NextAttempt
<1>6. ASSUME NEW c \in Callers, SetReplyLost(c) PROVE LockInv'
  BY <1>6 DEF SetReplyLost, SetFailed, LastAttempt, NextAttempt
<1>7. ASSUME NEW c \in Callers, FnEnds(c) PROVE LockInv'
  BY <1>7 DEF FnEnds
<1>8. ASSUME NEW c \in Callers, Release(c) PROVE LockInv'
  BY <1>8 DEF Release, OwnToken
<1>9. ASSUME NEW c \in Callers, ReleaseNeverRan(c) PROVE LockInv'
  BY <1>9 DEF ReleaseNeverRan
<1>10. ASSUME NEW c \in Callers, Crash(c) PROVE LockInv'
  BY <1>10 DEF Crash
<1>11. CASE Expire
  BY <1>11 DEF Expire, callVars
<1>12. CASE UNCHANGED vars
  BY <1>12 DEF vars, callVars
<1> QED
  BY <1>1, <1>2, <1>3, <1>4, <1>5, <1>6, <1>7, <1>8, <1>9, <1>10, <1>11, <1>12
  DEF Next, Step

\* The inductive invariant holds throughout every behaviour.
LEMMA LockInvHolds == Spec => []LockInv
  BY LockInitially, LockStep, PTL DEF Spec

\* The lock's state is always well formed, and acquire's loop counter never
\* passes its last attempt.
THEOREM TypeCorrect == Spec => []TypeOK
<1>1. LockInv => TypeOK
  BY DEF LockInv
<1> QED
  BY LockInvHolds, <1>1, PTL

\* A call inside its protected function owns the key for as long as its lease
\* has not run out: nobody else's release, retry, lost reply or crash takes it.
THEOREM LeaseIsKept == Spec => []UnexpiredLeaseIsKept
<1>1. LockInv => UnexpiredLeaseIsKept
  BY DEF LockInv
<1> QED
  BY LockInvHolds, <1>1, PTL

-----------------------------------------------------------------------------
(* The refinement: each step of a call is a step of Lease or leaves the    *)
(* key, the set of workers and the set of overrunners alone.               *)

Working == {token[c] : c \in {d \in Callers : Inside(d)}}

\* Where a call enters or leaves its protected function, its token enters or
\* leaves the set of workers, and no other token does.
LEMMA WorkersEnter ==
  ASSUME LockInv, NEW c \in Callers, UNCHANGED token,
         ~Inside(c), Inside(c)',
         \A d \in Callers : d # c => (Inside(d)' <=> Inside(d))
  PROVE  Working' = Working \union {token[c]}
  BY DEF Working

\* A caller that leaves the protected function leaves the set of workers.
LEMMA WorkersLeave ==
  ASSUME LockInv, NEW c \in Callers, UNCHANGED token,
         Inside(c), ~Inside(c)',
         \A d \in Callers : d # c => (Inside(d)' <=> Inside(d))
  PROVE  Working' = Working \ {token[c]} /\ token[c] \in Working
<1>1. \A d \in Callers : Inside(d) => token[d] # Free
  BY DEF LockInv, TokensAreFresh, Inside, At
<1>2. \A d \in Callers : Inside(d) /\ token[d] = token[c] => d = c
  BY <1>1 DEF LockInv, TokensAreFresh
<1> QED
  BY <1>2 DEF Working

\* A caller that moves between two other steps does not change the workers.
LEMMA WorkersStay ==
  ASSUME UNCHANGED token,
         \A d \in Callers : Inside(d)' <=> Inside(d)
  PROVE  Working' = Working
  BY DEF Working

\* The lock starts as a free lease.
LEMMA LeaseInitially == Init => L!Init
  BY DEF Init, L!Init, Inside

\* Every step of withLock is a step of the lease or changes nothing it sees.
LEMMA LeaseStep == LockInv /\ [Next]_vars => [L!Next]_L!vars
<1> SUFFICES ASSUME LockInv, [Next]_vars PROVE [L!Next]_L!vars
  OBVIOUS
<1> USE DEF At, Goto, Labels, Free
<1>0. \A c \in Callers : ~At(c, "idle") => token[c] \in 1..MaxCalls
  BY DEF LockInv, TypeOK, TokensAreFresh
<1>1. ASSUME NEW c \in Callers, Begin(c) PROVE [L!Next]_L!vars
  <2>1. \A d \in Callers : (Inside(d)' <=> Inside(d))
                           /\ (Inside(d) => token'[d] = token[d])
    BY <1>1 DEF Begin, Inside, LockInv, TypeOK
  <2>2. Working' = Working
    BY <2>1 DEF Working
  <2> QED
    BY <1>1, <2>2 DEF Begin, L!vars, Working
<1>2. ASSUME NEW c \in Callers, Acquire(c) PROVE [L!Next]_L!vars
  <2>1. UNCHANGED token /\ ~Inside(c) /\ Inside(c)'
        /\ \A d \in Callers : d # c => (Inside(d)' <=> Inside(d))
    BY <1>2 DEF Acquire, Inside, LockInv, TypeOK
  <2>2. Working' = Working \union {token[c]}
    BY <2>1, WorkersEnter
  <2>3. PICK t \in 1..MaxCalls : t = token[c]
    BY <1>0, <1>2 DEF Acquire
  <2>4. L!Grant(t)
    BY <1>2, <2>2, <2>3 DEF Acquire, L!Grant, Working
  <2> QED
    BY <2>4 DEF L!Next
<1>3. ASSUME NEW c \in Callers, SetReplyLost(c) PROVE [L!Next]_L!vars
  <2>1. UNCHANGED token /\ \A d \in Callers : Inside(d)' <=> Inside(d)
    BY <1>3 DEF SetReplyLost, SetFailed, Inside, LockInv, TypeOK
  <2>2. Working' = Working
    BY <2>1, WorkersStay
  <2>3. PICK t \in 1..MaxCalls : t = token[c]
    BY <1>0, <1>3 DEF SetReplyLost, SetFailed
  <2>4. L!GrantUnheard(t)
    BY <1>3, <2>2, <2>3 DEF SetReplyLost, SetFailed, L!GrantUnheard, Working
  <2> QED
    BY <2>4 DEF L!Next
<1>4. ASSUME NEW c \in Callers,
             Contend(c) \/ Retry(c) \/ SetNeverRan(c) \/ FnEnds(c)
      PROVE [L!Next]_L!vars
  <2>1. UNCHANGED <<lock, token, overrun>>
    BY <1>4 DEF Contend, Retry, SetNeverRan, SetFailed, FnEnds
  <2>2. \A d \in Callers : Inside(d)' <=> Inside(d)
    <3>1. CASE Contend(c)
      BY <3>1 DEF Contend, Inside, LockInv, TypeOK
    <3>2. CASE Retry(c)
      BY <3>2 DEF Retry, Inside, LockInv, TypeOK
    <3>3. CASE SetNeverRan(c)
      BY <3>3 DEF SetNeverRan, SetFailed, Inside, LockInv, TypeOK
    <3>4. CASE FnEnds(c)
      BY <3>4 DEF FnEnds, Inside, LockInv, TypeOK
    <3> QED
      BY <1>4, <3>1, <3>2, <3>3, <3>4
  <2>3. Working' = Working
    BY <2>1, <2>2, WorkersStay
  <2> QED
    BY <2>1, <2>3 DEF L!vars, Working
<1>5. ASSUME NEW c \in Callers, Release(c) \/ ReleaseNeverRan(c)
      PROVE [L!Next]_L!vars
  <2>1. UNCHANGED <<token, overrun>> /\ Inside(c) /\ ~Inside(c)'
        /\ \A d \in Callers : d # c => (Inside(d)' <=> Inside(d))
    BY <1>5 DEF Release, ReleaseNeverRan, Inside, LockInv, TypeOK
  <2>2. Working' = Working \ {token[c]} /\ token[c] \in Working
    BY <2>1, WorkersLeave
  <2>3. lock' \in IF lock = token[c] THEN {token[c], Free} ELSE {lock}
    BY <1>5 DEF Release, ReleaseNeverRan, OwnToken
  <2>4. PICK t \in 1..MaxCalls : t = token[c]
    BY <1>0, <1>5 DEF Release, ReleaseNeverRan
  <2>5. L!Finish(t)
    BY <2>1, <2>2, <2>3, <2>4 DEF L!Finish, Working
  <2> QED
    BY <2>5 DEF L!Next
<1>6. ASSUME NEW c \in Callers, Crash(c) PROVE [L!Next]_L!vars
  <2>1. UNCHANGED <<lock, token, overrun>> /\ ~Inside(c)'
        /\ \A d \in Callers : d # c => (Inside(d)' <=> Inside(d))
    BY <1>6 DEF Crash, Inside, LockInv, TypeOK
  <2>2. CASE Inside(c)
    <3>1. Working' = Working \ {token[c]} /\ token[c] \in Working
      BY <2>1, <2>2, WorkersLeave
    <3>2. PICK t \in 1..MaxCalls : t = token[c]
      BY <1>0, <1>6 DEF Crash
    <3>3. L!Finish(t)
      BY <2>1, <3>1, <3>2 DEF L!Finish, Working
    <3> QED
      BY <3>3 DEF L!Next
  <2>3. CASE ~Inside(c)
    <3>1. Working' = Working
      BY <2>1, <2>3, WorkersStay
    <3> QED
      BY <2>1, <3>1 DEF L!vars, Working
  <2> QED
    BY <2>2, <2>3
<1>7. CASE Expire
  <2>1. UNCHANGED token /\ \A d \in Callers : Inside(d)' <=> Inside(d)
    BY <1>7 DEF Expire, callVars, Inside
  <2>2. Working' = Working
    BY <2>1, WorkersStay
  <2> QED
    BY <1>7, <2>2 DEF Expire, L!Next, L!Lapse, Working
<1>8. CASE UNCHANGED vars
  <2>1. UNCHANGED token /\ \A d \in Callers : Inside(d)' <=> Inside(d)
    BY <1>8 DEF vars, callVars, Inside
  <2>2. Working' = Working
    BY <2>1, WorkersStay
  <2> QED
    BY <1>8, <2>2 DEF vars, callVars, L!vars, Working
<1> QED
  BY <1>1, <1>2, <1>3, <1>4, <1>5, <1>6, <1>7, <1>8 DEF Next, Step

\* withLock implements a lease with a time to live.
THEOREM LockImplementsLease == Spec => IsALease
<1>1. Init => L!Init
  BY LeaseInitially
<1>2. LockInv /\ [Next]_vars => [L!Next]_L!vars
  BY LeaseStep
<1> QED
  BY <1>1, <1>2, LockInvHolds, PTL DEF Spec, IsALease, L!Spec

-----------------------------------------------------------------------------
(* The idempotency middleware.                                             *)

Stages == {"idle", "get", "mark", "guarded", "handler", "bare"}
Answers == {"completed", "failed"}

MiddlewareType ==
  /\ stage \in [Slots -> Stages]
  /\ runs \in Nat
  /\ \A r \in saves : r.status \in Answers

\* Requests that follow each other: one is under way; no record, no run; a
\* request that found no record has not seen a run since, and marks one before
\* its handler runs.
InTurn ==
  /\ \A s, t \in Slots : stage[s] # "idle" /\ stage[t] # "idle" => s = t
  /\ status = "absent" => runs = 0
  /\ \A s \in Slots : stage[s] \in {"mark", "guarded"} => runs = 0
  /\ \A s \in Slots : stage[s] = "guarded" => status # "absent"
  /\ \A s \in Slots : stage[s] # "bare"
  /\ runs <= 1

MiddlewareInv == MiddlewareType /\ (disturbances = {} => InTurn)

LEMMA MiddlewareInitially == MiddlewareInit => MiddlewareInv
BY DEF MiddlewareInit, MiddlewareInv, MiddlewareType, InTurn, Stages

\* A request goes to another stage.
LEMMA StageMoves ==
  ASSUME MiddlewareType, NEW s \in Slots, NEW label \in Stages, ToStage(s, label)
  PROVE  /\ stage' \in [Slots -> Stages] /\ stage'[s] = label
         /\ \A t \in Slots : t # s => stage'[t] = stage[t]
BY DEF MiddlewareType, ToStage

LEMMA MiddlewareStep ==
  MiddlewareInv /\ [MiddlewareNext]_middlewareVars => MiddlewareInv'
<1> SUFFICES ASSUME MiddlewareInv, [MiddlewareNext]_middlewareVars PROVE MiddlewareInv'
  OBVIOUS
<1> USE DEF MiddlewareInv, MiddlewareType, InTurn, AtStage,
            Absent, NoAnswer, redisVars
<1>1. ASSUME NEW s \in Slots, NEW b, Request(s, b) PROVE MiddlewareInv'
  BY <1>1, StageMoves DEF Request, Stages
<1>2. ASSUME NEW s \in Slots, Refuse(s) PROVE MiddlewareInv'
  BY <1>2, StageMoves DEF Refuse, Stages
<1>3. ASSUME NEW s \in Slots, Proceed(s) PROVE MiddlewareInv'
  BY <1>3, StageMoves DEF Proceed, TurnedAway, Stages
<1>4. ASSUME NEW s \in Slots, Mark(s) PROVE MiddlewareInv'
  BY <1>4, StageMoves DEF Mark, Stages
<1>5. ASSUME NEW s \in Slots, Unprotected(s) PROVE MiddlewareInv'
  BY <1>5, StageMoves DEF Unprotected, Stages
<1>6. ASSUME NEW s \in Slots, Handle(s) PROVE MiddlewareInv'
  BY <1>6, StageMoves DEF Handle, Stages
<1>7. ASSUME NEW s \in Slots, HandleUnprotected(s) PROVE MiddlewareInv'
  BY <1>7, StageMoves DEF HandleUnprotected, Stages
<1>8. ASSUME NEW s \in Slots, NEW outcome \in Answers, Answer(s, outcome)
      PROVE  MiddlewareInv'
  BY <1>8, StageMoves DEF Answer, Stages
<1>9. ASSUME NEW s \in Slots, AnswerUnsaved(s) PROVE MiddlewareInv'
  BY <1>9, StageMoves DEF AnswerUnsaved, Stages
<1>10. ASSUME NEW s \in Slots, StreamError(s) PROVE MiddlewareInv'
  BY <1>10, StageMoves DEF StreamError, Stages
<1>11. ASSUME NEW r \in saves, Save(r) PROVE MiddlewareInv'
  BY <1>11 DEF Save, Answers
<1>12. ASSUME NEW r \in saves, SaveFails(r) PROVE MiddlewareInv'
  BY <1>12 DEF SaveFails
<1>13. CASE RecordExpires
  BY <1>13 DEF RecordExpires
<1>14. CASE UNCHANGED middlewareVars
  BY <1>14 DEF middlewareVars
<1> QED
  BY <1>1, <1>2, <1>3, <1>4, <1>5, <1>6, <1>7, <1>8, <1>9, <1>10, <1>11, <1>12, <1>13, <1>14
     DEF MiddlewareNext, Answers

\* However many requests come one after the other, and however late their
\* records reach Redis, a handler runs once while a record stands
\* (idempotency.middleware.ts).
THEOREM RunsOnceInTurnHolds == MiddlewareSpec => []RunsOnceInTurn
<1>1. MiddlewareInv => RunsOnceInTurn
  BY DEF MiddlewareInv, InTurn, RunsOnceInTurn
<1> QED
  BY <1>1, MiddlewareInitially, MiddlewareStep, PTL DEF MiddlewareSpec

-----------------------------------------------------------------------------
(* The idempotency keys.                                                   *)

KeyLabels == {"insert", "select", "delete", "reinsert", "refused", "work", "completed", "crashed"}

OneScope == \A c, d \in Acquirers : scope[c] = scope[d]
Quiet == lapsed = {} \/ entangled = {}

KeyType ==
  /\ where \in [Acquirers -> KeyLabels]
  /\ scope \in [Acquirers -> Scopes]
  /\ table \subseteq Rows

\* The primary key, and the history of the rows' owners.
OneRow ==
  /\ \A r, q \in table : r = q
  /\ \A r \in table : r.expired = TRUE => r.owner \in lapsed
  /\ \A r \in table : r.scope = scope[r.owner]

\* Whoever was told "acquired" and has not run out has a row to show for it; a
\* call that is about to look finds a row, and one that is about to delete finds
\* the row it saw, which had expired.
HoldersHaveRows ==
  /\ \A c \in Acquirers : Holds(c) => \E r \in table : r.owner = c
  /\ \A c \in Acquirers : where[c] = "select" => table # {}
  /\ \A c \in Acquirers : where[c] = "delete" => \A r \in table : r.expired = TRUE

\* Nothing is deleted before a row has run out, and calls that are not entangled
\* look into the table one at a time.
LookersInTurn ==
  /\ \A c \in Acquirers : where[c] \in {"delete", "reinsert"} => lapsed # {}
  /\ entangled = {} => \A c, d \in Inquirers : c = d

KeyInv ==
  /\ KeyType /\ OneRow /\ LookersInTurn
  /\ OneScope /\ Quiet => HoldersHaveRows

\* Used in one scope, every row there is matches.
LEMMA EveryRowMatches ==
  ASSUME KeyInv, OneScope, NEW c \in Acquirers
  PROVE  Matching(c) = table
BY DEF KeyInv, KeyType, OneScope, OneRow, Matching, Rows

LEMMA KeysInitially == KeysInit => KeyInv
<1> SUFFICES ASSUME KeysInit PROVE KeyInv
  OBVIOUS
<1> USE DEF KeysInit
<1>1. KeyType
  BY DEF KeyType, KeyLabels
<1>2. LookersInTurn /\ OneRow /\ HoldersHaveRows
  BY DEF LookersInTurn, OneRow, HoldersHaveRows, Holds, Acquired,
         Inquirers, Inquiring
<1> QED
  BY <1>1, <1>2 DEF KeyInv

\* A call goes to another statement.
LEMMA CallMoves ==
  ASSUME KeyType, NEW c \in Acquirers, NEW label \in KeyLabels, ToStatement(c, label)
  PROVE  /\ where' \in [Acquirers -> KeyLabels] /\ where'[c] = label
         /\ \A d \in Acquirers : d # c => where'[d] = where[d]
BY DEF KeyType, ToStatement

\* A row is inserted where there was none.
LEMMA RowInserted ==
  ASSUME KeyInv, NEW c \in Acquirers, InsertRow(c), UNCHANGED <<scope, lapsed>>,
         entangled \subseteq entangled',
         entangled' = {} => \A d \in Inquirers : d = c
  PROVE  KeyInv'
<1> DEFINE new == [scope |-> scope[c], filled |-> FALSE, expired |-> FALSE, owner |-> c]
<1>1. table = {} /\ table' = {new} /\ ToStatement(c, "work")
  BY DEF InsertRow, InsertAnyway
<1>2. new \in Rows /\ new.scope = scope[c] /\ new.expired = FALSE /\ new.owner = c
  BY DEF KeyInv, KeyType, Rows
<1> HIDE DEF new
<1>3. /\ where' \in [Acquirers -> KeyLabels] /\ where'[c] = "work"
      /\ \A d \in Acquirers : d # c => where'[d] = where[d]
  BY <1>1, CallMoves DEF KeyInv, KeyLabels
<1>4. KeyType'
  BY <1>1, <1>2, <1>3 DEF KeyInv, KeyType
<1>5. LookersInTurn'
  BY <1>3 DEF KeyInv, LookersInTurn, Inquirers, Inquiring
<1>6. OneRow'
  BY <1>1, <1>2 DEF OneRow
<1>7. ASSUME OneScope', Quiet' PROVE HoldersHaveRows'
  <2>1. HoldersHaveRows
    BY <1>7 DEF KeyInv, OneScope, Quiet
  <2>2. \A d \in Acquirers : d # c => where'[d] # "delete"
    BY <1>3, <1>7 DEF KeyInv, LookersInTurn, Quiet, Inquirers, Inquiring
  <2>3. \A d \in Acquirers : d # c => ~Holds(d)'
    BY <1>1, <1>3, <2>1 DEF HoldersHaveRows, Holds, Acquired
  <2> QED
    BY <1>1, <1>2, <1>3, <2>2, <2>3 DEF HoldersHaveRows
<1> QED
  BY <1>4, <1>5, <1>6, <1>7 DEF KeyInv

LEMMA InsertKeeps ==
  ASSUME KeyInv, NEW c \in Acquirers, Insert(c) PROVE KeyInv'
<1>1. /\ where[c] = "insert" /\ UNCHANGED <<scope, lapsed>>
      /\ entangled' = entangled \union (IF Inquirers = {} THEN {} ELSE {c})
  BY DEF Insert, AtStatement
<1>2. CASE InsertRow(c)
  BY <1>1, <1>2, RowInserted
<1>3. CASE table # {} /\ ToStatement(c, "select") /\ table' = table
  <2>1. /\ where' \in [Acquirers -> KeyLabels] /\ where'[c] = "select"
        /\ \A d \in Acquirers : d # c => where'[d] = where[d]
    BY <1>3, CallMoves DEF KeyInv, KeyLabels
  <2>2. KeyType'
    BY <1>1, <1>3, <2>1 DEF KeyInv, KeyType
  <2>3. LookersInTurn'
    <3>1. Inquirers' \subseteq Inquirers \union {c}
      BY <2>1 DEF Inquirers, Inquiring
    <3>2. entangled' = {} => Inquirers = {}
      BY <1>1
    <3> QED
      BY <1>1, <2>1, <3>1, <3>2 DEF KeyInv, LookersInTurn
  <2>4. OneRow'
    BY <1>1, <1>3 DEF KeyInv, OneRow
  <2>5. OneScope' /\ Quiet' => HoldersHaveRows'
    BY <1>1, <1>3, <2>1 DEF KeyInv, OneScope, Quiet, HoldersHaveRows, Holds, Acquired
  <2> QED
    BY <2>2, <2>3, <2>4, <2>5 DEF KeyInv
<1> QED
  BY <1>2, <1>3 DEF Insert, InsertConflicts

LEMMA SelectKeeps ==
  ASSUME KeyInv, NEW c \in Acquirers, Select(c) PROVE KeyInv'
<1>1. where[c] = "select" /\ UNCHANGED <<table, scope, lapsed, entangled>>
  BY DEF Select, AtStatement
<1>2. PICK label \in {"work", "delete", "refused"} :
        /\ ToStatement(c, label)
        /\ label = "work" => Matching(c) = {}
        /\ label = "delete" => \E r \in Matching(c) : r.expired
  BY DEF Select
<1>3. /\ where' \in [Acquirers -> KeyLabels] /\ where'[c] = label
      /\ \A d \in Acquirers : d # c => where'[d] = where[d]
  BY <1>2, CallMoves DEF KeyInv, KeyLabels
<1>4. KeyType'
  BY <1>1, <1>3 DEF KeyInv, KeyType
<1>5. label = "delete" => \E r \in table : r.expired = TRUE
  <2>1. \A r \in table : r.expired \in BOOLEAN
    BY DEF KeyInv, KeyType, Rows
  <2> QED
    BY <1>2, <2>1 DEF Matching
<1>6. LookersInTurn'
  <2>1. label = "delete" => lapsed # {}
    BY <1>5 DEF KeyInv, OneRow
  <2>2. Inquirers' \subseteq Inquirers
    BY <1>1, <1>3 DEF Inquirers, Inquiring
  <2>3. where'[c] # "reinsert"
    BY <1>2, <1>3
  <2> QED
    BY <1>1, <1>3, <2>1, <2>2, <2>3 DEF KeyInv, LookersInTurn
<1>7. OneRow'
  BY <1>1 DEF KeyInv, OneRow
<1>8. ASSUME OneScope', Quiet' PROVE HoldersHaveRows'
  <2>1. OneScope /\ OneRow /\ HoldersHaveRows
    BY <1>1, <1>8 DEF KeyInv, OneScope, Quiet
  <2>2. label # "work"
    BY <1>1, <1>2, <2>1, EveryRowMatches DEF HoldersHaveRows
  <2>3. label = "delete" => \A r \in table : r.expired = TRUE
    BY <1>5, <2>1 DEF OneRow
  <2> QED
    BY <1>1, <1>2, <1>3, <2>1, <2>2, <2>3 DEF HoldersHaveRows, Holds, Acquired
<1> QED
  BY <1>4, <1>6, <1>7, <1>8 DEF KeyInv

LEMMA DeleteKeeps ==
  ASSUME KeyInv, NEW c \in Acquirers, Delete(c) PROVE KeyInv'
<1>1. /\ where[c] = "delete" /\ ToStatement(c, "reinsert")
      /\ table' = table \ Matching(c) /\ UNCHANGED <<scope, lapsed, entangled>>
  BY DEF Delete, AtStatement
<1>2. /\ where' \in [Acquirers -> KeyLabels] /\ where'[c] = "reinsert"
      /\ \A d \in Acquirers : d # c => where'[d] = where[d]
  BY <1>1, CallMoves DEF KeyInv, KeyLabels
<1>3. KeyType'
  BY <1>1, <1>2 DEF KeyInv, KeyType
<1>4. OneRow'
  BY <1>1 DEF KeyInv, OneRow
<1>5. LookersInTurn'
  <2>1. Inquirers' \subseteq Inquirers
    BY <1>1, <1>2 DEF Inquirers, Inquiring
  <2>2. lapsed # {}
    BY <1>1 DEF KeyInv, LookersInTurn
  <2> QED
    BY <1>1, <1>2, <2>1, <2>2 DEF KeyInv, LookersInTurn
<1>6. ASSUME OneScope', Quiet' PROVE HoldersHaveRows'
  <2>1. OneScope /\ OneRow /\ HoldersHaveRows
    BY <1>1, <1>6 DEF KeyInv, OneScope, Quiet
  <2>2. \A d \in Acquirers : ~Holds(d)
    BY <1>1, <2>1 DEF HoldersHaveRows, OneRow, Holds
  <2>3. entangled = {}
    BY <1>1, <1>6 DEF KeyInv, LookersInTurn, Quiet
  <2>4. \A d \in Acquirers : d # c => where[d] \notin {"select", "delete"}
    BY <1>1, <2>3 DEF KeyInv, LookersInTurn, Inquirers, Inquiring
  <2> QED
    BY <1>1, <1>2, <2>2, <2>4 DEF HoldersHaveRows, Holds, Acquired
<1> QED
  BY <1>3, <1>4, <1>5, <1>6 DEF KeyInv

LEMMA ReinsertKeeps ==
  ASSUME KeyInv, NEW c \in Acquirers, Reinsert(c) PROVE KeyInv'
<1>1. where[c] = "reinsert" /\ UNCHANGED <<scope, lapsed, entangled>>
  BY DEF Reinsert, AtStatement
<1>2. CASE InsertRow(c)
  <2>1. entangled' = {} => \A d \in Inquirers : d = c
    BY <1>1 DEF KeyInv, LookersInTurn, Inquirers, Inquiring
  <2> QED
    BY <1>1, <1>2, <2>1, RowInserted
<1>3. CASE ToStatement(c, "refused") /\ table' = table
  <2>1. /\ where' \in [Acquirers -> KeyLabels] /\ where'[c] = "refused"
        /\ \A d \in Acquirers : d # c => where'[d] = where[d]
    BY <1>3, CallMoves DEF KeyInv, KeyLabels
  <2>2. KeyType' /\ OneRow'
    BY <1>1, <1>3, <2>1 DEF KeyInv, KeyType, OneRow
  <2>3. LookersInTurn'
    BY <1>1, <2>1 DEF KeyInv, LookersInTurn, Inquirers, Inquiring
  <2>4. OneScope' /\ Quiet' => HoldersHaveRows'
    BY <1>1, <1>3, <2>1 DEF KeyInv, OneScope, Quiet, HoldersHaveRows, Holds, Acquired
  <2> QED
    BY <2>2, <2>3, <2>4 DEF KeyInv
<1> QED
  BY <1>2, <1>3 DEF Reinsert

\* A call that works ends and the row becomes another of the same owner and
\* scope, which has expired only if its owner has lapsed.
LEMMA RowChanges ==
  ASSUME KeyInv, table' \subseteq Rows, where' \in [Acquirers -> KeyLabels],
         \A c \in Acquirers :
           \/ where'[c] = where[c]
           \/ where[c] = "work" /\ where'[c] \in {"completed", "crashed"},
         scope' = scope, lapsed \subseteq lapsed', entangled' = entangled,
         \A q, r \in table' : q = r,
         \A r \in table : \E q \in table' : q.owner = r.owner,
         \A q \in table' : \E r \in table :
           /\ q.owner = r.owner /\ q.scope = r.scope
           /\ r.expired = TRUE => q.expired = TRUE
           /\ q.expired = TRUE => r.expired = TRUE \/ q.owner \in lapsed'
  PROVE  KeyInv'
<1>1. KeyType'
  BY DEF KeyInv, KeyType
<1>2. OneRow'
  BY DEF KeyInv, OneRow
<1>3. LookersInTurn'
  <2>1. Inquirers' \subseteq Inquirers
    BY DEF Inquirers, Inquiring
  <2> QED
    BY <2>1 DEF KeyInv, LookersInTurn
<1>4. ASSUME OneScope', Quiet' PROVE HoldersHaveRows'
  <2>1. HoldersHaveRows
    BY <1>4 DEF KeyInv, OneScope, Quiet
  <2>2. \A c \in Acquirers : Holds(c)' => Holds(c)
    BY DEF Holds, Acquired
  <2>3. \A c \in Acquirers : Holds(c)' => \E q \in table' : q.owner = c
    BY <2>1, <2>2 DEF HoldersHaveRows
  <2>4. \A c \in Acquirers : where'[c] = "select" => table' # {}
    BY <2>1 DEF HoldersHaveRows
  <2>5. \A c \in Acquirers : where'[c] = "delete" => \A q \in table' : q.expired = TRUE
    BY <2>1 DEF HoldersHaveRows
  <2> QED
    BY <2>3, <2>4, <2>5 DEF HoldersHaveRows
<1> QED
  BY <1>1, <1>2, <1>3, <1>4 DEF KeyInv

LEMMA completeKeeps ==
  ASSUME KeyInv, NEW c \in Acquirers, complete(c) PROVE KeyInv'
<1> DEFINE filled(r) == [r EXCEPT !.filled = TRUE]
           left == table \ Matching(c)
<1>1. /\ where[c] = "work" /\ ToStatement(c, "completed")
      /\ table' = left \union {filled(r) : r \in Matching(c)}
      /\ UNCHANGED <<scope, lapsed, entangled>>
  BY DEF complete, AtStatement
<1>2. /\ where' \in [Acquirers -> KeyLabels] /\ where'[c] = "completed"
      /\ \A d \in Acquirers : d # c => where'[d] = where[d]
  BY <1>1, CallMoves DEF KeyInv, KeyLabels
<1>3. \A r \in Rows : /\ filled(r) \in Rows /\ filled(r).owner = r.owner
                           /\ filled(r).scope = r.scope /\ filled(r).expired = r.expired
  BY DEF Rows
<1>4. table \subseteq Rows /\ Matching(c) \subseteq table
  BY DEF KeyInv, KeyType, Matching
<1> HIDE DEF filled
<1>5. /\ table' \subseteq Rows
      /\ \A q \in table' : \E r \in table : q = r \/ q = filled(r)
      /\ \A r \in table : r \in table' \/ filled(r) \in table'
  BY <1>1, <1>3, <1>4
<1>6. \A q, r \in table' : q = r
  <2>1. \A q, r \in table : q = r
    BY DEF KeyInv, OneRow
  <2>2. Matching(c) = {} \/ Matching(c) = table
    BY <1>4, <2>1
  <2>3. left = {} \/ Matching(c) = {}
    BY <2>2
  <2> QED
    BY <1>1, <1>4, <2>1, <2>3
<1>7. \A r \in table : \E q \in table' : q.owner = r.owner
  BY <1>3, <1>4, <1>5
<1>8. \A q \in table' : \E r \in table :
        q.owner = r.owner /\ q.scope = r.scope /\ q.expired = r.expired
  BY <1>3, <1>4, <1>5
<1>9. scope' = scope /\ lapsed \subseteq lapsed' /\ entangled' = entangled
  BY <1>1
<1>10. \A d \in Acquirers :
         where'[d] = where[d] \/ (where[d] = "work" /\ where'[d] \in {"completed", "crashed"})
  BY <1>1, <1>2
<1>11. table' \subseteq Rows /\ where' \in [Acquirers -> KeyLabels]
  BY <1>2, <1>5
<1>12. \A q \in table' : \E r \in table :
         /\ q.owner = r.owner /\ q.scope = r.scope
         /\ r.expired = TRUE => q.expired = TRUE
         /\ q.expired = TRUE => r.expired = TRUE \/ q.owner \in lapsed'
  BY <1>8
<1> QED
  BY <1>6, <1>7, <1>9, <1>10, <1>11, <1>12, RowChanges

LEMMA CrashKeeps ==
  ASSUME KeyInv, NEW c \in Acquirers, CallerCrashes(c) PROVE KeyInv'
<1>1. /\ where[c] = "work" /\ ToStatement(c, "crashed")
      /\ UNCHANGED <<table, scope, lapsed, entangled>>
  BY DEF CallerCrashes, AtStatement
<1>2. /\ where' \in [Acquirers -> KeyLabels] /\ where'[c] = "crashed"
      /\ \A d \in Acquirers : d # c => where'[d] = where[d]
  BY <1>1, CallMoves DEF KeyInv, KeyLabels
<1>3. table' \subseteq Rows /\ \A q, r \in table' : q = r
  BY <1>1 DEF KeyInv, KeyType, OneRow
<1> QED
  BY <1>1, <1>2, <1>3, RowChanges

LEMMA ExpireKeeps == ASSUME KeyInv, RowExpires PROVE KeyInv'
<1>1. PICK r \in table :
        /\ table' = (table \ {r}) \union {[r EXCEPT !.expired = TRUE]}
        /\ lapsed' = lapsed \union {r.owner}
  BY DEF RowExpires
<1>2. UNCHANGED <<where, scope, entangled>>
  BY DEF RowExpires
<1> DEFINE new == [r EXCEPT !.expired = TRUE]
<1>3. new \in Rows /\ new.owner = r.owner /\ new.scope = r.scope /\ new.expired = TRUE
  BY DEF KeyInv, KeyType, Rows
<1> HIDE DEF new
<1>4. table = {r}
  BY DEF KeyInv, OneRow
<1>5. table' = {new}
  BY <1>1, <1>4 DEF new
<1>6. where' \in [Acquirers -> KeyLabels]
  BY <1>2 DEF KeyInv, KeyType
<1> QED
  BY <1>1, <1>2, <1>3, <1>4, <1>5, <1>6, RowChanges

\* The cleanup job takes expired rows only, and entangles the calls that look.
LEMMA CleanupKeeps == ASSUME KeyInv, deleteExpiredKeys PROVE KeyInv'
<1>1. /\ \E r \in table : r.expired
      /\ table' = {r \in table : ~r.expired}
      /\ entangled' = entangled \union Inquirers
      /\ UNCHANGED <<where, scope, lapsed>>
  BY DEF deleteExpiredKeys
<1>2. \A r \in table : r.expired \in BOOLEAN
  BY DEF KeyInv, KeyType, Rows
<1>3. \A r \in table : r \in table' \/ r.expired = TRUE
  BY <1>1, <1>2
<1>4. lapsed # {}
  <2>1. \E r \in table : r.expired = TRUE
    BY <1>1, <1>2
  <2> QED
    BY <2>1 DEF KeyInv, OneRow
<1>5. KeyType' /\ OneRow'
  BY <1>1 DEF KeyInv, KeyType, OneRow
<1>6. Inquirers' = Inquirers
  BY <1>1 DEF Inquirers
<1>7. LookersInTurn'
  BY <1>1, <1>6 DEF KeyInv, LookersInTurn
<1>8. ASSUME OneScope', Quiet' PROVE HoldersHaveRows'
  <2>1. entangled = {} /\ Inquirers = {}
    BY <1>1, <1>4, <1>8 DEF Quiet
  <2>2. HoldersHaveRows
    BY <1>1, <1>8, <2>1 DEF KeyInv, OneScope, Quiet
  <2>3. \A c \in Acquirers : where[c] \notin {"select", "delete"}
    BY <2>1 DEF Inquirers, Inquiring
  <2>4. \A c \in Acquirers : Holds(c)' => \E r \in table' : r.owner = c
    <3>1. \A c \in Acquirers : Holds(c)' => Holds(c)
      BY <1>1 DEF Holds
    <3>2. \A c \in Acquirers : Holds(c) => \E r \in table : r.owner = c /\ r.expired # TRUE
      BY <2>2 DEF HoldersHaveRows, KeyInv, OneRow, Holds
    <3> QED
      BY <1>3, <3>1, <3>2
  <2> QED
    BY <1>1, <2>3, <2>4 DEF HoldersHaveRows
<1> QED
  BY <1>5, <1>7, <1>8 DEF KeyInv

LEMMA KeysStep == KeyInv /\ [KeysNext]_keyVars => KeyInv'
<1> SUFFICES ASSUME KeyInv, [KeysNext]_keyVars PROVE KeyInv'
  OBVIOUS
<1>1. CASE UNCHANGED keyVars
  BY <1>1 DEF keyVars, KeyInv, KeyType, OneRow, LookersInTurn, OneScope, Quiet,
              HoldersHaveRows, Holds, Inquirers
<1> QED
  BY <1>1, InsertKeeps, SelectKeeps, DeleteKeeps, ReinsertKeeps, completeKeeps, CrashKeeps,
     CleanupKeeps, ExpireKeeps
     DEF KeysNext

\* However many calls acquire one key of one scope: while no row of it runs out,
\* or no call overlaps another or the cleanup job, one alone is told "acquired"
\* until its row's time to live has passed (idempotency.ts).
THEOREM OneAcquirerOfScopedKeyHolds == KeysSpec => []OneAcquirerOfScopedKey
<1>1. KeyInv => OneAcquirerOfScopedKey
  <2> SUFFICES ASSUME KeyInv, OneScope, Quiet PROVE OneAcquirer
    BY DEF OneAcquirerOfScopedKey, OneScope, Quiet
  <2> QED
    BY DEF KeyInv, OneRow, HoldersHaveRows, OneAcquirer
<1> QED
  BY <1>1, KeysInitially, KeysStep, PTL DEF KeysSpec
=============================================================================
