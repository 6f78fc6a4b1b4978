------------------------ MODULE TransactionPinProofs ------------------------
(***************************************************************************)
(* Proofs about TransactionPin, for any number of overlapping calls and    *)
(* any limit.                                                              *)
(***************************************************************************)
EXTENDS TransactionPin, TLAPS

USE PinAssumption

(* The type invariant is inductive.                                        *)
THEOREM TypeCorrect == Spec => []TypeOK
<1> USE DEF TypeOK, Labels, LockoutKey
<1>1. Init => TypeOK
  BY DEF Init
<1>2. TypeOK /\ [Next]_vars => TypeOK'
  <2> SUFFICES ASSUME TypeOK, [Next]_vars
               PROVE  TypeOK'
    OBVIOUS
  <2> USE DEF Goto
  <2>1. ASSUME NEW c \in Calls, NEW isMatch \in BOOLEAN, Begin(c, isMatch)
        PROVE  TypeOK'
    BY <2>1 DEF Begin
  <2>2. ASSUME NEW c \in Calls, LockCheck(c)
        PROVE  TypeOK'
    BY <2>2 DEF LockCheck
  <2>3. ASSUME NEW c \in Calls, ClearFailures(c)
        PROVE  TypeOK'
    BY <2>3 DEF ClearFailures, Deleted
  <2>4. ASSUME NEW c \in Calls, ReadFailures(c)
        PROVE  TypeOK'
    BY <2>4 DEF ReadFailures
  <2>5. ASSUME NEW c \in Calls, WriteFailures(c)
        PROVE  TypeOK'
    BY <2>5 DEF WriteFailures
  <2>6. ASSUME NEW c \in Calls, SetLockout(c)
        PROVE  TypeOK'
    BY <2>6 DEF SetLockout
  <2>7. ASSUME NEW c \in Calls, ForgetFailures(c)
        PROVE  TypeOK'
    BY <2>7 DEF ForgetFailures, Deleted
  <2>8. ASSUME NEW c \in Calls, Abort(c)
        PROVE  TypeOK'
    BY <2>8 DEF Abort
  <2>9. CASE RateLimitPinAttempts
    BY <2>9 DEF RateLimitPinAttempts
  <2>10. CASE ExpireFailures
    BY <2>10 DEF ExpireFailures
  <2>11. CASE ExpireLockout
    BY <2>11 DEF ExpireLockout
  <2>12. CASE UNCHANGED vars
    BY <2>12 DEF vars
  <2>13. QED
    BY <2>1, <2>2, <2>3, <2>4, <2>5, <2>6, <2>7, <2>8, <2>9, <2>10, <2>11,
       <2>12 DEF Next, VerifyTransactionPin
<1>3. QED
  BY <1>1, <1>2, PTL DEF Spec

-----------------------------------------------------------------------------
(* Strengthening of RateLimitNeverFires: what a call is about to write is  *)
(* below the limit too.                                                    *)
BoundInv ==
  /\ RateLimitNeverFires
  /\ \A c \in Calls : pc[c] = "write" => read[c] + 1 < maxAttempts

(* The counter never reaches the limit, whatever is lost on the way.       *)
THEOREM RateLimitIsDead == Spec => []RateLimitNeverFires
<1> USE DEF BoundInv, RateLimitNeverFires
<1>1. Init => BoundInv
  BY DEF Init
<1>2. TypeOK /\ BoundInv /\ [Next]_vars => BoundInv'
  <2> SUFFICES ASSUME TypeOK, BoundInv, [Next]_vars
               PROVE  BoundInv'
    OBVIOUS
  <2> USE DEF Goto, TypeOK
  <2>1. ASSUME NEW c \in Calls, ReadFailures(c)
        PROVE  BoundInv'
    BY <2>1 DEF ReadFailures, Reached
  <2>2. ASSUME NEW c \in Calls, WriteFailures(c)
        PROVE  BoundInv'
    BY <2>2 DEF WriteFailures
  <2>3. ASSUME NEW c \in Calls, \E isMatch \in BOOLEAN : Begin(c, isMatch)
        PROVE  BoundInv'
    BY <2>3 DEF Begin
  <2>4. ASSUME NEW c \in Calls,
               LockCheck(c) \/ SetLockout(c) \/ Abort(c)
        PROVE  BoundInv'
    BY <2>4 DEF LockCheck, SetLockout, Abort
  <2>5. ASSUME NEW c \in Calls, ClearFailures(c) \/ ForgetFailures(c)
        PROVE  BoundInv'
    BY <2>5 DEF ClearFailures, ForgetFailures, Deleted
  <2>6. CASE RateLimitPinAttempts
    BY <2>6 DEF RateLimitPinAttempts
  <2>7. CASE ExpireFailures \/ ExpireLockout \/ UNCHANGED vars
    BY <2>7 DEF ExpireFailures, ExpireLockout, vars
  <2>8. QED
    BY <2>1, <2>2, <2>3, <2>4, <2>5, <2>6, <2>7
       DEF Next, VerifyTransactionPin
<1>3. QED
  BY <1>1, <1>2, TypeCorrect, PTL DEF Spec

-----------------------------------------------------------------------------
(* Strengthening of LockoutIsEarned: every value of the counter, stored or *)
(* about to be, is backed by as many wrong PINs.                           *)
EarnedInv ==
  /\ LockoutIsEarned
  /\ failures <= wrong
  /\ \A c \in Calls : /\ pc[c] = "write" => read[c] + 1 <= wrong
                      /\ pc[c] = "lock" => wrong >= maxAttempts

(* No lockout without maxAttempts wrong PINs, in any interleaving.         *)
THEOREM LockoutNeedsWrongPins == Spec => []LockoutIsEarned
<1> USE DEF EarnedInv, LockoutIsEarned
<1>1. Init => EarnedInv
  BY DEF Init
<1>2. TypeOK /\ EarnedInv /\ [Next]_vars => EarnedInv'
  <2> SUFFICES ASSUME TypeOK, EarnedInv, [Next]_vars
               PROVE  EarnedInv'
    OBVIOUS
  <2> USE DEF Goto, TypeOK
  <2>1. ASSUME NEW c \in Calls, ReadFailures(c)
        PROVE  EarnedInv'
    BY <2>1 DEF ReadFailures, Reached
  <2>2. ASSUME NEW c \in Calls, WriteFailures(c)
        PROVE  EarnedInv'
    BY <2>2 DEF WriteFailures
  <2>3. ASSUME NEW c \in Calls, \E isMatch \in BOOLEAN : Begin(c, isMatch)
        PROVE  EarnedInv'
    BY <2>3 DEF Begin
  <2>4. ASSUME NEW c \in Calls, LockCheck(c) \/ Abort(c)
        PROVE  EarnedInv'
    BY <2>4 DEF LockCheck, Abort
  <2>5. ASSUME NEW c \in Calls, SetLockout(c)
        PROVE  EarnedInv'
    BY <2>5 DEF SetLockout
  <2>6. ASSUME NEW c \in Calls, ClearFailures(c) \/ ForgetFailures(c)
        PROVE  EarnedInv'
    BY <2>6 DEF ClearFailures, ForgetFailures, Deleted
  <2>7. CASE RateLimitPinAttempts \/ ExpireFailures \/ ExpireLockout
    BY <2>7 DEF RateLimitPinAttempts, ExpireFailures, ExpireLockout
  <2>8. CASE UNCHANGED vars
    BY <2>8 DEF vars
  <2>9. QED
    BY <2>1, <2>2, <2>3, <2>4, <2>5, <2>6, <2>7, <2>8
       DEF Next, VerifyTransactionPin
<1>3. QED
  BY <1>1, <1>2, TypeCorrect, PTL DEF Spec

-----------------------------------------------------------------------------
(* Strengthening of SequentialBudget: until a call is disturbed one call   *)
(* runs at a time, and every wrong PIN since the counter was cleared is in *)
(* the counter or about to be.                                             *)
SequentialInv ==
  disturbed = {} =>
    /\ \A c, d \in Calls : pc[c] # "idle" /\ pc[d] # "idle" => c = d
    /\ (\A c \in Calls : pc[c] \notin {"write", "lock", "forget"})
         => tries <= failures
    /\ \A c \in Calls : pc[c] = "write" => tries <= read[c] + 1
    /\ tries <= maxAttempts

(* One call at a time compares at most maxAttempts wrong PINs before the   *)
(* counter is cleared, for every limit.                                    *)
THEOREM SequentialBudgetHolds == Spec => []SequentialBudget
<1> USE DEF SequentialInv, Labels
<1>1. Init => SequentialInv
  BY DEF Init
<1>2. TypeOK /\ RateLimitNeverFires /\ SequentialInv /\ [Next]_vars
      => SequentialInv'
  <2> SUFFICES ASSUME TypeOK, RateLimitNeverFires, SequentialInv, [Next]_vars
               PROVE  SequentialInv'
    OBVIOUS
  <2> USE DEF Goto, TypeOK, RateLimitNeverFires
  <2>1. ASSUME NEW c \in Calls, \E isMatch \in BOOLEAN : Begin(c, isMatch)
        PROVE  SequentialInv'
    BY <2>1 DEF Begin
  <2>2. ASSUME NEW c \in Calls, LockCheck(c)
        PROVE  SequentialInv'
    BY <2>2 DEF LockCheck
  <2>3. ASSUME NEW c \in Calls, ReadFailures(c)
        PROVE  SequentialInv'
    BY <2>3 DEF ReadFailures, Reached
  <2>4. ASSUME NEW c \in Calls, WriteFailures(c)
        PROVE  SequentialInv'
    BY <2>4 DEF WriteFailures
  <2>5. ASSUME NEW c \in Calls, SetLockout(c)
        PROVE  SequentialInv'
    BY <2>5 DEF SetLockout
  <2>6. ASSUME NEW c \in Calls, ClearFailures(c) \/ ForgetFailures(c)
        PROVE  SequentialInv'
    BY <2>6 DEF ClearFailures, ForgetFailures, Deleted
  <2>7. ASSUME NEW c \in Calls, Abort(c)
        PROVE  SequentialInv'
    BY <2>7 DEF Abort
  <2>8. CASE RateLimitPinAttempts \/ ExpireFailures \/ ExpireLockout
    BY <2>8 DEF RateLimitPinAttempts, ExpireFailures, ExpireLockout
  <2>9. CASE UNCHANGED vars
    BY <2>9 DEF vars
  <2>10. QED
    BY <2>1, <2>2, <2>3, <2>4, <2>5, <2>6, <2>7, <2>8, <2>9
       DEF Next, VerifyTransactionPin
<1>3. SequentialInv => SequentialBudget
  BY DEF SequentialBudget
<1>4. QED
  BY <1>1, <1>2, <1>3, TypeCorrect, RateLimitIsDead, PTL DEF Spec
=============================================================================
