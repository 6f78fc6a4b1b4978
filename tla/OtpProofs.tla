----------------------------- MODULE OtpProofs -----------------------------
(***************************************************************************)
(* Proofs about Otp, for any number of calls, codes and attempts.          *)
(***************************************************************************)
EXTENDS Otp, FiniteSetTheorems, TLAPS

USE OtpAssumption

(* A call can add or leave the set of calls a counter let through: what    *)
(* that does to its size.                                                  *)
LEMMA CardinalityOfCalls ==
  ASSUME NEW S \in SUBSET Calls, NEW c \in Calls
  PROVE  /\ IsFiniteSet(S) /\ Cardinality(S) \in Nat
         /\ c \notin S => Cardinality(S \union {c}) = Cardinality(S) + 1
         /\ c \in S => Cardinality(S \ {c}) = Cardinality(S) - 1
         /\ c \notin S => S \ {c} = S
         /\ Cardinality({}) = 0
<1>1. IsFiniteSet(S)
  BY FS_Subset
<1>2. Cardinality(S) \in Nat
  BY <1>1, FS_CardinalityType
<1>3. c \notin S => Cardinality(S \union {c}) = Cardinality(S) + 1
  BY <1>1, FS_AddElement
<1>4. c \in S => Cardinality(S \ {c}) = Cardinality(S) - 1
  BY <1>1, FS_RemoveElement
<1>5. Cardinality({}) = 0
  BY FS_EmptySet
<1>6. QED
  BY <1>1, <1>2, <1>3, <1>4, <1>5

-----------------------------------------------------------------------------
(* The type invariant is inductive.                                        *)
THEOREM TypeCorrect == Spec => []TypeOK
<1>1. Init => TypeOK
  BY DEF Init, TypeOK, Labels, Sends, Verifies, Operations
<1>2. TypeOK /\ [Next]_vars => TypeOK'
  <2> SUFFICES ASSUME TypeOK, [Next]_vars
               PROVE  TypeOK'
    OBVIOUS
  <2> USE DEF TypeOK, Goto, At, Return, Labels, redisVars, callVars,
              guessVars, mailVars, useVars, historyVars, Operations, ResetGuesses,
              ResetMails
  <2>1. CASE Expire
    <3>1. CASE ExpireOtp
      BY <3>1 DEF ExpireOtp
    <3>2. CASE ExpireResends
      BY <3>2 DEF ExpireResends
    <3>3. CASE ExpireAttempts
      BY <3>3 DEF ExpireAttempts
    <3>4. ASSUME NEW operation \in Operations, ExpireBlock(operation)
          PROVE  TypeOK'
      BY <3>4 DEF ExpireBlock
    <3>5. QED
      BY <2>1, <3>1, <3>2, <3>3, <3>4 DEF Expire
  <2>2. ASSUME NEW c \in Calls, NEW o \in Sends, BeginSend(c, o)
        PROVE  TypeOK'
    BY <2>2 DEF BeginSend, Sends, Verifies
  <2>3. ASSUME NEW c \in Calls, NEW o \in Verifies, NEW code \in Codes,
                     BeginVerify(c, o, code)
        PROVE  TypeOK'
    BY <2>3 DEF BeginVerify, Sends, Verifies
  <2>4. ASSUME NEW c \in Calls, ResendCheck(c)
        PROVE  TypeOK'
    BY <2>4 DEF ResendCheck
  <2>5. ASSUME NEW c \in Calls, SendCheck(c)
        PROVE  TypeOK'
    BY <2>5 DEF SendCheck
  <2>6. ASSUME NEW c \in Calls, CountResend(c)
        PROVE  TypeOK'
    BY <2>6 DEF CountResend
  <2>7. ASSUME NEW c \in Calls, BlockResend(c)
        PROVE  TypeOK'
    BY <2>7 DEF BlockResend
  <2>8. ASSUME NEW c \in Calls, Store(c)
        PROVE  TypeOK'
    BY <2>8 DEF Store
  <2>9. ASSUME NEW c \in Calls, Unstore(c)
        PROVE  TypeOK'
    BY <2>9 DEF Unstore
  <2>10. ASSUME NEW c \in Calls, NEW sent \in BOOLEAN, Mail(c, sent)
         PROVE  TypeOK'
    BY <2>10 DEF Mail
  <2>11. ASSUME NEW c \in Calls, VerifyCheck(c)
         PROVE  TypeOK'
    BY <2>11 DEF VerifyCheck
  <2>12. ASSUME NEW c \in Calls, CountAttempt(c)
         PROVE  TypeOK'
    BY <2>12 DEF CountAttempt
  <2>13. ASSUME NEW c \in Calls, BlockVerification(c)
         PROVE  TypeOK'
    BY <2>13 DEF BlockVerification
  <2>14. ASSUME NEW c \in Calls, Compare(c)
         PROVE  TypeOK'
    BY <2>14 DEF Compare
  <2>15. ASSUME NEW c \in Calls, Take(c)
         PROVE  TypeOK'
    BY <2>15 DEF Take, GetDel
  <2>16. ASSUME NEW c \in Calls, ClearAttempts(c)
         PROVE  TypeOK'
    BY <2>16 DEF ClearAttempts, Deleted
  <2>17. ASSUME NEW c \in Calls, ClearResends(c)
         PROVE  TypeOK'
    BY <2>17 DEF ClearResends, Deleted
  <2>18. ASSUME NEW c \in Calls, Abort(c)
         PROVE  TypeOK'
    BY <2>18 DEF Abort
  <2>19. CASE UNCHANGED vars
    BY <2>19 DEF vars
  <2>20. QED
    BY <2>1, <2>2, <2>3, <2>4, <2>5, <2>6, <2>7, <2>8, <2>9, <2>10, <2>11,
       <2>12, <2>13, <2>14, <2>15, <2>16, <2>17, <2>18, <2>19
    DEF Next, Begin, Send, Verify
<1>3. QED
  BY <1>1, <1>2, PTL DEF Spec

-----------------------------------------------------------------------------
(* A code written is good for one validateOtp, however many calls compared *)
(* it: GETDEL removes what it accepts, and only Store adds a code.         *)
THEOREM SingleUseHolds == Spec => []SingleUse
<1>1. Init => SingleUse
  BY DEF Init, SingleUse
<1>2. TypeOK /\ SingleUse /\ [Next]_vars => SingleUse'
  <2> SUFFICES ASSUME TypeOK, SingleUse, [Next]_vars
               PROVE  SingleUse'
    OBVIOUS
  <2> USE DEF SingleUse, TypeOK, redisVars, callVars, guessVars, mailVars,
              useVars, historyVars
  <2>1. CASE Expire
    BY <2>1 DEF Expire, ExpireOtp, ExpireResends, ExpireAttempts,
                ExpireBlock
  <2>2. ASSUME NEW c \in Calls, Store(c)
        PROVE  SingleUse'
    BY <2>2 DEF Store
  <2>3. ASSUME NEW c \in Calls, Unstore(c)
        PROVE  SingleUse'
    BY <2>3 DEF Unstore
  <2>4. ASSUME NEW c \in Calls, Take(c)
        PROVE  SingleUse'
    BY <2>4 DEF Take, GetDel
  <2>5. ASSUME UNCHANGED <<otp, stored, accepted>>
        PROVE  SingleUse'
    BY <2>5
  <2>6. ASSUME NEW c \in Calls, Begin(c) \/ Abort(c)
        PROVE  SingleUse'
    BY <2>6 DEF Begin, BeginSend, BeginVerify, Abort
  <2>7. ASSUME NEW c \in Calls, ResendCheck(c) \/ SendCheck(c) \/
                 CountResend(c) \/ BlockResend(c) \/ \E sent \in BOOLEAN : Mail(c, sent)
        PROVE  SingleUse'
    BY <2>7 DEF ResendCheck, SendCheck, CountResend, BlockResend, Mail
  <2>8. ASSUME NEW c \in Calls, VerifyCheck(c) \/ CountAttempt(c) \/
                 BlockVerification(c) \/ Compare(c) \/ ClearAttempts(c) \/
                 ClearResends(c)
        PROVE  SingleUse'
    BY <2>8 DEF VerifyCheck, CountAttempt, BlockVerification, Compare,
                ClearAttempts, ClearResends
  <2>9. QED
    BY <2>1, <2>2, <2>3, <2>4, <2>5, <2>6, <2>7, <2>8
       DEF Next, Send, Verify, vars
<1>3. QED
  BY <1>1, <1>2, TypeCorrect, PTL DEF Spec

-----------------------------------------------------------------------------
(* The inductive invariant of the attempts counter: only calls about to    *)
(* compare hold a permit, and every permit was paid for by the key.        *)
GuessInv ==
  /\ \A c \in guessers : pc[c] = "compare"
  /\ guesses + Cardinality(guessers) <= attempts
  /\ GuessBudget

(* One step either leaves the attempts account alone or is a step of the   *)
(* abstract budget; either way the invariant is kept.                      *)
LEMMA GuessStep ==
  ASSUME TypeOK, GuessInv, [Next]_vars
  PROVE  GuessInv' /\ [Guessing!Next]_(Guessing!vars)
<1> USE DEF GuessInv, GuessBudget, TypeOK, Goto, At, Return, redisVars,
            callVars, guessVars, mailVars, useVars, historyVars,
            ResetGuesses, Guessing!Next, Guessing!vars
<1>0. guesses \in Nat /\ attempts \in Nat /\ Cardinality(guessers) \in Nat
  <2>1. IsFiniteSet(guessers)
    BY FS_Subset
  <2>2. QED
    BY <2>1, FS_CardinalityType
<1>1. ASSUME UNCHANGED <<attempts, guesses, guessers>>,
             \A d \in guessers : pc'[d] = "compare"
      PROVE  GuessInv' /\ [Guessing!Next]_(Guessing!vars)
  BY <1>0, <1>1
<1>2. ASSUME attempts' = 0, ResetGuesses
      PROVE  GuessInv' /\ [Guessing!Next]_(Guessing!vars)
  <2>1. Cardinality({}) = 0
    BY FS_EmptySet
  <2>2. Guessing!Reset
    BY <1>2 DEF Guessing!Reset
  <2>3. QED
    BY <1>2, <2>1, <2>2
<1>3. ASSUME NEW c \in Calls, CountAttempt(c)
      PROVE  GuessInv' /\ [Guessing!Next]_(Guessing!vars)
  <2> USE <1>3 DEF CountAttempt, OverVerificationLimit
  <2>1. c \notin guessers
    OBVIOUS
  <2>2. CASE UNCHANGED guessers /\ Goto(c, "blockVerification")
    BY <1>0, <2>1, <2>2
  <2>3. CASE guessers' = guessers \union {c} /\ Goto(c, "compare")
    <3>1. Cardinality(guessers') = Cardinality(guessers) + 1
      BY <2>1, <2>3, CardinalityOfCalls
    <3>2. attempts + 1 <= MAX_VERIFICATION_ATTEMPTS
      BY <2>3
    <3>3. Guessing!Grant(c)
      <4>1. guesses + Cardinality(guessers) < MAX_VERIFICATION_ATTEMPTS
        BY <1>0, <3>2
      <4>2. UNCHANGED guesses
        OBVIOUS
      <4>3. QED
        BY <2>1, <2>3, <4>1, <4>2
           DEF Guessing!Grant, Guessing!Cardinality, Cardinality
    <3>4. QED
      BY <1>0, <2>3, <3>1, <3>2, <3>3
  <2>4. QED
    BY <2>2, <2>3
<1>4. ASSUME NEW c \in Calls, Compare(c)
      PROVE  GuessInv' /\ [Guessing!Next]_(Guessing!vars)
  <2> USE <1>4 DEF Compare
  <2>1. CASE c \in guessers
    <3>1. Cardinality(guessers') = Cardinality(guessers) - 1
      BY <2>1, CardinalityOfCalls
    <3>2. Guessing!Act(c) \/ Guessing!GiveUp(c)
      BY <2>1 DEF Guessing!Act, Guessing!GiveUp
    <3>3. QED
      BY <1>0, <2>1, <3>1, <3>2
  <2>2. CASE c \notin guessers
    <3>1. guessers' = guessers /\ guesses' = guesses
      BY <2>2
    <3>2. QED
      BY <1>0, <1>1, <2>2, <3>1
  <2>3. QED
    BY <2>1, <2>2
<1>5. ASSUME NEW c \in Calls, Abort(c)
      PROVE  GuessInv' /\ [Guessing!Next]_(Guessing!vars)
  <2> USE <1>5 DEF Abort
  <2>1. CASE c \in guessers
    <3>1. Cardinality(guessers') = Cardinality(guessers) - 1
      BY <2>1, CardinalityOfCalls
    <3>2. Guessing!GiveUp(c)
      BY <2>1 DEF Guessing!GiveUp
    <3>3. QED
      BY <1>0, <2>1, <3>1, <3>2
  <2>2. CASE c \notin guessers
    <3>1. guessers' = guessers
      BY <2>2
    <3>2. QED
      BY <1>0, <1>1, <2>2, <3>1
  <2>3. QED
    BY <2>1, <2>2
<1>6. ASSUME NEW c \in Calls, Begin(c)
      PROVE  GuessInv' /\ [Guessing!Next]_(Guessing!vars)
  BY <1>1, <1>6 DEF Begin, BeginSend, BeginVerify
<1>7. ASSUME NEW c \in Calls, Send(c)
      PROVE  GuessInv' /\ [Guessing!Next]_(Guessing!vars)
  BY <1>1, <1>7 DEF Send, ResendCheck, SendCheck, CountResend, BlockResend,
                    Store, Unstore, Mail
<1>8. ASSUME NEW c \in Calls,
             VerifyCheck(c) \/ BlockVerification(c) \/ Take(c) \/ ClearResends(c)
      PROVE  GuessInv' /\ [Guessing!Next]_(Guessing!vars)
  BY <1>1, <1>8 DEF VerifyCheck, BlockVerification, Take, ClearResends
<1>9. ASSUME NEW c \in Calls, ClearAttempts(c)
      PROVE  GuessInv' /\ [Guessing!Next]_(Guessing!vars)
  BY <1>2, <1>9 DEF ClearAttempts, Deleted
<1>10. CASE Expire
  BY <1>1, <1>2, <1>10 DEF Expire, ExpireOtp, ExpireResends, ExpireAttempts,
                           ExpireBlock
<1>11. CASE UNCHANGED vars
  BY <1>1, <1>11 DEF vars
<1>12. QED
  BY <1>3, <1>4, <1>5, <1>6, <1>7, <1>8, <1>9, <1>10, <1>11
     DEF Next, Verify

(* The attempts counter starts with an empty account.                      *)
LEMMA GuessInit == Init => GuessInv /\ Guessing!Init
BY FS_EmptySet DEF Init, GuessInv, GuessBudget, Guessing!Init

(* GuessInv is an invariant of the specification.                          *)
THEOREM GuessInvHolds == Spec => []GuessInv
BY GuessInit, GuessStep, TypeCorrect, PTL DEF Spec

(* One life of the attempts key pays for at most MAX_VERIFICATION_ATTEMPTS *)
(* comparisons with a stored code, for any number of concurrent calls.     *)
THEOREM GuessBudgetHolds == Spec => []GuessBudget
<1>1. GuessInv => GuessBudget
  BY DEF GuessInv
<1>2. QED
  BY <1>1, GuessInvHolds, PTL

(* The attempts counter implements the abstract budget.                    *)
THEOREM GuessingImplementsBudget == Spec => GuessingIsBudget
BY GuessInit, GuessStep, GuessInvHolds, TypeCorrect, PTL
   DEF Spec, GuessingIsBudget, Guessing!Spec

-----------------------------------------------------------------------------
(* The same argument for the resend counter: a call let through keeps its  *)
(* permit while it writes the code, until it asks for the mail.            *)
MailInv ==
  /\ \A c \in mailers : pc[c] \in {"store", "mail"}
  /\ mails + Cardinality(mailers) <= resends
  /\ MailBudget

(* One step either leaves the resend account alone or is a step of the     *)
(* abstract budget; either way the invariant is kept.                      *)
LEMMA MailStep ==
  ASSUME TypeOK, MailInv, [Next]_vars
  PROVE  MailInv' /\ [Mailing!Next]_(Mailing!vars)
<1> USE DEF MailInv, MailBudget, TypeOK, Goto, At, Return, redisVars,
            callVars, guessVars, mailVars, useVars, historyVars,
            ResetMails, Mailing!Next, Mailing!vars
<1>0. mails \in Nat /\ resends \in Nat /\ Cardinality(mailers) \in Nat
  <2>1. IsFiniteSet(mailers)
    BY FS_Subset
  <2>2. QED
    BY <2>1, FS_CardinalityType
<1>1. ASSUME UNCHANGED <<resends, mails, mailers>>,
             \A d \in mailers : pc'[d] \in {"store", "mail"}
      PROVE  MailInv' /\ [Mailing!Next]_(Mailing!vars)
  BY <1>0, <1>1
<1>2. ASSUME resends' = 0, ResetMails
      PROVE  MailInv' /\ [Mailing!Next]_(Mailing!vars)
  <2>1. Cardinality({}) = 0
    BY FS_EmptySet
  <2>2. Mailing!Reset
    BY <1>2 DEF Mailing!Reset
  <2>3. QED
    BY <1>2, <2>1, <2>2
<1>3. ASSUME NEW c \in Calls, CountResend(c)
      PROVE  MailInv' /\ [Mailing!Next]_(Mailing!vars)
  <2> USE <1>3 DEF CountResend, OverResendLimit
  <2>1. c \notin mailers
    OBVIOUS
  <2>2. CASE UNCHANGED mailers /\ Goto(c, "blockResend")
    BY <1>0, <2>1, <2>2
  <2>3. CASE mailers' = mailers \union {c} /\ Goto(c, "store")
    <3>1. Cardinality(mailers') = Cardinality(mailers) + 1
      BY <2>1, <2>3, CardinalityOfCalls
    <3>2. resends + 1 <= MAX_RESEND_ATTEMPTS
      BY <2>3
    <3>3. Mailing!Grant(c)
      <4>1. mails + Cardinality(mailers) < MAX_RESEND_ATTEMPTS
        BY <1>0, <3>2
      <4>2. UNCHANGED mails
        OBVIOUS
      <4>3. QED
        BY <2>1, <2>3, <4>1, <4>2
           DEF Mailing!Grant, Mailing!Cardinality, Cardinality
    <3>4. QED
      BY <1>0, <2>3, <3>1, <3>2, <3>3
  <2>4. QED
    BY <2>2, <2>3
<1>4. ASSUME NEW c \in Calls, NEW sent \in BOOLEAN, Mail(c, sent)
      PROVE  MailInv' /\ [Mailing!Next]_(Mailing!vars)
  <2> USE <1>4 DEF Mail
  <2>1. CASE c \in mailers
    <3>1. Cardinality(mailers') = Cardinality(mailers) - 1
      BY <2>1, CardinalityOfCalls
    <3>2. Mailing!Act(c)
      BY <2>1 DEF Mailing!Act
    <3>3. QED
      BY <1>0, <2>1, <3>1, <3>2
  <2>2. CASE c \notin mailers
    <3>1. mailers' = mailers /\ mails' = mails
      BY <2>2
    <3>2. QED
      BY <1>0, <1>1, <2>2, <3>1
  <2>3. QED
    BY <2>1, <2>2
<1>5. ASSUME NEW c \in Calls, Abort(c)
      PROVE  MailInv' /\ [Mailing!Next]_(Mailing!vars)
  <2> USE <1>5 DEF Abort
  <2>1. CASE c \in mailers
    <3>1. Cardinality(mailers') = Cardinality(mailers) - 1
      BY <2>1, CardinalityOfCalls
    <3>2. Mailing!GiveUp(c)
      BY <2>1 DEF Mailing!GiveUp
    <3>3. QED
      BY <1>0, <2>1, <3>1, <3>2
  <2>2. CASE c \notin mailers
    <3>1. mailers' = mailers
      BY <2>2
    <3>2. QED
      BY <1>0, <1>1, <2>2, <3>1
  <2>3. QED
    BY <2>1, <2>2
<1>6. ASSUME NEW c \in Calls, Begin(c)
      PROVE  MailInv' /\ [Mailing!Next]_(Mailing!vars)
  BY <1>1, <1>6 DEF Begin, BeginSend, BeginVerify
<1>7. ASSUME NEW c \in Calls, ResendCheck(c) \/ SendCheck(c) \/
               BlockResend(c) \/ Store(c) \/ Unstore(c)
      PROVE  MailInv' /\ [Mailing!Next]_(Mailing!vars)
  BY <1>1, <1>7 DEF ResendCheck, SendCheck, BlockResend, Store, Unstore
<1>8. ASSUME NEW c \in Calls,
             VerifyCheck(c) \/ CountAttempt(c) \/ BlockVerification(c) \/
             Compare(c) \/ Take(c) \/ ClearAttempts(c)
      PROVE  MailInv' /\ [Mailing!Next]_(Mailing!vars)
  BY <1>1, <1>8 DEF VerifyCheck, CountAttempt, BlockVerification, Compare,
                    Take, ClearAttempts
<1>9. ASSUME NEW c \in Calls, ClearResends(c)
      PROVE  MailInv' /\ [Mailing!Next]_(Mailing!vars)
  BY <1>2, <1>9 DEF ClearResends, Deleted
<1>10. CASE Expire
  BY <1>1, <1>2, <1>10 DEF Expire, ExpireOtp, ExpireResends, ExpireAttempts,
                           ExpireBlock
<1>11. CASE UNCHANGED vars
  BY <1>1, <1>11 DEF vars
<1>12. QED
  BY <1>3, <1>4, <1>5, <1>6, <1>7, <1>8, <1>9, <1>10, <1>11
     DEF Next, Send, Verify

(* The resend counter starts with an empty account.                        *)
LEMMA MailInit == Init => MailInv /\ Mailing!Init
BY FS_EmptySet DEF Init, MailInv, MailBudget, Mailing!Init

(* MailInv is an invariant of the specification.                           *)
THEOREM MailInvHolds == Spec => []MailInv
BY MailInit, MailStep, TypeCorrect, PTL DEF Spec

(* One life of the resend key pays for at most MAX_RESEND_ATTEMPTS mails,  *)
(* for any number of concurrent calls.                                     *)
THEOREM MailBudgetHolds == Spec => []MailBudget
<1>1. MailInv => MailBudget
  BY DEF MailInv
<1>2. QED
  BY <1>1, MailInvHolds, PTL

(* The resend counter implements the abstract budget.                      *)
THEOREM MailingImplementsBudget == Spec => MailingIsBudget
BY MailInit, MailStep, MailInvHolds, TypeCorrect, PTL
   DEF Spec, MailingIsBudget, Mailing!Spec
=============================================================================
