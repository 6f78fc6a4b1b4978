------------------------- MODULE UserRequestsProofs -------------------------
(***************************************************************************)
(* Proofs about the five parts of UserRequests, for any number of          *)
(* sign-ins, tokens, users, avatars, PIN calls, visits, languages and      *)
(* devices.  Each part has an invariant of its own; a step of another part *)
(* leaves all its variables alone.                                         *)
(***************************************************************************)
EXTENDS UserRequests, SequenceTheorems, TLAPS

-----------------------------------------------------------------------------
(* PinAttempts.                                                            *)

\* A call that has counted its failure and not yet decided about the block.
Deciding == {"expiring attempts", "expiring total", "deciding"}

PinLabels ==
  {"idle", "counting", "clearing", "resetting", "turning away"} \union Deciding

PinRecords == [at : PinLabels, count : Nat, left : SUBSET PinKeys]
PinTypeOK == total \in Nat /\ cut \in BOOLEAN /\ pinCall \in [Pins -> PinRecords]

\* Every total that blocks has set its block, or the call whose INCR returned it
\* has yet to decide: INCR gives each total to one call.
ThresholdsAreDecided ==
  cut = FALSE => \A n \in 1..total :
            Blocks(n) => \/ n \in blockedAt
                         \/ \E c \in Pins : pinCall[c].at \in Deciding /\ pinCall[c].count = n

PinInv == PinTypeOK /\ ThresholdsAreDecided

LEMMA PinInitially == PinInit => PinInv
<1>1. NoCall \in PinRecords
  BY DEF NoCall, PinRecords, PinLabels
<1>2. PinInit => total \in Nat /\ pinCall \in [Pins -> PinRecords]
  BY <1>1 DEF PinInit
<1>3. PinInit => cut \in BOOLEAN
  BY Zenon DEF PinInit
<1> QED
  BY <1>2, <1>3 DEF PinInit, PinInv, PinTypeOK, ThresholdsAreDecided

PinNext == PinTimeout \/ \E c \in Pins : PinStep(c)

\* One call's record is replaced.
LEMMA PinReplaced ==
  ASSUME NEW c \in Pins, NEW new \in PinRecords, pinCall \in [Pins -> PinRecords],
         pinCall' = [pinCall EXCEPT ![c] = new]
  PROVE  /\ pinCall' \in [Pins -> PinRecords] /\ pinCall'[c] = new
         /\ \A d \in Pins \ {c} : pinCall'[d] = pinCall[d]
  OBVIOUS

LEMMA PinGotoFacts ==
  ASSUME NEW c \in Pins, NEW label \in PinLabels, pinCall \in [Pins -> PinRecords],
         PinGoto(c, label)
  PROVE  /\ pinCall' \in [Pins -> PinRecords]
         /\ pinCall'[c].at = label /\ pinCall'[c].count = pinCall[c].count
         /\ \A d \in Pins \ {c} : pinCall'[d] = pinCall[d]
<1> DEFINE new == [pinCall[c] EXCEPT !.at = label]
<1>1. new \in PinRecords /\ new.at = label /\ new.count = pinCall[c].count
  BY DEF PinRecords
<1>2. pinCall' = [pinCall EXCEPT ![c] = new]
  BY DEF PinGoto
<1> HIDE DEF new
<1> QED
  BY <1>1, <1>2, PinReplaced

LEMMA PinEndsFacts ==
  ASSUME NEW c \in Pins, pinCall \in [Pins -> PinRecords], PinEnds(c)
  PROVE  /\ pinCall' \in [Pins -> PinRecords] /\ pinCall'[c] = NoCall
         /\ \A d \in Pins \ {c} : pinCall'[d] = pinCall[d]
<1>1. NoCall \in PinRecords
  BY DEF NoCall, PinRecords, PinLabels
<1> QED
  BY <1>1, PinReplaced DEF PinEnds

\* A call goes on while the total stays as it is, or is gone.
LEMMA PinCallMoves ==
  ASSUME PinInv, NEW c \in Pins,
         \A d \in Pins \ {c} : pinCall'[d] = pinCall[d],
         UNCHANGED cut, \/ UNCHANGED total /\ blockedAt \subseteq blockedAt'
                        \/ total' = 0,
         pinCall[c].at \in Deciding =>
           \/ pinCall'[c].at \in Deciding /\ pinCall'[c].count = pinCall[c].count
           \/ Blocks(pinCall[c].count) => pinCall[c].count \in blockedAt'
  PROVE  ThresholdsAreDecided'
<1>1. CASE total' = 0
  BY <1>1 DEF ThresholdsAreDecided
<1>2. CASE UNCHANGED total /\ blockedAt \subseteq blockedAt'
  <2> SUFFICES ASSUME cut = FALSE, NEW n \in 1..total, Blocks(n), n \notin blockedAt'
               PROVE  \E e \in Pins : pinCall'[e].at \in Deciding /\ pinCall'[e].count = n
    BY <1>2 DEF ThresholdsAreDecided, Blocks
  <2>1. PICK e \in Pins : pinCall[e].at \in Deciding /\ pinCall[e].count = n
    BY <1>2 DEF PinInv, ThresholdsAreDecided
  <2> QED
    BY <2>1
<1> QED
  BY <1>1, <1>2

LEMMA PinInvStep == PinInv /\ [PinNext]_pinVars => PinInv'
<1> SUFFICES ASSUME PinInv, [PinNext]_pinVars PROVE PinInv'
  OBVIOUS
<1> USE DEF PinAt, PinTypeOK
<1>0. PinTypeOK /\ ThresholdsAreDecided
  BY DEF PinInv
<1>1. CASE PinTimeout
  <2>1. UNCHANGED <<pinCall, cut>> /\ (UNCHANGED <<total, blockedAt>> \/ total' = 0)
    BY <1>1 DEF PinTimeout, Gone
  <2> QED
    BY <1>0, <2>1 DEF PinInv, ThresholdsAreDecided, Blocks
<1>2. ASSUME NEW c \in Pins,
             \/ registerFailedPinAttempt(c) \/ ExpireAttemptsKey(c) \/ ExpireTotalKey(c)
             \/ ClearAttempts(c) \/ resetPinAttempts(c)
             \/ checkPinBlocked(c) \/ getRemainingBlockTime(c)
      PROVE  PinInv'
  <2>0. UNCHANGED <<total, cut, blockedAt>>
    BY <1>2
    DEF registerFailedPinAttempt, ExpireAttemptsKey, ExpireTotalKey, ClearAttempts,
        resetPinAttempts, checkPinBlocked, getRemainingBlockTime
  <2>1. CASE ExpireAttemptsKey(c) \/ ExpireTotalKey(c)
    <3>1. PICK label \in Deciding : PinGoto(c, label)
      BY <2>1 DEF ExpireAttemptsKey, ExpireTotalKey, Deciding
    <3> QED
      BY <1>0, <2>0, <3>1, PinGotoFacts, PinCallMoves DEF PinInv, PinLabels
  <2>2. CASE registerFailedPinAttempt(c) \/ checkPinBlocked(c)
    <3>1. PICK label \in PinLabels : PinGoto(c, label)
      BY <2>2 DEF registerFailedPinAttempt, checkPinBlocked, PinLabels
    <3>2. pinCall[c].at \notin Deciding
      BY <2>2 DEF registerFailedPinAttempt, checkPinBlocked, Deciding
    <3> QED
      BY <1>0, <2>0, <3>1, <3>2, PinGotoFacts, PinCallMoves DEF PinInv
  <2>3. CASE ClearAttempts(c) \/ getRemainingBlockTime(c)
    <3>1. PinEnds(c) /\ pinCall[c].at \notin Deciding
      BY <2>3 DEF ClearAttempts, getRemainingBlockTime, Deciding
    <3> QED
      BY <1>0, <2>0, <3>1, PinEndsFacts, PinCallMoves DEF PinInv
  <2>4. CASE resetPinAttempts(c)
    <3>1. [at |-> "resetting", count |-> 0, left |-> PinKeys] \in PinRecords
      BY DEF PinRecords, PinLabels
    <3>2. pinCall[c].at \notin Deciding
      BY <2>4 DEF resetPinAttempts, Deciding
    <3> QED
      BY <1>0, <2>0, <2>4, <3>1, <3>2, PinReplaced, PinCallMoves DEF PinInv, resetPinAttempts
  <2> QED
    BY <1>2, <2>1, <2>2, <2>3, <2>4
<1>3. ASSUME NEW c \in Pins, IncrTotal(c) PROVE PinInv'
  <2> DEFINE new == [pinCall[c] EXCEPT !.at = "expiring attempts", !.count = total + 1]
  <2>1. new \in PinRecords /\ new.at \in Deciding /\ new.count = total + 1
    <3>1. pinCall[c] \in PinRecords /\ total + 1 \in Nat
      BY <1>0
    <3>2. "expiring attempts" \in PinLabels /\ "expiring attempts" \in Deciding
      BY DEF PinLabels, Deciding
    <3> QED
      BY <3>1, <3>2 DEF PinRecords
  <2>2. /\ total' = total + 1 /\ UNCHANGED <<cut, blockedAt>> /\ pinCall[c].at \notin Deciding
        /\ pinCall' = [pinCall EXCEPT ![c] = new]
    BY <1>0, <1>3 DEF IncrTotal, Deciding
  <2> HIDE DEF new
  <2>3. /\ PinTypeOK' /\ pinCall'[c] = new
        /\ \A d \in Pins \ {c} : pinCall'[d] = pinCall[d]
    BY <1>0, <2>1, <2>2, PinReplaced
  <2>4. ASSUME cut = FALSE, NEW n \in 1..(total + 1), Blocks(n), n \notin blockedAt
        PROVE  \E e \in Pins : pinCall'[e].at \in Deciding /\ pinCall'[e].count = n
    <3>1. CASE n = total + 1
      BY <2>1, <2>3, <3>1
    <3>2. CASE n # total + 1
      <4>1. n \in 1..total
        BY <1>0, <3>2
      <4>2. PICK e \in Pins : pinCall[e].at \in Deciding /\ pinCall[e].count = n
        BY <1>0, <2>4, <4>1 DEF ThresholdsAreDecided
      <4> QED
        BY <2>2, <2>3, <4>2
    <3> QED
      BY <3>1, <3>2
  <2> QED
    BY <2>2, <2>3, <2>4 DEF PinInv, ThresholdsAreDecided, Blocks
<1>4. ASSUME NEW c \in Pins, Decide(c) PROVE PinInv'
  <2>1. UNCHANGED <<total, cut>> /\ blockedAt \subseteq blockedAt'
    BY <1>4 DEF Decide
  <2>2. PinTypeOK' /\ \A d \in Pins \ {c} : pinCall'[d] = pinCall[d]
    <3>1. PinGoto(c, "clearing") \/ PinEnds(c)
      BY <1>4 DEF Decide
    <3> QED
      BY <1>0, <2>1, <3>1, PinGotoFacts, PinEndsFacts DEF PinLabels
  <2>3. Blocks(pinCall[c].count) => pinCall[c].count \in blockedAt'
    BY <1>4 DEF Decide, Count
  <2> QED
    BY <2>1, <2>2, <2>3, PinCallMoves DEF PinInv
<1>5. ASSUME NEW c \in Pins, ResetOne(c) PROVE PinInv'
  <2>1. PICK key \in pinCall[c].left :
          /\ Gone(key)
          /\ IF pinCall[c].left = {key} THEN PinEnds(c)
             ELSE pinCall' = [pinCall EXCEPT ![c].left = @ \ {key}]
    BY <1>5 DEF ResetOne
  <2>2. UNCHANGED <<total, blockedAt>> \/ total' = 0
    BY <2>1 DEF Gone
  <2>3. pinCall' \in [Pins -> PinRecords] /\ \A d \in Pins \ {c} : pinCall'[d] = pinCall[d]
    <3> DEFINE new == [pinCall[c] EXCEPT !.left = @ \ {key}]
    <3>1. new \in PinRecords
      BY <1>0 DEF PinRecords
    <3>2. PinEnds(c) \/ pinCall' = [pinCall EXCEPT ![c] = new]
      BY <2>1
    <3> HIDE DEF new
    <3> QED
      BY <1>0, <3>1, <3>2, PinEndsFacts, PinReplaced
  <2>4. UNCHANGED cut /\ pinCall[c].at \notin Deciding
    BY <1>5 DEF ResetOne, Deciding
  <2> QED
    BY <1>0, <2>2, <2>3, <2>4, PinCallMoves DEF PinInv
<1>6. ASSUME NEW c \in Pins, PinCut(c) PROVE PinInv'
  <2>1. PinEnds(c) /\ total' = total /\ cut' = TRUE
    BY <1>6 DEF PinCut
  <2> QED
    BY <1>0, <2>1, PinEndsFacts DEF PinInv, ThresholdsAreDecided
<1>7. CASE UNCHANGED pinVars
  BY <1>0, <1>7 DEF pinVars, PinInv, ThresholdsAreDecided, Blocks
<1> QED
  BY <1>1, <1>2, <1>3, <1>4, <1>5, <1>6, <1>7 DEF PinNext, PinStep

LEMMA PinTheRest == [Next]_vars => [PinNext]_pinVars
  BY DEF Next, SigningIn, ChangingRow, CountingPins, ChoosingLanguage, UsingDevices, vars, PinNext

\* The invariant of the failed PINs: no two overlapping failures both miss a
\* threshold (registerFailedPinAttempt, pin.helper.ts:38-66), for any number of
\* calls, any thresholds and any number of failures.
THEOREM EveryThresholdBlocksHolds == Spec => []EveryThresholdBlocks
<1>1. Init => PinInv
  BY PinInitially DEF Init
<1>2. PinInv /\ [Next]_vars => PinInv'
  BY PinTheRest, PinInvStep
<1>3. PinInv => EveryThresholdBlocks
  <2>1. cut \in BOOLEAN /\ ~cut => cut = FALSE
    OBVIOUS
  <2>2. ASSUME PinInv, cut = FALSE, \A c \in Pins : pinCall[c].at = "idle",
               NEW count \in 1..total, Blocks(count)
        PROVE  count \in blockedAt
    BY <2>2 DEF PinInv, ThresholdsAreDecided, Deciding
  <2> QED
    BY <2>1, <2>2 DEF PinInv, PinTypeOK, EveryThresholdBlocks, PinAt
<1> QED
  BY <1>1, <1>2, <1>3, PTL DEF Spec

-----------------------------------------------------------------------------
(* Localization.                                                           *)

VisitLabels ==
  {"away", "missed", "found", "read row", "set row", "migrating", "clearing"}
AnyLanguage == Languages \union {None}
VisitRecords == [at : VisitLabels, language : AnyLanguage]

LangTypeOK ==
  /\ language \in AnyLanguage /\ cached \in AnyLanguage
  /\ sessionLanguage \in AnyLanguage /\ sessionKey \in AnyLanguage
  /\ visit \in [Visits -> VisitRecords] /\ torn \in BOOLEAN

\* One call at most is between the table and the cache; it carries the language
\* of the row, and unless it was the one to write the row the cache is not out of
\* date.
OneCarries ==
  torn = FALSE =>
    /\ \A v, w \in Carrying : v = w
    /\ \A v \in Carrying : visit[v].language = language
    /\ (\A v \in Carrying : visit[v].at = "read row") => cached \in {None, language}

LangInv == LangTypeOK /\ OneCarries

LangNext == LangElapse \/ \E v \in Visits : VisitStep(v)

LEMMA LangInitially == LangInit => LangInv
<1> SUFFICES ASSUME LangInit PROVE LangInv
  OBVIOUS
<1>1. Away \in VisitRecords /\ Default \in AnyLanguage /\ None \in AnyLanguage
  BY LanguageAssumption DEF Away, VisitRecords, VisitLabels, AnyLanguage
<1>2. /\ language = Default /\ cached = None /\ sessionLanguage = None /\ sessionKey = None
      /\ visit = [v \in Visits |-> Away]
  BY DEF LangInit
<1>3. torn \in BOOLEAN
  BY Zenon DEF LangInit
<1>4. Carrying = {}
  BY <1>2 DEF Carrying, Away
<1> QED
  BY <1>1, <1>2, <1>3, <1>4 DEF LangInv, LangTypeOK, OneCarries

\* One call's record is replaced.
LEMMA VisitReplaced ==
  ASSUME NEW v \in Visits, NEW new \in VisitRecords, visit \in [Visits -> VisitRecords],
         visit' = [visit EXCEPT ![v] = new]
  PROVE  /\ visit' \in [Visits -> VisitRecords] /\ visit'[v] = new
         /\ \A w \in Visits \ {v} : visit'[w] = visit[w]
         /\ new.at \in {"set row", "read row", "migrating"} => Carrying' = Carrying \union {v}
         /\ new.at \notin {"set row", "read row", "migrating"} => Carrying' = Carrying \ {v}
  BY DEF Carrying

LEMMA LangInvStep == LangInv /\ [LangNext]_langVars => LangInv'
<1> SUFFICES ASSUME LangInv, [LangNext]_langVars PROVE LangInv'
  OBVIOUS
<1> USE DEF VisitAt
<1>0. /\ LangTypeOK /\ OneCarries /\ None \in AnyLanguage /\ Away \in VisitRecords
      /\ Away.at = "away"
  BY DEF LangInv, Away, VisitRecords, VisitLabels, AnyLanguage
<1>1. CASE LangElapse \/ UNCHANGED langVars
  <2>1. UNCHANGED <<language, visit, torn>> /\ cached' \in {cached, None}
    BY <1>1 DEF LangElapse, LangTimeout, setSessionLanguage, langVars
  <2>2. sessionLanguage' \in AnyLanguage /\ sessionKey' \in AnyLanguage
    BY <1>0, <1>1
    DEF LangElapse, LangTimeout, setSessionLanguage, langVars, LangTypeOK, AnyLanguage
  <2>3. Carrying' = Carrying
    BY <2>1 DEF Carrying
  <2> QED
    BY <1>0, <2>1, <2>2, <2>3 DEF LangInv, LangTypeOK, OneCarries
<1>2. ASSUME NEW v \in Visits, getUserLanguage(v) \/ getSessionLanguage(v) PROVE LangInv'
  <2> DEFINE missed == [at |-> "missed", language |-> None]
             found == [at |-> "found", language |-> sessionKey]
  <2>1. /\ missed \in VisitRecords /\ missed.at = "missed"
        /\ found \in VisitRecords /\ found.at = "found"
    BY <1>0 DEF VisitRecords, VisitLabels, AnyLanguage, LangTypeOK
  <2> HIDE DEF missed, found
  <2>2. /\ UNCHANGED <<language, cached, sessionLanguage, sessionKey, torn>>
        /\ visit[v].at = "away"
        /\ visit' = visit \/ \E new \in {missed, found} : visit' = [visit EXCEPT ![v] = new]
    BY <1>2 DEF getUserLanguage, getSessionLanguage, VisitGoto, missed, found
  <2>3. Carrying' = Carrying /\ \A w \in Carrying : visit'[w] = visit[w]
    BY <1>0, <2>1, <2>2, VisitReplaced DEF Carrying, LangTypeOK
  <2> QED
    BY <1>0, <2>1, <2>2, <2>3, VisitReplaced DEF LangInv, LangTypeOK, OneCarries
<1>3. ASSUME NEW v \in Visits, ReadRow(v) PROVE LangInv'
  <2> DEFINE new == [at |-> "read row", language |-> language]
  <2>1. new \in VisitRecords /\ new.at = "read row" /\ new.language = language
    BY <1>0 DEF VisitRecords, VisitLabels, LangTypeOK
  <2>2. /\ UNCHANGED <<language, cached, sessionLanguage, sessionKey>>
        /\ visit' = [visit EXCEPT ![v] = new]
    BY <1>3 DEF ReadRow, VisitGoto
  <2>3. torn' \in BOOLEAN /\ (torn' = FALSE => torn = FALSE /\ Carrying = {})
    BY <1>0, <1>3 DEF ReadRow, LangTypeOK
  <2> HIDE DEF new
  <2>4. visit' \in [Visits -> VisitRecords] /\ visit'[v] = new /\ Carrying' = Carrying \union {v}
    BY <1>0, <2>1, <2>2, VisitReplaced DEF LangTypeOK
  <2>5. OneCarries'
    BY <1>0, <2>1, <2>2, <2>3, <2>4 DEF OneCarries
  <2> QED
    BY <1>0, <2>2, <2>3, <2>4, <2>5 DEF LangInv, LangTypeOK
<1>4. ASSUME NEW v \in Visits, NEW lang \in AnyLanguage, NEW label \in {"set row", "migrating"},
             UpdateRow(v, lang, label), UNCHANGED <<cached, sessionLanguage, sessionKey>>
      PROVE  LangInv'
  <2> DEFINE new == [at |-> label, language |-> lang]
  <2>1. new \in VisitRecords /\ new.at \in {"set row", "migrating"} /\ new.language = lang
    BY DEF VisitRecords, VisitLabels
  <2>2. language' = lang /\ visit' = [visit EXCEPT ![v] = new]
    BY <1>4 DEF UpdateRow, VisitGoto
  <2>3. torn' \in BOOLEAN /\ (torn' = FALSE => torn = FALSE /\ Carrying = {})
    BY <1>0, <1>4 DEF UpdateRow, LangTypeOK
  <2> HIDE DEF new
  <2>4. visit' \in [Visits -> VisitRecords] /\ visit'[v] = new /\ Carrying' = Carrying \union {v}
    BY <1>0, <2>1, <2>2, VisitReplaced DEF LangTypeOK
  <2>5. OneCarries'
    BY <2>1, <2>2, <2>3, <2>4 DEF OneCarries
  <2> QED
    BY <1>0, <1>4, <2>2, <2>3, <2>4, <2>5 DEF LangInv, LangTypeOK
<1>5. ASSUME NEW v \in Visits, cacheUserLanguage(v) \/ MigrateCache(v) PROVE LangInv'
  <2> DEFINE new == [at |-> "clearing", language |-> None]
  <2>1. new \in VisitRecords /\ new.at = "clearing"
    BY DEF VisitRecords, VisitLabels, AnyLanguage
  <2>2. PICK next \in {Away, new} : visit' = [visit EXCEPT ![v] = next]
    BY <1>5 DEF cacheUserLanguage, MigrateCache, VisitGoto, VisitEnds
  <2>3. /\ UNCHANGED <<language, sessionKey, torn>>
        /\ sessionLanguage' \in {sessionLanguage, None}
        /\ v \in Carrying /\ cached' = visit[v].language
    BY <1>5 DEF cacheUserLanguage, MigrateCache, Cache, Carrying
  <2>4. visit[v].language \in AnyLanguage
    BY <1>0 DEF LangTypeOK, VisitRecords
  <2> HIDE DEF new
  <2>5. visit' \in [Visits -> VisitRecords] /\ Carrying' = Carrying \ {v}
    BY <1>0, <2>1, <2>2, VisitReplaced DEF LangTypeOK
  <2>6. OneCarries'
    BY <1>0, <2>3, <2>5 DEF OneCarries
  <2> QED
    BY <1>0, <2>3, <2>4, <2>5, <2>6 DEF LangInv, LangTypeOK
<1>6. ASSUME NEW v \in Visits, clearSessionLanguage(v) \/ VisitCut(v) PROVE LangInv'
  <2>1. /\ UNCHANGED <<language, cached, sessionLanguage>> /\ sessionKey' \in {sessionKey, None}
        /\ visit' = [visit EXCEPT ![v] = Away]
    BY <1>6 DEF clearSessionLanguage, VisitCut, VisitEnds
  <2>2. torn' \in BOOLEAN /\ (torn' = FALSE => torn = FALSE)
    BY <1>0, <1>6 DEF clearSessionLanguage, VisitCut, LangTypeOK
  <2>3. torn' = FALSE => v \notin Carrying \/ visit[v].at = "read row"
    BY <1>6 DEF clearSessionLanguage, VisitCut, Carrying
  <2>4. Carrying' = Carrying \ {v} /\ \A w \in Carrying \ {v} : visit'[w] = visit[w]
    BY <1>0, <2>1, VisitReplaced DEF LangTypeOK, Carrying
  <2>5. OneCarries'
    BY <1>0, <2>1, <2>2, <2>3, <2>4 DEF OneCarries
  <2> QED
    BY <1>0, <2>1, <2>2, <2>5, VisitReplaced DEF LangInv, LangTypeOK
<1>7. ASSUME NEW v \in Visits, VisitStep(v) PROVE LangInv'
  <2>1. ASSUME NEW lang \in Languages, setUserLanguage(v, lang) PROVE LangInv'
    BY <1>4, <2>1 DEF setUserLanguage, AnyLanguage
  <2>2. CASE migrateSessionLanguageToUser(v)
    BY <1>0, <1>4, <2>2 DEF migrateSessionLanguageToUser, LangTypeOK
  <2>3. CASE MigrateFound(v)
    BY <1>0, <1>4, <2>3 DEF MigrateFound, LangTypeOK, VisitRecords
  <2> QED
    BY <1>2, <1>3, <1>5, <1>6, <1>7, <2>1, <2>2, <2>3 DEF VisitStep
<1> QED
  BY <1>1, <1>7 DEF LangNext

LEMMA LangTheRest == [Next]_vars => [LangNext]_langVars
  BY DEF Next, SigningIn, ChangingRow, CountingPins, ChoosingLanguage, UsingDevices, vars, LangNext

\* The cached language is the row's once nobody is between the two
\* (index.services.ts:84-150), whatever the calls and languages.
THEOREM CacheFollowsRowHolds == Spec => []CacheFollowsRow
<1>1. Init => LangInv
  BY LangInitially DEF Init
<1>2. LangInv /\ [Next]_vars => LangInv'
  BY LangTheRest, LangInvStep
<1>3. LangInv => CacheFollowsRow
  <2>1. torn \in BOOLEAN /\ ~torn => torn = FALSE
    OBVIOUS
  <2> QED
    BY <2>1 DEF LangInv, LangTypeOK, OneCarries, CacheFollowsRow
<1> QED
  BY <1>1, <1>2, <1>3, PTL DEF Spec

-----------------------------------------------------------------------------
(* Devices.                                                                *)

DeviceRows ==
  [status : {"pending", "active", "revoked"}, hash : TrustTokens \union {NoToken},
   push : PushTokens \union {NoToken}, idle : BOOLEAN]
RowPairs == Devices \X PushTokens
SenderRecords ==
  [at : {"idle", "sending", "clearing"}, read : SUBSET RowPairs, refused : SUBSET RowPairs]

DevicesTypeOK ==
  /\ device \in [Devices -> DeviceRows]
  /\ age \in [TrustTokens -> {"unmade", "valid", "over", "old"}]
  /\ sender \in [Senders -> SenderRecords]
  /\ wanted \in [Devices -> PushTokens \union {NoToken}]

PushesAreKept ==
  \A d \in Devices :
    wanted[d] # NoToken /\ wanted[d] \notin refused => device[d].push = wanted[d]

\* What a sender is about to clear has been turned down, and stays so.
RefusalsAreKnown == \A s \in Senders : \A pair \in sender[s].refused : pair[2] \in refused

ValidAreRecorded ==
  \A k \in TrustTokens : age[k] = "valid" => k \in unrecorded \union tokenHistory

DevicesInv == DevicesTypeOK /\ PushesAreKept /\ RefusalsAreKnown /\ ValidAreRecorded

LEMMA DevicesInitially == DevicesInit => DevicesInv
<1> SUFFICES ASSUME DevicesInit PROVE DevicesInv
  OBVIOUS
<1> DEFINE row == [status |-> "pending", hash |-> NoToken, push |-> NoToken, idle |-> FALSE]
<1>1. row \in DeviceRows /\ NoSender \in SenderRecords /\ NoSender.refused = {}
  BY DEF DeviceRows, NoSender, SenderRecords
<1>2. device = [d \in Devices |-> row]
  BY DEF DevicesInit
<1>3. /\ age = [k \in TrustTokens |-> "unmade"] /\ sender = [s \in Senders |-> NoSender]
      /\ wanted = [d \in Devices |-> NoToken]
  BY DEF DevicesInit
<1> HIDE DEF row
<1> QED
  BY <1>1, <1>2, <1>3
  DEF DevicesInv, DevicesTypeOK, PushesAreKept, RefusalsAreKnown, ValidAreRecorded

LEMMA IdleFacts ==
  ASSUME NEW row \in DeviceRows, NEW b \in BOOLEAN
  PROVE  [row EXCEPT !.idle = b] \in DeviceRows /\ [row EXCEPT !.idle = b].push = row.push
  BY DEF DeviceRows

\* A step that leaves the push tokens and the trust tokens' age alone.
LEMMA PushesStay ==
  ASSUME DevicesInv, device' \in [Devices -> DeviceRows],
         \A d \in Devices : device'[d].push = device[d].push,
         UNCHANGED <<age, unrecorded, tokenHistory, sender, refused, wanted>>
  PROVE  DevicesInv'
  BY DEF DevicesInv, DevicesTypeOK, PushesAreKept, RefusalsAreKnown, ValidAreRecorded

DevicesNext == DeviceStep

LEMMA DevicesInvStep == DevicesInv /\ [DevicesNext]_deviceVars => DevicesInv'
<1> SUFFICES ASSUME DevicesInv, [DevicesNext]_deviceVars PROVE DevicesInv'
  OBVIOUS
<1>0. DevicesTypeOK /\ PushesAreKept /\ RefusalsAreKnown /\ ValidAreRecorded
  BY DEF DevicesInv
<1>1. ASSUME NEW d \in Devices, activateTrustedDevice(d) PROVE DevicesInv'
  <2>1. PICK k \in TrustTokens :
          /\ age' = [age EXCEPT ![k] = "valid"] /\ unrecorded' = unrecorded \union {k}
          /\ device' = [device EXCEPT ![d] = Activated(device[d], k)]
    BY <1>1 DEF activateTrustedDevice
  <2>2. UNCHANGED <<tokenHistory, sender, refused, wanted>>
    BY <1>1 DEF activateTrustedDevice
  <2>3. Activated(device[d], k) \in DeviceRows /\ Activated(device[d], k).push = device[d].push
    <3>1. device[d] \in DeviceRows
      BY <1>0 DEF DevicesTypeOK
    <3> QED
      BY <3>1 DEF DeviceRows, Activated
  <2>4. device' \in [Devices -> DeviceRows] /\ \A e \in Devices : device'[e].push = device[e].push
    BY <1>0, <2>1, <2>3 DEF DevicesTypeOK
  <2> QED
    BY <1>0, <2>1, <2>2, <2>4
    DEF DevicesInv, DevicesTypeOK, PushesAreKept, RefusalsAreKnown, ValidAreRecorded
<1>2. ASSUME NEW d \in Devices,
             revokeById(d) \/ recordLoginObservation(d) \/ updateCountry(d)
      PROVE  DevicesInv'
  <2>1. device[d] \in DeviceRows
    BY <1>0 DEF DevicesTypeOK
  <2>2. PICK new \in DeviceRows : new.push = device[d].push /\ device' = [device EXCEPT ![d] = new]
    <3>1. CASE revokeById(d)
      BY <2>1, <3>1 DEF revokeById, Revoked, DeviceRows
    <3>2. CASE recordLoginObservation(d)
      BY <2>1, <3>2, IdleFacts DEF recordLoginObservation
    <3> QED
      BY <1>2, <3>1, <3>2 DEF updateCountry
  <2>3. UNCHANGED <<age, unrecorded, tokenHistory, sender, refused, wanted>>
    BY <1>2 DEF revokeById, recordLoginObservation, updateCountry
  <2> QED
    BY <1>0, <2>2, <2>3, PushesStay DEF DevicesTypeOK
<1>3. CASE revokeAllByUserId
  <2>1. device' = [d \in Devices |-> Revoked(device[d])]
    BY <1>3 DEF revokeAllByUserId, UpdateWhere
  <2>2. \A d \in Devices : device[d] \in DeviceRows
    BY <1>0 DEF DevicesTypeOK
  <2>3. \A d \in Devices : Revoked(device[d]) \in DeviceRows /\ Revoked(device[d]).push = device[d].push
    BY <2>2 DEF Revoked, DeviceRows
  <2>4. UNCHANGED <<age, unrecorded, tokenHistory, sender, refused, wanted>>
    BY <1>3 DEF revokeAllByUserId
  <2> QED
    BY <2>1, <2>3, <2>4, PushesStay
<1>4. ASSUME NEW d \in Devices, NEW t \in PushTokens, updateDeviceToken(d, t) PROVE DevicesInv'
  <2> DEFINE new == [device[d] EXCEPT !.push = t, !.idle = FALSE]
  <2>1. new \in DeviceRows /\ new.push = t
    BY <1>0 DEF DevicesTypeOK, DeviceRows
  <2>2. device' = [device EXCEPT ![d] = new] /\ wanted' = [wanted EXCEPT ![d] = t]
    BY <1>4 DEF updateDeviceToken
  <2>3. UNCHANGED <<age, unrecorded, tokenHistory, sender, refused>>
    BY <1>4 DEF updateDeviceToken
  <2> HIDE DEF new
  <2>4. DevicesTypeOK'
    BY <1>0, <2>1, <2>2, <2>3 DEF DevicesTypeOK
  <2>5. PushesAreKept'
    BY <1>0, <2>1, <2>2, <2>3 DEF DevicesTypeOK, PushesAreKept
  <2> QED
    BY <1>0, <2>3, <2>4, <2>5 DEF DevicesInv, RefusalsAreKnown, ValidAreRecorded
<1>5. ASSUME NEW d \in Devices, clearWithoutExpected(d) PROVE DevicesInv'
  <2>1. WithoutPush(device[d]) \in DeviceRows
    BY <1>0 DEF DevicesTypeOK, DeviceRows, WithoutPush
  <2>2. /\ device' = [device EXCEPT ![d] = WithoutPush(device[d])]
        /\ wanted' = [wanted EXCEPT ![d] = NoToken]
        /\ UNCHANGED <<age, unrecorded, tokenHistory, sender, refused>>
    BY <1>5 DEF clearWithoutExpected
  <2>3. DevicesTypeOK' /\ PushesAreKept'
    BY <1>0, <2>1, <2>2 DEF DevicesTypeOK, PushesAreKept
  <2> QED
    BY <1>0, <2>2, <2>3 DEF DevicesInv, RefusalsAreKnown, ValidAreRecorded
<1>6. CASE clearStaleDeviceTokens
  <2>1. \A d \in Devices : WithoutPush(device[d]) \in DeviceRows
    BY <1>0 DEF DevicesTypeOK, DeviceRows, WithoutPush
  <2>2. /\ device' = [d \in Devices |-> IF device[d].idle THEN WithoutPush(device[d]) ELSE device[d]]
        /\ wanted' = [d \in Devices |-> IF device[d].idle THEN NoToken ELSE wanted[d]]
        /\ UNCHANGED <<age, unrecorded, tokenHistory, sender, refused>>
    BY <1>6 DEF clearStaleDeviceTokens, UpdateWhere
  <2>3. DevicesTypeOK' /\ PushesAreKept'
    BY <1>0, <2>1, <2>2 DEF DevicesTypeOK, PushesAreKept
  <2> QED
    BY <1>0, <2>2, <2>3 DEF DevicesInv, RefusalsAreKnown, ValidAreRecorded
<1>7. ASSUME \/ \E k \in TrustTokens : add(k)
             \/ deleteExpiredBatch \/ UNCHANGED deviceVars
      PROVE  DevicesInv'
  BY <1>0, <1>7
  DEF add, deleteExpiredBatch, deviceVars, DevicesInv, DevicesTypeOK, PushesAreKept,
      RefusalsAreKnown, ValidAreRecorded
<1>8. CASE DeviceElapse
  <2>1. CASE \E d \in Devices : device' = [device EXCEPT ![d].idle = TRUE] /\ UNCHANGED age
    <3>1. PICK d \in Devices : device' = [device EXCEPT ![d] = [device[d] EXCEPT !.idle = TRUE]]
      BY <2>1
    <3>2. device[d] \in DeviceRows
      BY <1>0 DEF DevicesTypeOK
    <3>3. /\ [device[d] EXCEPT !.idle = TRUE] \in DeviceRows
          /\ [device[d] EXCEPT !.idle = TRUE].push = device[d].push
      BY <3>2, IdleFacts
    <3>4. device' \in [Devices -> DeviceRows] /\ \A e \in Devices : device'[e].push = device[e].push
      BY <1>0, <3>1, <3>3 DEF DevicesTypeOK
    <3>5. UNCHANGED <<age, unrecorded, tokenHistory, sender, refused, wanted>>
      BY <1>8, <2>1 DEF DeviceElapse
    <3> QED
      BY <3>4, <3>5, PushesStay
  <2>2. CASE /\ \E k \in TrustTokens : \/ age' = [age EXCEPT ![k] = "over"]
                                         \/ age' = [age EXCEPT ![k] = "old"]
             /\ UNCHANGED device
    <3>1. PICK k \in TrustTokens : \/ age' = [age EXCEPT ![k] = "over"]
                                   \/ age' = [age EXCEPT ![k] = "old"]
      BY <2>2
    <3>2. UNCHANGED <<unrecorded, tokenHistory, sender, refused, wanted>>
      BY <1>8 DEF DeviceElapse
    <3> QED
      BY <1>0, <2>2, <3>1, <3>2
      DEF DevicesInv, DevicesTypeOK, PushesAreKept, RefusalsAreKnown, ValidAreRecorded
  <2> QED
    BY <1>8, <2>1, <2>2 DEF DeviceElapse
<1>9. ASSUME NEW s \in Senders, findUsersDeviceToken(s) PROVE DevicesInv'
  <2> DEFINE found == {<<d, device[d].push>> : d \in {e \in Devices : device[e].push # NoToken}}
             new == [at |-> "sending", refused |-> {}, read |-> found]
  <2>1. found \subseteq RowPairs
    BY <1>0 DEF DevicesTypeOK, DeviceRows, RowPairs
  <2> HIDE DEF found
  <2>2. new \in SenderRecords /\ new.refused = {}
    BY <2>1 DEF SenderRecords
  <2>3. sender' = [sender EXCEPT ![s] = new]
    BY <1>9 DEF findUsersDeviceToken, found
  <2>4. UNCHANGED <<device, age, unrecorded, tokenHistory, refused, wanted>>
    BY <1>9 DEF findUsersDeviceToken
  <2> HIDE DEF new
  <2> QED
    BY <1>0, <2>2, <2>3, <2>4
    DEF DevicesInv, DevicesTypeOK, PushesAreKept, RefusalsAreKnown, ValidAreRecorded
<1>10. ASSUME NEW s \in Senders, Refuse(s) PROVE DevicesInv'
  <2>1. PICK dead \in SUBSET sender[s].read :
          /\ sender' = [sender EXCEPT ![s] =
               IF dead = {} THEN NoSender ELSE [@ EXCEPT !.at = "clearing", !.refused = dead]]
          /\ refused' = refused \union {pair[2] : pair \in dead}
    BY <1>10 DEF Refuse
  <2> DEFINE new == IF dead = {} THEN NoSender
                    ELSE [sender[s] EXCEPT !.at = "clearing", !.refused = dead]
  <2>2. new \in SenderRecords /\ new.refused = dead
    BY <1>0 DEF DevicesTypeOK, SenderRecords, NoSender
  <2>3. sender' = [sender EXCEPT ![s] = new]
    BY <2>1
  <2>4. UNCHANGED <<device, age, unrecorded, tokenHistory, wanted>>
    BY <1>10 DEF Refuse
  <2> HIDE DEF new
  <2>5. DevicesTypeOK' /\ RefusalsAreKnown'
    BY <1>0, <2>1, <2>2, <2>3, <2>4 DEF DevicesTypeOK, RefusalsAreKnown
  <2> QED
    BY <1>0, <2>1, <2>4, <2>5 DEF DevicesInv, PushesAreKept, ValidAreRecorded
<1>11. ASSUME NEW s \in Senders, clearDeviceTokens(s) PROVE DevicesInv'
  <2>1. \A d \in Devices : WithoutPush(device[d]) \in DeviceRows
    BY <1>0 DEF DevicesTypeOK, DeviceRows, WithoutPush
  <2>2. device' = [d \in Devices |-> IF Expected(d, sender[s].refused)
                                     THEN WithoutPush(device[d]) ELSE device[d]]
    BY <1>11 DEF clearDeviceTokens, UpdateWhere
  <2>3. /\ sender' = [sender EXCEPT ![s] = NoSender]
        /\ UNCHANGED <<age, unrecorded, tokenHistory, refused, wanted>>
    BY <1>11 DEF clearDeviceTokens
  <2>4. NoSender \in SenderRecords /\ NoSender.refused = {}
    BY DEF NoSender, SenderRecords
  <2>5. DevicesTypeOK' /\ RefusalsAreKnown'
    BY <1>0, <2>1, <2>2, <2>3, <2>4 DEF DevicesTypeOK, RefusalsAreKnown
  <2>6. \A d \in Devices : Expected(d, sender[s].refused) => device[d].push \in refused
    BY <1>0 DEF RefusalsAreKnown, Expected
  <2>7. PushesAreKept'
    BY <1>0, <2>2, <2>3, <2>6 DEF PushesAreKept
  <2> QED
    BY <1>0, <2>3, <2>5, <2>7 DEF DevicesInv, ValidAreRecorded
<1> QED
  BY <1>1, <1>2, <1>3, <1>4, <1>5, <1>6, <1>7, <1>8, <1>9, <1>10, <1>11 DEF DevicesNext, DeviceStep

LEMMA DevicesTheRest == [Next]_vars => [DevicesNext]_deviceVars
  BY DEF Next, SigningIn, ChangingRow, CountingPins, ChoosingLanguage, UsingDevices, vars, DevicesNext

\* No clean-up of device.ts or of the token history takes what a device still uses
\* (device.ts:205-224, device-trust-token-history.ts:26-42), whatever the rows,
\* the senders and the tokens.
THEOREM CleanupSparesLiveTokensHolds == Spec => []CleanupSparesLiveTokens
<1>1. Init => DevicesInv
  BY DevicesInitially DEF Init
<1>2. DevicesInv /\ [Next]_vars => DevicesInv'
  BY DevicesTheRest, DevicesInvStep
<1>3. DevicesInv => CleanupSparesLiveTokens
  BY DEF DevicesInv, PushesAreKept, ValidAreRecorded, CleanupSparesLiveTokens, isTrusted
<1> QED
  BY <1>1, <1>2, <1>3, PTL DEF Spec

-----------------------------------------------------------------------------
(* OAuth.                                                                  *)

Checking == {"verified", "unused"}
IsSignIn(r) ==
  /\ r \in [at : {r.at}, token : {r.token}, user : {r.user}]
  /\ r.at # "outside" => r.token \in Tokens

OAuthTypeOK ==
  /\ signIn = [s \in SignIns |-> signIn[s]] /\ \A s \in SignIns : IsSignIn(signIn[s])
  /\ clock \in [Tokens -> {"before", "in", "after"}]
  /\ accepted \in [Tokens -> Nat]

\* The connections say whose an identity is: they name one user for it, and who
\* has signed in, or is about to as "known", is whom they name.
IsConnected(identity, user) == \E k \in connections : k.identity = identity /\ k.user = user

ConnectionsDecide ==
  /\ \A j, k \in connections : j.identity = k.identity => j.user = k.user
  /\ \A x \in loggedIn : IsConnected(x[1], x[2])
  /\ \A s \in SignIns : At(s, "known") => IsConnected(Identity[Token(s)], signIn[s].user)

\* One sign-in at a time checks a token; once accepted, its key is there until its
\* exp; a sign-in that found no key has the first claim.
TokensAreFresh ==
  \A t \in Tokens \ tangled :
    /\ \A r, s \in UnderCheck(t) : r = s
    /\ accepted[t] <= 1
    /\ accepted[t] = 1 => t \in usedKeys \/ clock[t] # "before"
    /\ \A s \in UnderCheck(t) : At(s, "unused") => accepted[t] = 0

OAuthInv == OAuthTypeOK /\ ConnectionsDecide /\ TokensAreFresh

OAuthNext == OAuthElapse \/ \E s \in SignIns : SignInStep(s)

LEMMA OAuthInitially == OAuthInit => OAuthInv
<1> SUFFICES ASSUME OAuthInit PROVE OAuthInv
  OBVIOUS
<1>1. IsSignIn(Outside) /\ Outside.at = "outside"
  BY DEF IsSignIn, Outside
<1>2. /\ connections = {} /\ loggedIn = {} /\ clock = [t \in Tokens |-> "before"]
      /\ signIn = [s \in SignIns |-> Outside] /\ accepted = [t \in Tokens |-> 0]
  BY DEF OAuthInit
<1>3. OAuthTypeOK
  BY <1>1, <1>2 DEF OAuthTypeOK
<1>4. \A t \in Tokens : UnderCheck(t) = {}
  BY <1>1, <1>2 DEF UnderCheck
<1> QED
  BY <1>1, <1>2, <1>3, <1>4 DEF OAuthInv, ConnectionsDecide, TokensAreFresh, At

\* One sign-in's record is replaced.
LEMMA SignInReplaced ==
  ASSUME NEW s \in SignIns, NEW new, IsSignIn(new), OAuthTypeOK,
         signIn' = [signIn EXCEPT ![s] = new]
  PROVE  /\ signIn' = [r \in SignIns |-> signIn'[r]] /\ \A r \in SignIns : IsSignIn(signIn'[r])
         /\ signIn'[s] = new /\ \A r \in SignIns \ {s} : signIn'[r] = signIn[r]
<1>1. signIn = [r \in SignIns |-> signIn[r]]
  BY DEF OAuthTypeOK
<1>2. signIn' = [r \in SignIns |-> IF r = s THEN new ELSE signIn[r]]
  BY <1>1
<1> QED
  BY <1>2 DEF OAuthTypeOK

\* Where a step takes a sign-in; the others stay.
MovesTo(s, label, token, user) ==
  /\ signIn' = [r \in SignIns |-> signIn'[r]] /\ \A r \in SignIns : IsSignIn(signIn'[r])
  /\ signIn'[s].at = label /\ signIn'[s].token = token /\ signIn'[s].user = user
  /\ \A r \in SignIns \ {s} : signIn'[r] = signIn[r]

LEMMA GotoMoves ==
  ASSUME NEW s \in SignIns, NEW label, OAuthTypeOK, ~At(s, "outside"), Goto(s, label)
  PROVE  MovesTo(s, label, Token(s), signIn[s].user)
<1> DEFINE new == [signIn[s] EXCEPT !.at = label]
<1>1. IsSignIn(signIn[s]) /\ signIn[s].token \in Tokens
  BY DEF OAuthTypeOK, IsSignIn, At
<1>2. new.at = label /\ new.token = Token(s) /\ new.user = signIn[s].user /\ IsSignIn(new)
  BY <1>1 DEF IsSignIn, Token
<1>3. signIn' = [signIn EXCEPT ![s] = new]
  BY DEF Goto
<1> HIDE DEF new
<1> QED
  BY <1>2, <1>3, SignInReplaced DEF MovesTo

LEMMA FoundMoves ==
  ASSUME NEW s \in SignIns, NEW label, NEW user, OAuthTypeOK, ~At(s, "outside"),
         signIn' = [signIn EXCEPT ![s].at = label, ![s].user = user]
  PROVE  MovesTo(s, label, Token(s), user)
<1> DEFINE new == [signIn[s] EXCEPT !.at = label, !.user = user]
<1>1. IsSignIn(signIn[s]) /\ signIn[s].token \in Tokens
  BY DEF OAuthTypeOK, IsSignIn, At
<1>2. /\ new.at = label /\ new.token = Token(s) /\ new.user = user
      /\ new \in [at : {label}, token : {Token(s)}, user : {user}]
  BY <1>1 DEF IsSignIn, Token
<1>3. signIn' = [signIn EXCEPT ![s] = new]
  BY DEF OAuthTypeOK
<1> HIDE DEF new
<1>4. IsSignIn(new)
  BY <1>1, <1>2 DEF IsSignIn, Token
<1> QED
  BY <1>2, <1>3, <1>4, SignInReplaced DEF MovesTo

LEMMA EndsMoves ==
  ASSUME NEW s \in SignIns, OAuthTypeOK, Ends(s)
  PROVE  MovesTo(s, "outside", "none", Nobody)
<1>1. IsSignIn(Outside) /\ Outside.at = "outside" /\ Outside.token = "none" /\ Outside.user = Nobody
  BY DEF IsSignIn, Outside
<1> QED
  BY <1>1, SignInReplaced DEF Ends, MovesTo

\* A sign-in that is not about to check a token disturbs no other.
LEMMA PassesOn ==
  ASSUME OAuthInv, NEW s \in SignIns, NEW label, NEW token, NEW user,
         MovesTo(s, label, token, user), label \notin Checking,
         UNCHANGED <<usedKeys, clock, accepted, tangled>>
  PROVE  OAuthTypeOK' /\ TokensAreFresh'
<1>1. \A t \in Tokens : UnderCheck(t)' \subseteq UnderCheck(t) \ {s}
  BY DEF UnderCheck, Token, MovesTo, Checking
<1>2. OAuthTypeOK'
  BY DEF OAuthInv, OAuthTypeOK, MovesTo
<1>3. ASSUME NEW t \in Tokens, NEW r \in UnderCheck(t)' PROVE r \in UnderCheck(t) /\ signIn'[r] = signIn[r]
  BY <1>1 DEF UnderCheck, MovesTo
<1>4. TokensAreFresh'
  BY <1>3 DEF OAuthInv, TokensAreFresh, At
<1> QED
  BY <1>2, <1>4

\* The connections do not change.
LEMMA ConnectionsStay ==
  ASSUME ConnectionsDecide, NEW s \in SignIns, NEW label, NEW token, NEW user,
         MovesTo(s, label, token, user),
         label = "known" => IsConnected(Identity[token], user),
         UNCHANGED connections,
         \A x \in loggedIn' \ loggedIn : IsConnected(x[1], x[2])
  PROVE  ConnectionsDecide'
  BY DEF ConnectionsDecide, IsConnected, MovesTo, At, Token

\* A connection is made for an identity that has none, and its user signs in.
LEMMA ConnectionMade ==
  ASSUME ConnectionsDecide, NEW s \in SignIns, NEW user,
         createProviderConnectionIn([user |-> user, identity |-> Identity[Token(s)]]),
         LogIn(s, user), MovesTo(s, "outside", "none", Nobody)
  PROVE  ConnectionsDecide'
<1> DEFINE made == [user |-> user, identity |-> Identity[Token(s)]]
<1>1. made.user = user /\ made.identity = Identity[Token(s)]
  OBVIOUS
<1>2. /\ \A k \in connections : k.identity # made.identity
      /\ connections' = connections \union {made}
  BY DEF createProviderConnectionIn, ConnectionIsNew
<1>3. loggedIn' = loggedIn \union {<<made.identity, user>>}
  BY <1>1 DEF LogIn
<1> HIDE DEF made
<1>4. \A j, k \in connections' : j.identity = k.identity => j.user = k.user
  BY <1>2 DEF ConnectionsDecide
<1>5. \A identity, who : IsConnected(identity, who) => IsConnected(identity, who)'
  BY <1>2 DEF IsConnected
<1>6. \E k \in connections' : k.identity = made.identity /\ k.user = user
  BY <1>1, <1>2
<1>7. \A x \in loggedIn' : IsConnected(x[1], x[2])'
  <2> SUFFICES ASSUME NEW x \in loggedIn' PROVE IsConnected(x[1], x[2])'
    OBVIOUS
  <2>1. CASE x \in loggedIn
    BY <1>5, <2>1 DEF ConnectionsDecide
  <2>2. CASE x = <<made.identity, user>>
    BY <1>6, <2>2 DEF IsConnected
  <2> QED
    BY <1>3, <2>1, <2>2
<1>8. \A r \in SignIns : At(r, "known")' => At(r, "known") /\ signIn'[r] = signIn[r]
  BY DEF MovesTo, At
<1> QED
  BY <1>4, <1>5, <1>7, <1>8 DEF ConnectionsDecide, At, Token

LEMMA OAuthInvStep == OAuthInv /\ [OAuthNext]_oauthVars => OAuthInv'
<1> SUFFICES ASSUME OAuthInv, [OAuthNext]_oauthVars PROVE OAuthInv'
  OBVIOUS
<1>0. OAuthTypeOK /\ ConnectionsDecide /\ TokensAreFresh
  BY DEF OAuthInv
<1>1. ASSUME UNCHANGED <<connections, signIn, accepted, tangled, loggedIn>>,
             \/ UNCHANGED <<usedKeys, clock>>
             \/ \E t \in Tokens : Ages(t)
             \/ \E t \in Tokens : ExpireKey(t)
      PROVE  OAuthInv'
  <2>1. ConnectionsDecide'
    BY <1>0, <1>1 DEF ConnectionsDecide, IsConnected, At, Token
  <2>2. \A t \in Tokens : UnderCheck(t)' = UnderCheck(t)
    BY <1>1 DEF UnderCheck, Token
  <2>3. /\ clock' \in [Tokens -> {"before", "in", "after"}]
        /\ \A t \in Tokens : clock[t] # "before" => clock'[t] # "before"
    BY <1>0, <1>1 DEF OAuthTypeOK, Ages, ExpireKey
  <2>4. \A t \in Tokens : t \in usedKeys => t \in usedKeys' \/ clock'[t] # "before"
    BY <1>0, <1>1 DEF OAuthTypeOK, Ages, ExpireKey, KeyRunsOut
  <2>5. TokensAreFresh'
    BY <1>0, <1>1, <2>2, <2>3, <2>4 DEF TokensAreFresh, At
  <2> QED
    BY <1>0, <1>1, <2>1, <2>3, <2>5 DEF OAuthInv, OAuthTypeOK
<1>2. ASSUME NEW s \in SignIns, NEW t \in Tokens, Present(s, t) PROVE OAuthInv'
  <2>1. UNCHANGED <<connections, usedKeys, clock, accepted, loggedIn>> /\ At(s, "outside")
    BY <1>2 DEF Present
  <2>2. CASE ~Verified(t)
    BY <1>1, <1>2, <2>1, <2>2 DEF Present
  <2>3. CASE Verified(t)
    <3> DEFINE new == [at |-> "verified", token |-> t, user |-> Nobody]
    <3>1. /\ IsSignIn(new) /\ new.at = "verified" /\ new.token = t /\ new.user = Nobody
      BY DEF IsSignIn
    <3>2. /\ signIn' = [signIn EXCEPT ![s] = new]
          /\ tangled' = IF UnderCheck(t) # {} THEN tangled \union {t} ELSE tangled
      BY <1>2, <2>3 DEF Present
    <3> HIDE DEF new
    <3>3. MovesTo(s, "verified", t, Nobody)
      BY <1>0, <3>1, <3>2, SignInReplaced DEF MovesTo
    <3>4. OAuthTypeOK' /\ ConnectionsDecide'
      BY <1>0, <2>1, <3>3, ConnectionsStay DEF OAuthTypeOK, MovesTo
    <3>5. \A k \in Tokens : UnderCheck(k)' = IF k = t THEN UnderCheck(k) \union {s} ELSE UnderCheck(k)
      BY <2>1, <3>3 DEF UnderCheck, Token, At, MovesTo
    <3>6. \A r \in SignIns : At(r, "unused")' => At(r, "unused") /\ r # s
      BY <3>3 DEF At, MovesTo
    <3>7. ASSUME NEW k \in Tokens \ tangled', k # t
          PROVE  k \notin tangled /\ UnderCheck(k)' = UnderCheck(k)
      BY <3>2, <3>5, <3>7
    <3>8. t \notin tangled' => t \notin tangled /\ UnderCheck(t)' = {s}
      BY <3>2, <3>5
    <3>9. \A r \in UnderCheck(t)' : r \in SignIns
      BY DEF UnderCheck
    <3>10. TokensAreFresh'
      BY <1>0, <2>1, <3>6, <3>7, <3>8, <3>9 DEF TokensAreFresh, UnderCheck
    <3> QED
      BY <3>4, <3>10 DEF OAuthInv
  <2> QED
    BY <2>2, <2>3
<1>3. ASSUME NEW s \in SignIns, isTokenUsed(s) PROVE OAuthInv'
  <2>1. UNCHANGED <<connections, usedKeys, clock, accepted, loggedIn>> /\ At(s, "verified")
    BY <1>3 DEF isTokenUsed
  <2>2. CASE Ends(s) /\ UNCHANGED tangled
    BY <1>0, <2>1, <2>2, EndsMoves, PassesOn, ConnectionsStay DEF OAuthInv, Checking
  <2>3. CASE /\ Token(s) \notin usedKeys /\ Goto(s, "unused")
             /\ tangled' = IF clock[Token(s)] = "before" THEN tangled
                           ELSE tangled \union {Token(s)}
    <3>1. MovesTo(s, "unused", Token(s), signIn[s].user)
      BY <1>0, <2>1, <2>3, GotoMoves DEF At
    <3>2. OAuthTypeOK' /\ ConnectionsDecide'
      BY <1>0, <2>1, <3>1, ConnectionsStay DEF OAuthTypeOK, MovesTo
    <3>3. \A k \in Tokens : UnderCheck(k)' = UnderCheck(k)
      BY <2>1, <3>1 DEF UnderCheck, Token, At, MovesTo
    <3>4. \A r \in SignIns : At(r, "unused")' => At(r, "unused") \/ r = s
      BY <3>1 DEF At, MovesTo
    <3>5. ASSUME NEW k \in Tokens \ tangled' PROVE k \notin tangled /\ (s \in UnderCheck(k) => accepted[k] = 0)
      <4>1. k \notin tangled
        BY <2>3
      <4>2. CASE s \in UnderCheck(k)
        <5>1. k = Token(s) /\ clock[k] = "before" /\ k \notin usedKeys
          BY <2>3, <4>2 DEF UnderCheck
        <5>2. accepted[k] <= 1 /\ accepted[k] # 1 /\ accepted[k] \in Nat
          BY <1>0, <4>1, <5>1 DEF TokensAreFresh, OAuthTypeOK
        <5> QED
          BY <4>1, <5>2
      <4> QED
        BY <4>1, <4>2
    <3>6. TokensAreFresh'
      BY <1>0, <2>1, <3>3, <3>4, <3>5 DEF TokensAreFresh, UnderCheck
    <3> QED
      BY <3>2, <3>6 DEF OAuthInv
  <2> QED
    BY <1>3, <2>2, <2>3 DEF isTokenUsed
<1>4. ASSUME NEW s \in SignIns, markTokenAsUsed(s) PROVE OAuthInv'
  <2>1. UNCHANGED <<connections, clock, loggedIn>> /\ At(s, "unused") /\ Goto(s, "marked")
    BY <1>4 DEF markTokenAsUsed
  <2>2. \/ usedKeys' = usedKeys \union {Token(s)} /\ UNCHANGED tangled
        \/ tangled' = tangled \union {Token(s)} /\ UNCHANGED usedKeys
    BY <1>4 DEF markTokenAsUsed
  <2>3. MovesTo(s, "marked", Token(s), signIn[s].user)
    BY <1>0, <2>1, GotoMoves DEF At
  <2>4. Token(s) \in Tokens /\ s \in UnderCheck(Token(s))
    BY <1>0, <2>1 DEF OAuthTypeOK, IsSignIn, At, Token, UnderCheck
  <2>5. accepted' = [accepted EXCEPT ![Token(s)] = accepted[Token(s)] + 1]
    BY <1>4 DEF markTokenAsUsed
  <2>6. accepted' \in [Tokens -> Nat]
    BY <1>0, <2>4, <2>5 DEF OAuthTypeOK
  <2>7. OAuthTypeOK' /\ ConnectionsDecide'
    BY <1>0, <2>1, <2>3, <2>6, ConnectionsStay DEF OAuthTypeOK, MovesTo
  <2>8. \A k \in Tokens : UnderCheck(k)' = UnderCheck(k) \ {s}
    BY <2>1, <2>3 DEF UnderCheck, Token, At, MovesTo
  <2>9. \A k \in Tokens : \A r \in UnderCheck(k)' : At(r, "unused")' => At(r, "unused")
    BY <2>3, <2>8 DEF At, MovesTo, UnderCheck
  <2>10. ASSUME NEW k \in Tokens \ tangled'
         PROVE  /\ \A r, q \in UnderCheck(k)' : r = q
                /\ accepted'[k] <= 1
                /\ accepted'[k] = 1 => k \in usedKeys' \/ clock'[k] # "before"
                /\ \A r \in UnderCheck(k)' : At(r, "unused")' => accepted'[k] = 0
    <3>1. k \notin tangled
      BY <2>2
    <3>2. CASE k = Token(s)
      <4>1. accepted[k] = 0
        BY <1>0, <2>1, <2>4, <3>1, <3>2 DEF TokensAreFresh
      <4>2. accepted'[k] = 1 /\ k \in usedKeys'
        BY <1>0, <2>2, <2>4, <2>5, <3>2, <4>1 DEF OAuthTypeOK
      <4>3. UnderCheck(k)' = {}
        BY <1>0, <2>4, <2>8, <3>1, <3>2 DEF TokensAreFresh
      <4> QED
        BY <4>2, <4>3
    <3>3. CASE k # Token(s)
      <4>1. accepted'[k] = accepted[k] /\ (k \in usedKeys => k \in usedKeys')
        BY <1>0, <2>2, <2>4, <2>5, <3>3 DEF OAuthTypeOK
      <4> QED
        BY <1>0, <2>1, <2>8, <2>9, <3>1, <4>1 DEF TokensAreFresh
    <3> QED
      BY <3>2, <3>3
  <2> QED
    BY <2>7, <2>10 DEF OAuthInv, TokensAreFresh
<1>5. ASSUME NEW s \in SignIns, FindConnection(s) PROVE OAuthInv'
  <2>1. ~At(s, "outside") /\ UNCHANGED <<connections, usedKeys, clock, accepted, tangled, loggedIn>>
    BY <1>5 DEF FindConnection, At
  <2>2. CASE Ends(s)
    BY <1>0, <2>1, <2>2, EndsMoves, PassesOn, ConnectionsStay DEF OAuthInv, Checking
  <2>3. CASE Goto(s, "unknown")
    BY <1>0, <2>1, <2>3, GotoMoves, PassesOn, ConnectionsStay DEF OAuthInv, Checking
  <2>4. CASE \E k \in ConnectionsOf(Identity[Token(s)]) :
               signIn' = [signIn EXCEPT ![s].at = "known", ![s].user = k.user]
    <3>1. PICK k \in ConnectionsOf(Identity[Token(s)]) :
               signIn' = [signIn EXCEPT ![s].at = "known", ![s].user = k.user]
      BY <2>4
    <3>2. MovesTo(s, "known", Token(s), k.user)
      BY <1>0, <2>1, <3>1, FoundMoves
    <3>3. IsConnected(Identity[Token(s)], k.user)
      BY DEF IsConnected, ConnectionsOf
    <3> QED
      BY <1>0, <2>1, <3>2, <3>3, PassesOn, ConnectionsStay DEF OAuthInv, Checking
  <2> QED
    BY <1>5, <2>2, <2>3, <2>4 DEF FindConnection
<1>6. ASSUME NEW s \in SignIns, updateTokens(s) PROVE OAuthInv'
  <2>1. /\ UNCHANGED <<connections, usedKeys, clock, accepted, tangled>>
        /\ MovesTo(s, "outside", "none", Nobody)
    BY <1>0, <1>6, EndsMoves DEF updateTokens
  <2>2. \A x \in loggedIn' \ loggedIn : IsConnected(x[1], x[2])
    BY <1>0, <1>6 DEF updateTokens, LogIn, ConnectionsDecide
  <2> QED
    BY <1>0, <2>1, <2>2, PassesOn, ConnectionsStay DEF OAuthInv, Checking
<1>7. ASSUME NEW s \in SignIns, FindUser(s) PROVE OAuthInv'
  <2>1. ~At(s, "outside") /\ UNCHANGED <<connections, usedKeys, clock, accepted, tangled, loggedIn>>
    BY <1>7 DEF FindUser, At
  <2>2. CASE Goto(s, "creating")
    BY <1>0, <2>1, <2>2, GotoMoves, PassesOn, ConnectionsStay DEF OAuthInv, Checking
  <2>3. ASSUME NEW id, signIn' = [signIn EXCEPT ![s].at = "linking", ![s].user = id]
        PROVE  OAuthInv'
    <3>1. MovesTo(s, "linking", Token(s), id)
      BY <1>0, <2>1, <2>3, FoundMoves
    <3> QED
      BY <1>0, <2>1, <3>1, PassesOn, ConnectionsStay DEF OAuthInv, Checking
  <2> QED
    BY <1>7, <2>2, <2>3 DEF FindUser
<1>8. ASSUME NEW s \in SignIns, SignInFails(s) PROVE OAuthInv'
  BY <1>0, <1>8, EndsMoves, PassesOn, ConnectionsStay DEF SignInFails, OAuthInv, Checking
<1>9. ASSUME NEW s \in SignIns, Link(s) \/ createUserWithProvider(s) PROVE OAuthInv'
  <2>1. /\ UNCHANGED <<usedKeys, clock, accepted, tangled>>
        /\ MovesTo(s, "outside", "none", Nobody)
    BY <1>0, <1>9, EndsMoves DEF Link, createUserWithProvider
  <2>2. PICK user : /\ createProviderConnectionIn([user |-> user, identity |-> Identity[Token(s)]])
                    /\ LogIn(s, user)
    BY <1>9 DEF Link, createUserWithProvider
  <2> QED
    BY <1>0, <2>1, <2>2, PassesOn, ConnectionMade DEF OAuthInv, Checking
<1>10. ASSUME OAuthElapse \/ UNCHANGED oauthVars PROVE OAuthInv'
  BY <1>1, <1>10 DEF OAuthElapse, signup, Named, Ages, ExpireKey, oauthVars
<1> QED
  BY <1>2, <1>3, <1>4, <1>5, <1>6, <1>7, <1>8, <1>9, <1>10 DEF OAuthNext, SignInStep

LEMMA OAuthTheRest == [Next]_vars => [OAuthNext]_oauthVars
  BY DEF Next, SigningIn, ChangingRow, CountingPins, ChoosingLanguage, UsingDevices, vars, OAuthNext

LEMMA OAuthInvHolds == Spec => []OAuthInv
<1>1. Init => OAuthInv
  BY OAuthInitially DEF Init
<1>2. OAuthInv /\ [Next]_vars => OAuthInv'
  BY OAuthTheRest, OAuthInvStep
<1> QED
  BY <1>1, <1>2, PTL DEF Spec

\* An identity always signs in as the same user (oauth.service.ts:38-79), for any
\* number of sign-ins, tokens, identities and addresses.
THEOREM OneAccountPerIdentityHolds == Spec => []OneAccountPerIdentity
<1>1. OAuthInv => OneAccountPerIdentity
  BY DEF OAuthInv, ConnectionsDecide, IsConnected, OneAccountPerIdentity
<1> QED
  BY <1>1, OAuthInvHolds, PTL

\* A token that nobody presented twice at once, and whose key was written, is
\* accepted once (passport.ts:40-84), whenever the key and the token run out.
THEOREM TokenAcceptedOnceHolds == Spec => []TokenAcceptedOnce
<1>1. OAuthInv => TokenAcceptedOnce
  BY DEF OAuthInv, TokensAreFresh, TokenAcceptedOnce
<1> QED
  BY <1>1, OAuthInvHolds, PTL

-----------------------------------------------------------------------------
(* The user's row.                                                         *)

ChangeRecords ==
  [at : {"idle", "adding", "restoring"}, upload : Nat, read : Seq(Nat)]

RowTypeOK ==
  /\ avatar \in Nat /\ current \in Nat /\ uploads \in Nat
  /\ history \in Seq(Nat) /\ stored \in Seq(Nat)
  /\ given \in Nat /\ overwritten \in BOOLEAN
  /\ change \in [Changes -> ChangeRecords]

\* Who is in a transaction holds the row, and what he read of it still stands.
ReadersHoldTheRow ==
  \A c \in Changes : ~ChangeAt(c, "idle") => lockedBy = c /\ change[c].read = history

\* The history is the end of what was stored, place by place; all that the last
\* updateAvatar wrote was stored.
HistoryIsTheEnd ==
  /\ given <= Len(stored)
  /\ Len(history) = Kept
  /\ \A i \in 1..Len(history) : history[i] = stored[Len(stored) - Len(history) + i]

CurrentIsKept == current # 0 /\ ~overwritten => current = avatar /\ avatar \in Range(history)

RowInv == RowTypeOK /\ ReadersHoldTheRow /\ HistoryIsTheEnd /\ CurrentIsKept

RowNext == DeletionStep \/ OverwriteStep \/ \E c \in Changes : ChangeStep(c)

LEMMA KeptFacts ==
  ASSUME RowTypeOK
  PROVE  /\ Len(stored) \in Nat /\ Limit \in Nat /\ Kept \in Nat
         /\ Limit >= MAX_HISTORY_SIZE /\ Limit >= given /\ Limit \in {MAX_HISTORY_SIZE, given}
         /\ Kept <= Limit /\ Kept <= Len(stored) /\ Kept \in {Limit, Len(stored)}
  BY HistoryAssumption DEF RowTypeOK, Limit, Kept

LEMMA RowInitially == RowInit => RowInv
<1> SUFFICES ASSUME RowInit PROVE RowInv
  OBVIOUS
<1>1. NoChange \in ChangeRecords /\ NoChange.at = "idle"
  BY DEF NoChange, ChangeRecords
<1>2. overwritten \in BOOLEAN
  BY Zenon DEF RowInit
<1>3. RowTypeOK
  BY <1>1, <1>2 DEF RowInit, RowTypeOK
<1>4. Kept = 0
  BY <1>3, KeptFacts DEF RowInit
<1> QED
  BY <1>1, <1>3, <1>4
  DEF RowInit, RowInv, ReadersHoldTheRow, HistoryIsTheEnd, CurrentIsKept, ChangeAt

\* One transaction's record is replaced.
LEMMA ChangeReplaced ==
  ASSUME NEW c \in Changes, NEW new \in ChangeRecords, RowTypeOK,
         change' = [change EXCEPT ![c] = new]
  PROVE  /\ change' \in [Changes -> ChangeRecords] /\ change'[c] = new
         /\ \A d \in Changes \ {c} : change'[d] = change[d]
  BY DEF RowTypeOK

LEMMA ChangeEndsFacts ==
  ASSUME NEW c \in Changes, RowTypeOK, ReadersHoldTheRow, ~ChangeAt(c, "idle"), ChangeEnds(c)
  PROVE  /\ change' \in [Changes -> ChangeRecords]
         /\ \A d \in Changes : ChangeAt(d, "idle")'
<1>1. NoChange \in ChangeRecords /\ NoChange.at = "idle"
  BY DEF NoChange, ChangeRecords
<1>2. /\ change' \in [Changes -> ChangeRecords] /\ change'[c] = NoChange
      /\ \A d \in Changes \ {c} : change'[d] = change[d]
  BY <1>1, ChangeReplaced DEF ChangeEnds
<1>3. \A d \in Changes \ {c} : ChangeAt(d, "idle")
  BY DEF ReadersHoldTheRow
<1> QED
  BY <1>1, <1>2, <1>3 DEF ChangeAt

\* What Pushed makes of a history: the upload goes to the end, and at the limit the
\* oldest goes.
LEMMA PushedFacts ==
  ASSUME NEW read \in Seq(Nat), NEW upload \in Nat
  PROVE  LET pushed == Pushed(read, upload)
             gone == IF Len(read) >= MAX_HISTORY_SIZE THEN 1 ELSE 0
         IN  /\ pushed \in Seq(Nat) /\ Len(pushed) = Len(read) + 1 - gone
             /\ pushed[Len(pushed)] = upload
             /\ \A i \in 1..(Len(pushed) - 1) : pushed[i] = read[i + gone]
<1> USE HistoryAssumption
<1>1. CASE Len(read) >= MAX_HISTORY_SIZE
  <2> DEFINE rest == Tail(read)
  <2>1. /\ rest \in Seq(Nat) /\ Len(rest) = Len(read) - 1
        /\ \A i \in 1..Len(rest) : rest[i] = read[i + 1]
    BY <1>1, HeadTailProperties
  <2>2. Pushed(read, upload) = Append(rest, upload)
    BY <1>1 DEF Pushed
  <2> HIDE DEF rest
  <2>3. /\ Append(rest, upload) \in Seq(Nat) /\ Len(Append(rest, upload)) = Len(read)
        /\ Append(rest, upload)[Len(read)] = upload
        /\ \A i \in 1..Len(rest) : Append(rest, upload)[i] = rest[i]
    BY <1>1, <2>1, AppendProperties
  <2> QED
    BY <1>1, <2>1, <2>2, <2>3
<1>2. CASE Len(read) < MAX_HISTORY_SIZE
  <2>1. Pushed(read, upload) = Append(read, upload)
    BY <1>2 DEF Pushed
  <2> QED
    BY <1>2, <2>1, AppendProperties
<1> QED
  BY <1>1, <1>2

LEMMA RowInvStep == RowInv /\ [RowNext]_rowVars => RowInv'
<1> SUFFICES ASSUME RowInv, [RowNext]_rowVars PROVE RowInv'
  OBVIOUS
<1>0. RowTypeOK /\ ReadersHoldTheRow /\ HistoryIsTheEnd /\ CurrentIsKept
  BY DEF RowInv
<1>1. CASE DeletionStep \/ UNCHANGED rowVars
  <2>1. UNCHANGED <<avatarVars, lockedBy, change, uploads>>
    BY <1>1 DEF DeletionStep, setPendingDeletion, cancelPendingDeletion, DeletionFallsDue,
                archiveDueBatch, rowVars, avatarVars
  <2> QED
    BY <1>0, <2>1
    DEF avatarVars, RowInv, RowTypeOK, ReadersHoldTheRow, HistoryIsTheEnd, CurrentIsKept, ChangeAt,
        Kept, Limit
<1>2. ASSUME NEW c \in Changes, NEW label \in {"adding", "restoring"}, NEW upload \in Nat,
             Lock(c, label, upload), uploads' \in Nat
      PROVE  RowInv'
  <2> DEFINE new == [at |-> label, upload |-> upload, read |-> history]
  <2>1. new \in ChangeRecords /\ new.at # "idle" /\ new.read = history
    BY <1>0 DEF ChangeRecords, RowTypeOK
  <2>2. /\ change' = [change EXCEPT ![c] = new] /\ lockedBy = NoOne /\ lockedBy' = c
        /\ UNCHANGED avatarVars
    BY <1>2 DEF Lock, RowIsFree
  <2> HIDE DEF new
  <2>3. \A d \in Changes : ChangeAt(d, "idle")
    BY <1>0, <2>2, HistoryAssumption DEF ReadersHoldTheRow
  <2>4. /\ change' \in [Changes -> ChangeRecords] /\ change'[c] = new
        /\ \A d \in Changes \ {c} : change'[d] = change[d]
    BY <1>0, <2>1, <2>2, ChangeReplaced
  <2>5. ReadersHoldTheRow'
    BY <2>1, <2>2, <2>3, <2>4 DEF ReadersHoldTheRow, ChangeAt, avatarVars
  <2> QED
    BY <1>0, <1>2, <2>2, <2>4, <2>5
    DEF avatarVars, RowInv, RowTypeOK, HistoryIsTheEnd, CurrentIsKept, Kept, Limit
<1>3. ASSUME NEW c \in Changes, Added(c) PROVE RowInv'
  <2> DEFINE upload == change[c].upload
             pushed == Pushed(history, upload)
             gone == IF Len(history) >= MAX_HISTORY_SIZE THEN 1 ELSE 0
  <2>1. ~ChangeAt(c, "idle") /\ change[c].read = history /\ upload \in Nat
    BY <1>0, <1>3 DEF Added, ChangeAt, ReadersHoldTheRow, RowTypeOK, ChangeRecords
  <2>2. /\ history' = pushed /\ current' = upload /\ avatar' = upload
        /\ stored' = Append(stored, upload)
        /\ uploads' = uploads /\ given' = given /\ overwritten' = FALSE
    BY <1>3, <2>1 DEF Added
  <2>3. /\ change' \in [Changes -> ChangeRecords]
        /\ \A d \in Changes : ChangeAt(d, "idle")'
    BY <1>0, <1>3, <2>1, ChangeEndsFacts DEF Added
  <2>4. /\ pushed \in Seq(Nat) /\ Len(pushed) = Len(history) + 1 - gone
        /\ pushed[Len(pushed)] = upload
        /\ \A i \in 1..(Len(pushed) - 1) : pushed[i] = history[i + gone]
    BY <1>0, <2>1, PushedFacts DEF RowTypeOK, HistoryIsTheEnd
  <2>5. /\ stored' \in Seq(Nat) /\ Len(stored') = Len(stored) + 1
        /\ stored'[Len(stored) + 1] = upload
        /\ \A i \in 1..Len(stored) : stored'[i] = stored[i]
    BY <1>0, <2>1, <2>2, AppendProperties DEF RowTypeOK
  <2>6. Len(history) \in Nat /\ Len(stored) \in Nat /\ Len(pushed) \in Nat \ {0}
    BY <1>0, <2>4, HistoryAssumption DEF RowTypeOK
  <2> HIDE DEF pushed, upload
  <2>7. RowTypeOK' /\ ReadersHoldTheRow'
    BY <1>0, <2>1, <2>2, <2>3, <2>4, <2>5 DEF RowTypeOK, ReadersHoldTheRow
  <2>8. HistoryIsTheEnd'
    <3>1. given <= Len(stored) + 1 /\ Len(pushed) <= Len(stored) + 1 /\ Len(pushed) = Kept'
      <4>1. Limit' = Limit
        BY <2>2 DEF Limit
      <4>2. /\ Len(history) = Kept /\ given <= Len(stored)
            /\ Kept' = IF Len(stored) + 1 < Limit THEN Len(stored) + 1 ELSE Limit
        BY <1>0, <2>5, <4>1 DEF HistoryIsTheEnd, Kept
      <4> QED
        BY <1>0, <2>4, <2>6, <4>2, KeptFacts, HistoryAssumption DEF RowTypeOK
    <3>2. ASSUME NEW i \in 1..Len(pushed)
          PROVE  pushed[i] = stored'[Len(stored) + 1 - Len(pushed) + i]
      <4>1. CASE i = Len(pushed)
        <5>1. Len(stored) + 1 - Len(pushed) + i = Len(stored) + 1
          BY <2>6, <4>1
        <5> QED
          BY <2>4, <2>5, <4>1, <5>1
      <4>2. CASE i # Len(pushed)
        <5>1. i + gone \in 1..Len(history) /\ pushed[i] = history[i + gone]
          BY <2>4, <2>6, <4>2
        <5>2. history[i + gone] = stored[Len(stored) - Len(history) + (i + gone)]
          BY <1>0, <5>1 DEF HistoryIsTheEnd
        <5>3. /\ Len(stored) - Len(history) + (i + gone) = Len(stored) + 1 - Len(pushed) + i
              /\ Len(stored) - Len(history) + (i + gone) \in 1..Len(stored)
          BY <1>0, <2>4, <2>6, <5>1, KeptFacts DEF HistoryIsTheEnd
        <5> QED
          BY <2>5, <5>1, <5>2, <5>3
      <4> QED
        BY <4>1, <4>2
    <3>3. ASSUME NEW i \in 1..Len(history')
          PROVE  history'[i] = stored'[Len(stored') - Len(history') + i]
      <4>1. i \in 1..Len(pushed) /\ history'[i] = pushed[i] /\ Len(history') = Len(pushed)
        BY <2>2, <3>3
      <4>2. Len(stored') - Len(history') + i = Len(stored) + 1 - Len(pushed) + i
        BY <2>5, <4>1
      <4> QED
        BY <3>2, <4>1, <4>2
    <3> QED
      BY <2>2, <2>5, <3>1, <3>3 DEF HistoryIsTheEnd
  <2>9. CurrentIsKept'
    <3>1. Len(pushed) \in DOMAIN pushed
      BY <2>4, <2>6
    <3>2. upload \in Range(pushed)
      BY <2>4, <3>1 DEF Range
    <3> QED
      BY <2>2, <3>2 DEF CurrentIsKept
  <2> QED
    BY <2>7, <2>8, <2>9 DEF RowInv
<1>4. ASSUME NEW c \in Changes, Restored(c) \/ RollBack(c) PROVE RowInv'
  <2>1. ~ChangeAt(c, "idle") /\ ChangeEnds(c) /\ UNCHANGED <<stored, uploads, given>>
    BY <1>4 DEF Restored, RollBack, ChangeAt, avatarVars
  <2>2. change[c].read = history /\ change[c].upload \in Nat
    BY <1>0, <2>1 DEF ReadersHoldTheRow, RowTypeOK, ChangeRecords
  <2>3. /\ history' = history
        /\ \/ UNCHANGED <<current, avatar, overwritten>>
           \/ /\ change[c].upload \in Range(history) /\ overwritten' = FALSE
              /\ current' = change[c].upload /\ avatar' = change[c].upload
    BY <1>4, <2>2 DEF Restored, RollBack, avatarVars
  <2>4. /\ change' \in [Changes -> ChangeRecords]
        /\ \A d \in Changes : ChangeAt(d, "idle")'
    BY <1>0, <2>1, ChangeEndsFacts
  <2> QED
    BY <1>0, <2>1, <2>2, <2>3, <2>4
    DEF RowInv, RowTypeOK, ReadersHoldTheRow, HistoryIsTheEnd, CurrentIsKept, Kept, Limit
<1>5. ASSUME NEW c \in Changes, ChangeStep(c) PROVE RowInv'
  <2>1. CASE addAvatarToHistory(c)
    BY <1>0, <1>2, <2>1 DEF addAvatarToHistory, RowTypeOK
  <2>2. ASSUME NEW upload \in (1..uploads) \union Range(history),
               restoreAvatarFromHistory(c, upload)
        PROVE  RowInv'
    <3>1. upload \in Nat
      BY <1>0 DEF RowTypeOK, Range
    <3> QED
      BY <1>0, <1>2, <2>2, <3>1 DEF restoreAvatarFromHistory, RowTypeOK
  <2> QED
    BY <1>3, <1>4, <1>5, <2>1, <2>2 DEF ChangeStep
<1>6. ASSUME NEW o \in Overwrites, updateAvatar(o) PROVE RowInv'
  <2>1. o.avatar \in Nat /\ o.current \in Nat /\ o.history \in Seq(Nat)
    BY HistoryAssumption
  <2>2. /\ avatar' = o.avatar /\ current' = o.current /\ history' = o.history
        /\ stored' = o.history /\ given' = Len(o.history) /\ overwritten' = TRUE
        /\ lockedBy = NoOne /\ UNCHANGED <<lockedBy, change, uploads>>
    BY <1>6 DEF updateAvatar
  <2>3. RowTypeOK'
    BY <1>0, <2>1, <2>2 DEF RowTypeOK
  <2>4. \A c \in Changes : ChangeAt(c, "idle") /\ ChangeAt(c, "idle")'
    BY <1>0, <2>2, HistoryAssumption DEF ReadersHoldTheRow, ChangeAt
  <2>5. Kept' = Len(o.history)
    BY <2>1, <2>2, HistoryAssumption DEF Kept, Limit
  <2> QED
    BY <2>1, <2>2, <2>3, <2>4, <2>5
    DEF RowInv, ReadersHoldTheRow, HistoryIsTheEnd, CurrentIsKept
<1> QED
  BY <1>1, <1>5, <1>6 DEF RowNext, OverwriteStep

LEMMA RowTheRest == [Next]_vars => [RowNext]_rowVars
  BY DEF Next, SigningIn, ChangingRow, CountingPins, ChoosingLanguage, UsingDevices, vars, RowNext

\* From one updateAvatar (user.ts:282-285) to the next, whatever it writes, the avatar
\* history is the end of what was stored: no overlapping change loses an upload
\* (user.ts:296-405), whatever its size and however many change it.
THEOREM AvatarHistoryIsKeptHolds == Spec => []AvatarHistoryIsKept
<1>1. Init => RowInv
  BY RowInitially DEF Init
<1>2. RowInv /\ [Next]_vars => RowInv'
  BY RowTheRest, RowInvStep
<1>3. RowInv => AvatarHistoryIsKept
  <2> SUFFICES ASSUME RowInv PROVE AvatarHistoryIsKept
    OBVIOUS
  <2> DEFINE first == 1 + Len(stored) - Len(history)
             end == SubSeq(stored, first, Len(stored))
  <2>1. /\ history \in Seq(Nat) /\ stored \in Seq(Nat) /\ Len(history) = Kept
        /\ Len(history) \in Nat /\ Len(stored) \in Nat /\ Len(history) <= Len(stored)
    BY KeptFacts DEF RowInv, RowTypeOK, HistoryIsTheEnd
  <2>2. first \in Int /\ Len(stored) \in Int /\ \A i \in first..Len(stored) : stored[i] \in Nat
    BY <2>1, ElementOfSeq
  <2>3. /\ end \in Seq(Nat)
        /\ Len(end) = IF first <= Len(stored) THEN Len(stored) - first + 1 ELSE 0
        /\ \A i \in 1..(Len(stored) - first + 1) : end[i] = stored[first + i - 1]
    BY <2>2, SubSeqProperties
  <2>4. Len(end) = Len(history) /\ Len(stored) - first + 1 = Len(history)
    BY <2>1, <2>3
  <2>5. ASSUME NEW i \in 1..Len(history) PROVE history[i] = end[i]
    <3>1. first + i - 1 = Len(stored) - Len(history) + i
      BY <2>1
    <3> QED
      BY <2>3, <2>4, <2>5, <3>1 DEF RowInv, HistoryIsTheEnd
  <2> HIDE DEF end
  <2>6. history = end
    BY <2>1, <2>3, <2>4, <2>5, SeqEqual
  <2> QED
    BY <2>1, <2>6 DEF end, RowInv, CurrentIsKept, AvatarHistoryIsKept
<1> QED
  BY <1>1, <1>2, <1>3, PTL DEF Spec
=============================================================================
