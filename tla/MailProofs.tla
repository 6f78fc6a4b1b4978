----------------------------- MODULE MailProofs -----------------------------
(***************************************************************************)
(* Proofs about MailPath, for any number of calls, webhook calls, messages *)
(* and events and any size of the cache; and about EmailDelivery, for any  *)
(* order of providers, number of calls in flight and threshold.            *)
(***************************************************************************)
EXTENDS MailPath, EmailDelivery, SequenceTheorems, FiniteSetTheorems, WellFoundedInduction, TLAPS

-----------------------------------------------------------------------------
(* The cache and the templates.                                            *)

Templates == {mail.template : mail \in Mails}
CallLabels == {"idle", "reading", "sending", "logging"}
CallRecords == [at : CallLabels, mail : Mails \union {NoMail}]

NoTwice(cache) == \A i, j \in 1..Len(cache) : cache[i] = cache[j] => i = j

\* "incomplete" is none of the labels.
RenderInv ==
  /\ call \in [Slots -> CallRecords]
  /\ \A c \in Slots : At(c, "reading") => call[c].mail \in Mails /\ HasFile(call[c].mail)
  /\ templateCache \in Seq(Templates)
  /\ Len(templateCache) <= maxCacheSize /\ NoTwice(templateCache)

\* Every mail whose template has a file gives all the names the file asks for.
LEMMA FilesAreServed == \A mail \in Mails : HasFile(mail) => Complete(mail)
<1> USE DEF HasFile, Complete, TemplateFiles, Mail
<1>1. \A mail \in OtpMails : HasFile(mail) => Complete(mail)
  BY DEF OtpMails
<1>2. \A mail \in LoginMails : ~HasFile(mail)
  BY DEF LoginMails
<1>3. \A mail \in AccountMails : HasFile(mail) => Complete(mail)
  BY DEF AccountMails
<1>4. \A mail \in AdminMails \union EscalationMails \union PinMails \union SwapMails : ~HasFile(mail)
  BY DEF AdminMails, EscalationMails, PinMails, SwapMails
<1>5. \A mail \in MoneyMails : ~HasFile(mail)
  BY DEF MoneyMails
<1>6. \A mail \in PinResetMails \union EsimOrderMails : ~HasFile(mail)
  BY DEF PinResetMails, EsimOrderMails
<1>7. \A mail \in EsimTopupMails : ~HasFile(mail)
  BY DEF EsimTopupMails
<1>8. \A mail \in KycMails : ~HasFile(mail)
  BY DEF KycMails
<1> QED
  BY <1>1, <1>2, <1>3, <1>4, <1>5, <1>6, <1>7, <1>8 DEF Mails

\* A template is set in a cache with room made for it.
LEMMA CacheKept ==
  ASSUME NEW cache \in Seq(Templates), NEW template \in Templates,
         Len(cache) <= maxCacheSize, NoTwice(cache)
  PROVE  LET after == Set(Evict(cache), template)
         IN  after \in Seq(Templates) /\ Len(after) <= maxCacheSize /\ NoTwice(after)
<1> USE CacheAssumption
<1> DEFINE kept == Evict(cache)
<1>1. /\ kept \in Seq(Templates) /\ Len(kept) < maxCacheSize /\ NoTwice(kept)
  <2>1. CASE Len(cache) >= maxCacheSize
    <3>1. kept = Tail(cache) /\ cache # << >>
      BY <2>1 DEF Evict
    <3>2. /\ Tail(cache) \in Seq(Templates) /\ Len(Tail(cache)) = Len(cache) - 1
          /\ \A i \in 1..Len(Tail(cache)) : Tail(cache)[i] = cache[i + 1]
      BY <3>1, HeadTailProperties
    <3> QED
      BY <3>1, <3>2 DEF NoTwice
  <2>2. CASE ~(Len(cache) >= maxCacheSize)
    BY <2>2 DEF Evict
  <2> QED
    BY <2>1, <2>2
<1> HIDE DEF kept
<1>2. CASE template \in Range(kept)
  BY <1>1, <1>2 DEF Set, kept
<1>3. CASE template \notin Range(kept)
  <2>1. Set(kept, template) = Append(kept, template)
    BY <1>3 DEF Set
  <2>2. \A i \in 1..Len(kept) : kept[i] # template
    BY <1>1, <1>3 DEF Range
  <2>3. /\ Append(kept, template) \in Seq(Templates)
        /\ Len(Append(kept, template)) = Len(kept) + 1
        /\ Append(kept, template)[Len(kept) + 1] = template
        /\ \A i \in 1..Len(kept) : Append(kept, template)[i] = kept[i]
    BY <1>1, AppendProperties
  <2>4. NoTwice(Append(kept, template))
    BY <1>1, <2>2, <2>3 DEF NoTwice
  <2> QED
    BY <1>1, <2>1, <2>3, <2>4 DEF kept
<1> QED
  BY <1>2, <1>3

\* One call's record is replaced.
LEMMA CallReplaced ==
  ASSUME RenderInv, NEW c \in Slots, NEW new \in CallRecords,
         call' = [call EXCEPT ![c] = new],
         new.at = "reading" => new.mail \in Mails /\ HasFile(new.mail)
  PROVE  /\ call' \in [Slots -> CallRecords]
         /\ \A d \in Slots : At(d, "reading")' => call'[d].mail \in Mails /\ HasFile(call'[d].mail)
<1>1. /\ call' \in [Slots -> CallRecords] /\ call'[c] = new
      /\ \A d \in Slots \ {c} : call'[d] = call[d]
  BY DEF RenderInv
<1> QED
  BY <1>1 DEF RenderInv, At

LEMMA CallIsRendered ==
  ASSUME RenderInv, NEW c \in Slots, NEW mail \in Mails, HasFile(mail), Rendered(c, mail)
  PROVE  /\ call' \in [Slots -> CallRecords]
         /\ \A d \in Slots : At(d, "reading")' => call'[d].mail \in Mails /\ HasFile(call'[d].mail)
<1> DEFINE new == [at |-> "sending", mail |-> mail]
<1>1. new \in CallRecords /\ new.at = "sending"
  BY DEF CallRecords, CallLabels
<1>2. call' = [call EXCEPT ![c] = new]
  BY FilesAreServed DEF Rendered
<1> HIDE DEF new
<1> QED
  BY <1>1, <1>2, CallReplaced

LEMMA RenderInitially == Init => RenderInv
<1>1. Idle \in CallRecords /\ Idle.at = "idle"
  BY DEF Idle, CallRecords, CallLabels
<1> QED
  BY <1>1, CacheAssumption DEF Init, RenderInit, RenderInv, At, NoTwice

LEMMA RenderInvStep == RenderInv /\ [Next]_vars => RenderInv'
<1> SUFFICES ASSUME RenderInv, [Next]_vars PROVE RenderInv'
  OBVIOUS
<1>0. /\ templateCache \in Seq(Templates) /\ Len(templateCache) <= maxCacheSize
      /\ NoTwice(templateCache)
  BY DEF RenderInv
<1>1. ASSUME NEW c \in Slots, sendEmail(c) PROVE RenderInv'
  <2>1. PICK mail \in Mails : Begin(c, mail)
    BY <1>1 DEF sendEmail
  <2>2. templateCache' = templateCache
    BY <2>1 DEF Begin
  <2>3. CASE ~HasFile(mail)
    BY <2>1, <2>2, <2>3 DEF Begin, RenderInv, At
  <2>4. CASE HasFile(mail) /\ Cached(mail.template)
    <3>1. Rendered(c, mail)
      BY <2>1, <2>4 DEF Begin
    <3> QED
      BY <1>0, <2>2, <2>4, <3>1, CallIsRendered DEF RenderInv
  <2>5. CASE HasFile(mail) /\ ~Cached(mail.template)
    <3> DEFINE new == [at |-> "reading", mail |-> mail]
    <3>1. new \in CallRecords /\ new.mail = mail /\ call' = [call EXCEPT ![c] = new]
      BY <2>1, <2>5 DEF Begin, CallRecords, CallLabels
    <3> HIDE DEF new
    <3> QED
      BY <1>0, <2>2, <2>5, <3>1, CallReplaced DEF RenderInv
  <2> QED
    BY <2>3, <2>4, <2>5
<1>2. ASSUME NEW c \in Slots, welcomeJob(c) PROVE RenderInv'
  <2>1. PICK mail \in Mails : mail.template = "onboarding-email" /\ Rendered(c, mail)
    BY <1>2 DEF welcomeJob
  <2>2. HasFile(mail)
    BY <2>1 DEF HasFile, TemplateFiles
  <2> QED
    BY <1>0, <1>2, <2>1, <2>2, CallIsRendered DEF RenderInv, welcomeJob
<1>3. ASSUME NEW c \in Slots, Render(c) PROVE RenderInv'
  <2>1. /\ At(c, "reading") /\ Rendered(c, call[c].mail)
        /\ templateCache' = Set(Evict(templateCache), call[c].mail.template)
    BY <1>3 DEF Render, Compile
  <2>2. call[c].mail \in Mails /\ HasFile(call[c].mail)
    BY <2>1 DEF RenderInv
  <2>3. call[c].mail.template \in Templates
    BY <2>2 DEF Templates
  <2> QED
    BY <1>0, <2>1, <2>2, <2>3, CallIsRendered, CacheKept DEF RenderInv
<1>4. ASSUME NEW c \in Slots, Accepted(c) PROVE RenderInv'
  <2> DEFINE new == [call[c] EXCEPT !.at = "logging"]
  <2>1. call[c] \in CallRecords
    BY DEF RenderInv
  <2>2. new \in CallRecords /\ new.at = "logging"
    BY <2>1 DEF CallRecords, CallLabels
  <2>3. call' = [call EXCEPT ![c] = new] /\ templateCache' = templateCache
    BY <1>4 DEF Accepted, Goto
  <2> HIDE DEF new
  <2> QED
    BY <1>0, <2>2, <2>3, CallReplaced DEF RenderInv
<1>5. ASSUME NEW c \in Slots, NotTracked(c) \/ Log(c) PROVE RenderInv'
  <2>1. Idle \in CallRecords /\ Idle.at = "idle"
    BY DEF Idle, CallRecords, CallLabels
  <2>2. call' = [call EXCEPT ![c] = Idle] /\ templateCache' = templateCache
    BY <1>5 DEF NotTracked, Log, Return
  <2> QED
    BY <1>0, <2>1, <2>2, CallReplaced DEF RenderInv
<1>6. CASE Tracking \/ UNCHANGED vars
  BY <1>6 DEF Tracking, vars, renderVars, RenderInv, At
<1> QED
  BY <1>1, <1>2, <1>3, <1>4, <1>5, <1>6 DEF Next

LEMMA RenderInvHolds == Spec => []RenderInv
<1> QED
  BY RenderInitially, RenderInvStep, PTL DEF Spec

\* The cache of compiled templates never holds more than its limit nor a template
\* twice (email.service.ts:108-131), for any limit and any number of calls.
THEOREM CacheIsBoundedHolds == Spec => []CacheIsBounded
<1>1. RenderInv => CacheIsBounded
  BY DEF RenderInv, NoTwice, CacheIsBounded
<1> QED
  BY <1>1, RenderInvHolds, PTL

\* No mail that has a template lacks a name the template asks for, in any of the
\* calls.
THEOREM MailsAreCompleteHolds == Spec => []MailsAreComplete
<1>1. RenderInv => MailsAreComplete
  BY DEF RenderInv, CallRecords, CallLabels, MailsAreComplete, At
<1> QED
  BY <1>1, RenderInvHolds, PTL

-----------------------------------------------------------------------------
(* The row of a mail and its events.                                       *)

MailStatuses == {"pending", "sent", "delivered", "opened", "clicked", "bounced", "failed"}
Reached == {"delivered", "opened", "clicked", "bounced", "failed"}
LogRows == {NoRow} \union [status : MailStatuses, stamped : SUBSET SendGridEvent]
HookLabels == {"idle", "found", "recorded", "advancing"}
HookRecords ==
  [at : HookLabels, message : Messages \union {"none"}, kind : Kinds \union {"none"}]

TrackTypeOK ==
  /\ issued \subseteq Messages
  /\ emailLogs \in [Messages -> LogRows]
  /\ emailEvents \subseteq Messages \X Kinds
  /\ hook \in [Hooks -> HookRecords]
  /\ messageId \in [Slots -> Messages \union {"none"}]

\* A call about to write a row has an id of its own, whose row nobody has written.
RowsAreWrittenOnce ==
  /\ \A c \in Slots : At(c, "logging") =>
       messageId[c] \in issued /\ emailLogs[messageId[c]] = NoRow
  /\ \A c, d \in Slots :
       At(c, "logging") /\ At(d, "logging") /\ messageId[c] = messageId[d] => c = d
  /\ \A m \in Messages \ issued : emailLogs[m] = NoRow

\* Only a mail with a row has hooks and events, and a hook that goes on after it
\* recorded its event is about to tell it.
HooksFollowRows ==
  /\ \A h \in Hooks : ~HookAt(h, "idle") =>
       /\ hook[h].message \in Messages /\ hook[h].kind \in Kinds
       /\ emailLogs[hook[h].message] # NoRow
  /\ \A pair \in emailEvents : emailLogs[pair[1]] # NoRow
  /\ \A h \in Hooks : hook[h].at \in {"recorded", "advancing"} =>
       <<hook[h].message, hook[h].kind>> \in emailEvents
  /\ \A h \in Hooks : HookAt(h, "advancing") => StatusOf(Event(h)) # "none"

StatusIsReported ==
  \A m \in Messages : emailLogs[m].status \in {"none", "pending"} \union StatusesOf(m)

\* A hook that has its event recorded and its status still to compare.
Behind(m, kind) ==
  \E h \in Hooks : /\ hook[h].at \in {"recorded", "advancing"}
                   /\ hook[h].message = m /\ hook[h].kind = kind

Below(event, m) ==
  StatusOf(event) # "none" => Rank(StatusOf(event)) <= Rank(emailLogs[m].status)

\* Of a mail no two hooks disturbed, one hook at most writes the row, and the row is
\* where it found it; every stamped event is below the status, and so is every
\* recorded one that no hook has yet to compare.
StatusKeepsUp ==
  \A m \in Messages \ raced :
    /\ \A g, h \in Advancing(m) : g = h
    /\ \A h \in Advancing(m) : canAdvanceStatus(StatusOf(Event(h)), emailLogs[m].status)
    /\ \A event \in emailLogs[m].stamped : Below(event, m)
    /\ \A kind \in Kinds : <<m, kind>> \in emailEvents =>
         Behind(m, kind) \/ Below(PassedOn(kind), m)

TrackInv ==
  TrackTypeOK /\ RowsAreWrittenOnce /\ HooksFollowRows /\ StatusIsReported /\ StatusKeepsUp

\* The ranks are numbers, and what an event stands for is one of the statuses.
LEMMA RanksAreNumbers == \A status \in MailStatuses : Rank(status) \in Int
<1> SUFFICES ASSUME NEW status \in MailStatuses
             PROVE  \E i \in DOMAIN EMAIL_STATUSES : EMAIL_STATUSES[i] = status /\ i \in Int
  <2>1. ASSUME NEW status \in MailStatuses,
               \E i \in DOMAIN EMAIL_STATUSES : EMAIL_STATUSES[i] = status /\ i \in Int
        PROVE  Rank(status) \in Int
    BY <2>1 DEF Rank, EMAIL_STATUSES
  <2> QED
    BY <2>1
<1>1. DOMAIN EMAIL_STATUSES = 1..7
  BY DEF EMAIL_STATUSES
<1>2. /\ EMAIL_STATUSES[1] = "pending" /\ EMAIL_STATUSES[2] = "sent"
      /\ EMAIL_STATUSES[3] = "delivered" /\ EMAIL_STATUSES[4] = "opened"
      /\ EMAIL_STATUSES[5] = "clicked" /\ EMAIL_STATUSES[6] = "bounced"
      /\ EMAIL_STATUSES[7] = "failed"
  BY DEF EMAIL_STATUSES
<1> QED
  BY <1>1, <1>2 DEF MailStatuses

LEMMA EventsMean ==
  /\ \A kind \in Kinds : PassedOn(kind) = "none" \/ PassedOn(kind) \in SendGridEvent
  /\ \A event : StatusOf(event) \in Reached \union {"none"}
  /\ StatusOf("none") = "none"
  /\ Reached \subseteq MailStatuses /\ "none" \notin MailStatuses
  BY TrackingAssumption DEF PassedOn, StatusOf, Reached, MailStatuses, SendGridEvent

LEMMA HookReplaced ==
  ASSUME NEW h \in Hooks, NEW new \in HookRecords, TrackTypeOK,
         hook' = [hook EXCEPT ![h] = new]
  PROVE  /\ hook' \in [Hooks -> HookRecords] /\ hook'[h] = new
         /\ \A g \in Hooks \ {h} : hook'[g] = hook[g]
  BY DEF TrackTypeOK

\* The mail goes on before its row is written.
LEMMA SlotMoves ==
  ASSUME TrackInv, UNCHANGED <<trackVars, messageId>>,
         \A d \in Slots : At(d, "logging")' => At(d, "logging")
  PROVE  TrackInv'
<1>1. TrackTypeOK' /\ HooksFollowRows'
  BY DEF TrackInv, TrackTypeOK, HooksFollowRows, HookAt, Event, trackVars
<1>2. RowsAreWrittenOnce'
  BY DEF TrackInv, RowsAreWrittenOnce, trackVars
<1>3. StatusIsReported'
  BY DEF TrackInv, StatusIsReported, StatusesOf, EventsOf, trackVars
<1>4. StatusKeepsUp'
  BY DEF TrackInv, StatusKeepsUp, Advancing, HookAt, Event, Behind, Below, trackVars
<1> QED
  BY <1>1, <1>2, <1>3, <1>4 DEF TrackInv

LEMMA TrackInitially == Init => TrackInv
<1> SUFFICES ASSUME Init PROVE TrackInv
  OBVIOUS
<1>1. /\ HookIdle \in HookRecords /\ HookIdle.at = "idle"
      /\ NoRow \in LogRows /\ NoRow.status = "none" /\ NoRow.stamped = {}
      /\ Idle.at = "idle"
  BY DEF HookIdle, HookRecords, HookLabels, NoRow, LogRows, Idle
<1>2. /\ issued = {} /\ emailEvents = {} /\ emailLogs = [m \in Messages |-> NoRow]
      /\ hook = [h \in Hooks |-> HookIdle] /\ call = [c \in Slots |-> Idle]
      /\ messageId = [c \in Slots |-> "none"]
  BY DEF Init, TrackInit, RenderInit
<1>3. TrackTypeOK /\ RowsAreWrittenOnce
  BY <1>1, <1>2 DEF TrackTypeOK, RowsAreWrittenOnce, At
<1>4. HooksFollowRows /\ StatusIsReported
  BY <1>1, <1>2 DEF HooksFollowRows, HookAt, StatusIsReported
<1>5. StatusKeepsUp
  BY <1>1, <1>2 DEF StatusKeepsUp, Advancing, HookAt
<1> QED
  BY <1>3, <1>4, <1>5 DEF TrackInv

\* A hook's step writes no row: the rows, and who will write them, stay.
LEMMA HooksWriteNoRow ==
  ASSUME TrackInv, UNCHANGED <<issued, emailLogs, call, messageId>>,
         hook' \in [Hooks -> HookRecords], emailEvents' \subseteq Messages \X Kinds
  PROVE  TrackTypeOK' /\ RowsAreWrittenOnce'
  BY DEF TrackInv, TrackTypeOK, RowsAreWrittenOnce, At

\* No hook starts to write, and no more events are recorded.
LEMMA StatusStays ==
  ASSUME TrackInv, UNCHANGED <<emailLogs, emailEvents>>, raced \subseteq raced',
         \A m \in Messages \ raced' : \A h \in Hooks :
           HookAt(h, "advancing")' /\ hook'[h].message = m
             => HookAt(h, "advancing") /\ hook'[h] = hook[h],
         \A m \in Messages \ raced', kind \in Kinds :
           Behind(m, kind) => Behind(m, kind)' \/ Below(PassedOn(kind), m)
  PROVE  StatusKeepsUp' /\ StatusIsReported'
<1>1. StatusIsReported'
  BY DEF TrackInv, StatusIsReported, StatusesOf, EventsOf
<1>2. ASSUME NEW m \in Messages \ raced'
      PROVE  /\ m \notin raced /\ Advancing(m)' \subseteq Advancing(m)
             /\ \A h \in Advancing(m)' : hook'[h] = hook[h]
  BY <1>2 DEF Advancing, HookAt
<1>3. \A m \in Messages : \A event : Below(event, m)' = Below(event, m)
  BY DEF Below
<1>4. StatusKeepsUp'
  BY <1>2, <1>3 DEF TrackInv, StatusKeepsUp, Event
<1> QED
  BY <1>1, <1>4

LEMMA HookEndsFacts ==
  ASSUME TrackInv, NEW h \in Hooks, HookEnds(h)
  PROVE  /\ hook' \in [Hooks -> HookRecords] /\ hook'[h] = HookIdle /\ HookIdle.at = "idle"
         /\ \A g \in Hooks \ {h} : hook'[g] = hook[g]
<1>1. HookIdle \in HookRecords /\ HookIdle.at = "idle"
  BY DEF HookIdle, HookRecords, HookLabels
<1> QED
  BY <1>1, HookReplaced DEF HookEnds, TrackInv

LEMMA HookGotoFacts ==
  ASSUME TrackInv, NEW h \in Hooks, NEW label \in HookLabels, HookGoto(h, label)
  PROVE  /\ hook' \in [Hooks -> HookRecords] /\ hook'[h].at = label
         /\ hook'[h].message = hook[h].message /\ hook'[h].kind = hook[h].kind
         /\ \A g \in Hooks \ {h} : hook'[g] = hook[g]
<1> DEFINE new == [hook[h] EXCEPT !.at = label]
<1>1. hook[h] \in HookRecords
  BY DEF TrackInv, TrackTypeOK
<1>2. /\ new \in HookRecords /\ new.at = label
      /\ new.message = hook[h].message /\ new.kind = hook[h].kind
  BY <1>1 DEF HookRecords
<1>3. hook' = [hook EXCEPT ![h] = new]
  BY DEF HookGoto
<1> HIDE DEF new
<1> QED
  BY <1>2, <1>3, HookReplaced DEF TrackInv

LEMMA EventArrives ==
  ASSUME TrackInv, NEW h \in Hooks, NEW m \in Messages, NEW kind \in Kinds,
         processSendgridEvent(h, m, kind), UNCHANGED <<call, messageId>>
  PROVE  TrackInv'
<1> DEFINE new == [at |-> "found", message |-> m, kind |-> kind]
<1>1. /\ new \in HookRecords /\ new.at = "found" /\ new.message = m /\ new.kind = kind
  BY DEF HookRecords, HookLabels
<1>2. /\ UNCHANGED <<issued, emailLogs, emailEvents, raced>> /\ hook[h].at = "idle"
      /\ \/ hook' = hook
         \/ emailLogs[m] # NoRow /\ hook' = [hook EXCEPT ![h] = new]
  BY DEF processSendgridEvent, HookAt
<1> HIDE DEF new
<1>3. CASE hook' = hook
  <2>1. TrackTypeOK' /\ RowsAreWrittenOnce'
    BY <1>2, <1>3, HooksWriteNoRow DEF TrackInv, TrackTypeOK
  <2>2. StatusKeepsUp' /\ StatusIsReported'
    BY <1>2, <1>3, StatusStays DEF HookAt, Behind
  <2>3. HooksFollowRows'
    BY <1>2, <1>3 DEF TrackInv, HooksFollowRows, HookAt, Event
  <2> QED
    BY <2>1, <2>2, <2>3 DEF TrackInv
<1>4. CASE emailLogs[m] # NoRow /\ hook' = [hook EXCEPT ![h] = new]
  <2>1. /\ hook' \in [Hooks -> HookRecords] /\ hook'[h] = new
        /\ \A g \in Hooks \ {h} : hook'[g] = hook[g]
    BY <1>1, <1>4, HookReplaced DEF TrackInv
  <2>2. TrackTypeOK' /\ RowsAreWrittenOnce'
    BY <1>2, <2>1, HooksWriteNoRow DEF TrackInv, TrackTypeOK
  <2>3. StatusKeepsUp' /\ StatusIsReported'
    <3>1. \A n \in Messages, k \in Kinds : Behind(n, k) => Behind(n, k)'
      BY <1>2, <2>1 DEF Behind
    <3>2. \A g \in Hooks : HookAt(g, "advancing")' => HookAt(g, "advancing") /\ hook'[g] = hook[g]
      BY <1>1, <2>1 DEF HookAt
    <3> QED
      BY <1>2, <3>1, <3>2, StatusStays
  <2>4. HooksFollowRows'
    BY <1>1, <1>2, <1>4, <2>1 DEF TrackInv, HooksFollowRows, HookAt, Event
  <2> QED
    BY <2>2, <2>3, <2>4 DEF TrackInv
<1> QED
  BY <1>2, <1>3, <1>4

LEMMA EventRecorded ==
  ASSUME TrackInv, NEW h \in Hooks, createEmailEvent(h), UNCHANGED <<call, messageId>>
  PROVE  TrackInv'
<1> DEFINE m == hook[h].message  kind == hook[h].kind
<1>1. /\ UNCHANGED <<issued, emailLogs, raced>> /\ hook[h].at = "found"
      /\ emailEvents' = emailEvents \union {<<m, kind>>}
      /\ \/ PassedOn(kind) = "none" /\ HookEnds(h)
         \/ PassedOn(kind) # "none" /\ HookGoto(h, "recorded")
  BY DEF createEmailEvent, InsertEvent, HookAt
<1>2. m \in Messages /\ kind \in Kinds /\ emailLogs[m] # NoRow
  BY <1>1 DEF TrackInv, HooksFollowRows, HookAt
<1>3. /\ hook' \in [Hooks -> HookRecords]
      /\ \A g \in Hooks \ {h} : hook'[g] = hook[g]
      /\ \/ PassedOn(kind) = "none" /\ hook'[h].at = "idle"
         \/ /\ hook'[h].at = "recorded"
            /\ hook'[h].message = m /\ hook'[h].kind = kind
  BY <1>1, HookEndsFacts, HookGotoFacts DEF HookLabels
<1> HIDE DEF m, kind
<1>4. emailEvents' \subseteq Messages \X Kinds
  BY <1>1, <1>2 DEF TrackInv, TrackTypeOK
<1>5. TrackTypeOK' /\ RowsAreWrittenOnce'
  BY <1>1, <1>3, <1>4, HooksWriteNoRow
<1>6. HooksFollowRows'
  <2>1. \A g \in Hooks \ {h} : HookAt(g, "idle")' = HookAt(g, "idle") /\ hook'[g] = hook[g]
    BY <1>3 DEF HookAt
  <2>2. \A g \in Hooks : ~HookAt(g, "idle")' =>
          /\ hook'[g].message \in Messages /\ hook'[g].kind \in Kinds
          /\ emailLogs'[hook'[g].message] # NoRow
    BY <1>1, <1>2, <1>3, <2>1 DEF TrackInv, HooksFollowRows, HookAt
  <2>3. \A pair \in emailEvents' : emailLogs'[pair[1]] # NoRow
    BY <1>1, <1>2 DEF TrackInv, HooksFollowRows
  <2>4. \A g \in Hooks : hook'[g].at \in {"recorded", "advancing"} =>
          <<hook'[g].message, hook'[g].kind>> \in emailEvents'
    BY <1>1, <1>3 DEF TrackInv, HooksFollowRows
  <2>5. \A g \in Hooks : HookAt(g, "advancing")' => StatusOf(Event(g))' # "none"
    BY <1>3 DEF TrackInv, HooksFollowRows, HookAt, Event
  <2> QED
    BY <2>2, <2>3, <2>4, <2>5 DEF HooksFollowRows
<1>7. StatusIsReported'
  <2>1. \A n \in Messages : StatusesOf(n) \subseteq StatusesOf(n)'
    BY <1>1 DEF StatusesOf, EventsOf
  <2> QED
    BY <1>1, <2>1 DEF TrackInv, StatusIsReported
<1>8. StatusKeepsUp'
  <2> SUFFICES ASSUME NEW n \in Messages \ raced'
               PROVE  /\ \A f, g \in Advancing(n)' : f = g
                      /\ \A g \in Advancing(n)' :
                           canAdvanceStatus(StatusOf(Event(g)), emailLogs[n].status)'
                      /\ \A event \in emailLogs'[n].stamped : Below(event, n)'
                      /\ \A k \in Kinds : <<n, k>> \in emailEvents' =>
                           Behind(n, k)' \/ Below(PassedOn(k), n)'
    BY DEF StatusKeepsUp
  <2>1. Advancing(n)' = Advancing(n) /\ \A g \in Advancing(n) : hook'[g] = hook[g]
    BY <1>1, <1>3 DEF Advancing, HookAt
  <2>2. \A event : Below(event, n)' = Below(event, n)
    BY <1>1 DEF Below
  <2>3. ASSUME NEW k \in Kinds, <<n, k>> \in emailEvents'
        PROVE  Behind(n, k)' \/ Below(PassedOn(k), n)
    <3>1. Behind(n, k) => Behind(n, k)'
      BY <1>1, <1>3 DEF Behind
    <3>2. CASE <<n, k>> \in emailEvents
      BY <1>1, <3>1, <3>2 DEF TrackInv, StatusKeepsUp
    <3>3. CASE n = m /\ k = kind
      BY <1>3, <3>3, EventsMean DEF Behind, Below
    <3> QED
      BY <1>1, <2>3, <3>2, <3>3
  <2> QED
    BY <1>1, <2>1, <2>2, <2>3 DEF TrackInv, StatusKeepsUp, Event
<1> QED
  BY <1>5, <1>6, <1>7, <1>8 DEF TrackInv

LEMMA EventTold ==
  ASSUME TrackInv, NEW h \in Hooks, handleTrackingEvent(h), UNCHANGED <<call, messageId>>
  PROVE  TrackInv'
<1> DEFINE m == hook[h].message  kind == hook[h].kind
<1>1. UNCHANGED <<issued, emailLogs, emailEvents>> /\ hook[h].at = "recorded"
  BY DEF handleTrackingEvent, HookAt
<1>2. /\ m \in Messages /\ kind \in Kinds /\ emailLogs[m] # NoRow /\ <<m, kind>> \in emailEvents
      /\ emailLogs[m].status \in MailStatuses
  BY <1>1 DEF TrackInv, TrackTypeOK, LogRows, HooksFollowRows, HookAt
<1>3. CASE Advances(h)
  <2>1. /\ hook' \in [Hooks -> HookRecords] /\ hook'[h].at = "advancing"
        /\ hook'[h].message = m /\ hook'[h].kind = kind
        /\ \A g \in Hooks \ {h} : hook'[g] = hook[g]
    BY <1>3, HookGotoFacts DEF handleTrackingEvent, HookLabels
  <2>2. raced' = IF Advancing(m) # {} THEN raced \union {m} ELSE raced
    BY <1>3 DEF handleTrackingEvent
  <2>3. /\ StatusOf(PassedOn(kind)) # "none"
        /\ canAdvanceStatus(StatusOf(PassedOn(kind)), emailLogs[m].status)
    BY <1>3 DEF Advances, Event
  <2> HIDE DEF m, kind
  <2>4. TrackTypeOK' /\ RowsAreWrittenOnce'
    BY <1>1, <2>1, HooksWriteNoRow DEF TrackInv, TrackTypeOK
  <2>5. HooksFollowRows'
    BY <1>1, <1>2, <2>1, <2>3 DEF TrackInv, HooksFollowRows, HookAt, Event
  <2>6. StatusIsReported'
    BY <1>1 DEF TrackInv, StatusIsReported, StatusesOf, EventsOf
  <2>7. StatusKeepsUp'
    <3> SUFFICES ASSUME NEW n \in Messages \ raced'
                 PROVE  /\ \A f, g \in Advancing(n)' : f = g
                        /\ \A g \in Advancing(n)' :
                             canAdvanceStatus(StatusOf(Event(g)), emailLogs[n].status)'
                        /\ \A event \in emailLogs'[n].stamped : Below(event, n)'
                        /\ \A k \in Kinds : <<n, k>> \in emailEvents' =>
                             Behind(n, k)' \/ Below(PassedOn(k), n)'
      BY DEF StatusKeepsUp
    <3>1. n \notin raced
      BY <2>2
    <3>2. \A event : Below(event, n)' = Below(event, n)
      BY <1>1 DEF Below
    <3>3. \A k \in Kinds : Behind(n, k) => Behind(n, k)'
      <4>1. ASSUME NEW k \in Kinds, Behind(n, k) PROVE Behind(n, k)'
        <5>1. PICK g \in Hooks : /\ hook[g].at \in {"recorded", "advancing"}
                                 /\ hook[g].message = n /\ hook[g].kind = k
          BY <4>1 DEF Behind
        <5>2. /\ hook'[g].at \in {"recorded", "advancing"}
              /\ hook'[g].message = n /\ hook'[g].kind = k
          BY <2>1, <5>1 DEF m, kind
        <5> QED
          BY <5>2 DEF Behind
      <4> QED
        BY <4>1
    <3>4. CASE n = m
      <4>1. Advancing(n) = {} /\ Advancing(n)' = {h}
        BY <2>1, <2>2, <3>4 DEF Advancing, HookAt
      <4>2. canAdvanceStatus(StatusOf(Event(h)), emailLogs[n].status)'
        BY <1>1, <2>1, <2>3, <3>4 DEF Event, canAdvanceStatus
      <4> QED
        BY <1>1, <3>1, <3>2, <3>3, <4>1, <4>2 DEF TrackInv, StatusKeepsUp
    <3>5. CASE n # m
      <4>1. Advancing(n)' = Advancing(n) /\ \A g \in Advancing(n) : hook'[g] = hook[g]
        BY <1>1, <2>1, <3>5 DEF Advancing, HookAt
      <4> QED
        BY <1>1, <3>1, <3>2, <3>3, <4>1 DEF TrackInv, StatusKeepsUp, Event
    <3> QED
      BY <3>4, <3>5
  <2> QED
    BY <2>4, <2>5, <2>6, <2>7 DEF TrackInv
<1>4. CASE ~Advances(h)
  <2>1. /\ hook' \in [Hooks -> HookRecords] /\ hook'[h].at = "idle" /\ raced' = raced
        /\ \A g \in Hooks \ {h} : hook'[g] = hook[g]
    BY <1>4, HookEndsFacts DEF handleTrackingEvent
  <2>2. TrackTypeOK' /\ RowsAreWrittenOnce'
    BY <1>1, <2>1, HooksWriteNoRow DEF TrackInv, TrackTypeOK
  <2>3. HooksFollowRows'
    BY <1>1, <2>1 DEF TrackInv, HooksFollowRows, HookAt, Event
  <2>4. m \notin raced => Below(PassedOn(kind), m)
    <3>1. CASE StatusOf(Event(h)) = "none"
      BY <3>1 DEF Below, Event
    <3>2. CASE /\ StatusOf(Event(h)) # "none"
               /\ ~canAdvanceStatus(StatusOf(Event(h)), emailLogs[m].status)
      <4>1. StatusOf(Event(h)) \in MailStatuses /\ emailLogs[m].status \in MailStatuses
        BY <1>2, <3>2, EventsMean
      <4> QED
        BY <3>2, <4>1, RanksAreNumbers DEF canAdvanceStatus, Below, Event
    <3>3. CASE Event(h) \in emailLogs[m].stamped
      BY <1>2, <3>3 DEF TrackInv, StatusKeepsUp, Event
    <3> QED
      BY <1>4, <3>1, <3>2, <3>3 DEF Advances
  <2> HIDE DEF m, kind
  <2>5. \A n \in Messages \ raced', k \in Kinds :
          Behind(n, k) => Behind(n, k)' \/ Below(PassedOn(k), n)
    <3>1. ASSUME NEW n \in Messages \ raced', NEW k \in Kinds, Behind(n, k), ~(n = m /\ k = kind)
          PROVE  Behind(n, k)'
      <4>1. PICK g \in Hooks : /\ hook[g].at \in {"recorded", "advancing"}
                               /\ hook[g].message = n /\ hook[g].kind = k
        BY <3>1 DEF Behind
      <4>2. g # h
        BY <3>1, <4>1 DEF m, kind
      <4> QED
        BY <2>1, <4>1, <4>2 DEF Behind
    <3> QED
      BY <2>1, <2>4, <3>1
  <2>6. StatusKeepsUp' /\ StatusIsReported'
    <3>1. \A g \in Hooks : HookAt(g, "advancing")' => HookAt(g, "advancing") /\ hook'[g] = hook[g]
      BY <2>1 DEF HookAt
    <3> QED
      BY <1>1, <2>1, <2>5, <3>1, StatusStays
  <2> QED
    BY <2>2, <2>3, <2>6 DEF TrackInv
<1> QED
  BY <1>3, <1>4

LEMMA RowUpdated ==
  ASSUME TrackInv, NEW h \in Hooks, updateEmailLog(h), UNCHANGED <<call, messageId>>
  PROVE  TrackInv'
<1> DEFINE m == hook[h].message  kind == hook[h].kind  event == PassedOn(kind)
           row == [status |-> StatusOf(event), stamped |-> emailLogs[m].stamped \union {event}]
<1>1. UNCHANGED <<issued, emailEvents, raced>> /\ hook[h].at = "advancing"
  BY DEF updateEmailLog, HookAt
<1>2. emailLogs' = [emailLogs EXCEPT ![m] = row]
  BY DEF updateEmailLog, Event
<1>3. /\ m \in Messages /\ kind \in Kinds /\ emailLogs[m] # NoRow
      /\ <<m, kind>> \in emailEvents /\ StatusOf(event) # "none"
  BY <1>1 DEF TrackInv, HooksFollowRows, HookAt, Event
<1>4. /\ emailLogs[m].stamped \subseteq SendGridEvent /\ emailLogs[m].status \in MailStatuses
  BY <1>3 DEF TrackInv, TrackTypeOK, LogRows
<1>5. /\ hook' \in [Hooks -> HookRecords] /\ hook'[h].at = "idle"
      /\ \A g \in Hooks \ {h} : hook'[g] = hook[g]
  BY HookEndsFacts DEF updateEmailLog
<1>6. event \in SendGridEvent /\ StatusOf(event) \in MailStatuses
  BY <1>3, EventsMean
<1>7. /\ row \in LogRows /\ row # NoRow
      /\ row.status = StatusOf(event) /\ row.stamped = emailLogs[m].stamped \union {event}
  BY <1>3, <1>4, <1>6 DEF LogRows, NoRow
<1> HIDE DEF m, kind, event, row
<1>8. /\ emailLogs' \in [Messages -> LogRows] /\ emailLogs'[m] = row
      /\ \A n \in Messages \ {m} : emailLogs'[n] = emailLogs[n]
  BY <1>2, <1>3, <1>7 DEF TrackInv, TrackTypeOK
<1>9. TrackTypeOK'
  BY <1>1, <1>5, <1>8 DEF TrackInv, TrackTypeOK
<1>10. RowsAreWrittenOnce'
  <2>1. m \in issued
    BY <1>3 DEF TrackInv, RowsAreWrittenOnce
  <2>2. \A c \in Slots : At(c, "logging") => messageId[c] \in Messages /\ messageId[c] # m
    BY <1>3 DEF TrackInv, TrackTypeOK, RowsAreWrittenOnce
  <2> QED
    BY <1>1, <1>8, <2>1, <2>2 DEF TrackInv, RowsAreWrittenOnce, At
<1>11. HooksFollowRows'
  <2>1. \A n \in Messages : emailLogs[n] # NoRow => emailLogs'[n] # NoRow
    BY <1>7, <1>8
  <2>2. \A pair \in emailEvents : pair[1] \in Messages
    BY DEF TrackInv, TrackTypeOK
  <2> QED
    BY <1>1, <1>5, <2>1, <2>2 DEF TrackInv, HooksFollowRows, HookAt, Event
<1>12. StatusIsReported'
  <2>1. \A n \in Messages : StatusesOf(n)' = StatusesOf(n)
    BY <1>1 DEF StatusesOf, EventsOf
  <2>2. StatusOf(event) \in StatusesOf(m)
    BY <1>3 DEF StatusesOf, EventsOf, event
  <2> QED
    BY <1>7, <1>8, <2>1, <2>2 DEF TrackInv, StatusIsReported
<1>13. StatusKeepsUp'
  <2> SUFFICES ASSUME NEW n \in Messages \ raced'
               PROVE  /\ \A f, g \in Advancing(n)' : f = g
                      /\ \A g \in Advancing(n)' :
                           canAdvanceStatus(StatusOf(Event(g)), emailLogs[n].status)'
                      /\ \A e \in emailLogs'[n].stamped : Below(e, n)'
                      /\ \A k \in Kinds : <<n, k>> \in emailEvents' =>
                           Behind(n, k)' \/ Below(PassedOn(k), n)'
    BY DEF StatusKeepsUp
  <2>1. Advancing(n)' = Advancing(n) \ {h} /\ \A g \in Advancing(n)' : hook'[g] = hook[g]
    BY <1>5 DEF Advancing, HookAt
  <2>2. \A k \in Kinds : Behind(n, k) => Behind(n, k)' \/ (n = m /\ k = kind)
    <3>1. ASSUME NEW k \in Kinds, Behind(n, k), ~(n = m /\ k = kind) PROVE Behind(n, k)'
      <4>1. PICK g \in Hooks : /\ hook[g].at \in {"recorded", "advancing"}
                               /\ hook[g].message = n /\ hook[g].kind = k
        BY <3>1 DEF Behind
      <4>2. g # h
        BY <3>1, <4>1 DEF m, kind
      <4> QED
        BY <1>5, <4>1, <4>2 DEF Behind
    <3> QED
      BY <3>1
  <2>3. CASE n # m
    <3>1. emailLogs'[n] = emailLogs[n]
      BY <1>8, <2>3
    <3>2. \A e : Below(e, n)' = Below(e, n)
      BY <3>1 DEF Below
    <3> QED
      BY <1>1, <2>1, <2>2, <2>3, <3>1, <3>2 DEF TrackInv, StatusKeepsUp, Event
  <2>4. CASE n = m
    <3>1. m \notin raced /\ h \in Advancing(m)
      BY <1>1, <2>4 DEF Advancing, HookAt, m
    <3>2. Advancing(n)' = {}
      BY <1>1, <2>1, <2>4, <3>1 DEF TrackInv, StatusKeepsUp
    <3>3. Rank(StatusOf(event)) > Rank(emailLogs[m].status)
      BY <1>3, <3>1 DEF TrackInv, StatusKeepsUp, canAdvanceStatus, Event, m, kind, event
    <3>4. /\ Rank(emailLogs[m].status) \in Int /\ Rank(StatusOf(event)) \in Int
          /\ \A e : StatusOf(e) # "none" => Rank(StatusOf(e)) \in Int
      BY <1>4, <1>6, RanksAreNumbers, EventsMean
    <3>5. \A e : Below(e, n) => Below(e, n)'
      BY <1>7, <1>8, <2>4, <3>3, <3>4 DEF Below
    <3>6. \A e : e = event => Below(e, n)'
      BY <1>7, <1>8, <2>4, <3>4 DEF Below
    <3>7. \A e \in emailLogs'[n].stamped : Below(e, n)'
      BY <1>3, <1>7, <1>8, <2>4, <3>1, <3>5, <3>6 DEF TrackInv, StatusKeepsUp
    <3>8. ASSUME NEW k \in Kinds, <<n, k>> \in emailEvents
          PROVE  Behind(n, k)' \/ Below(PassedOn(k), n)'
      BY <1>3, <2>2, <2>4, <3>1, <3>5, <3>6, <3>8 DEF TrackInv, StatusKeepsUp, event
    <3> QED
      BY <1>1, <3>2, <3>7, <3>8
  <2> QED
    BY <2>3, <2>4
<1> QED
  BY <1>9, <1>10, <1>11, <1>12, <1>13 DEF TrackInv

LEMMA HookCut ==
  ASSUME TrackInv, NEW h \in Hooks, HookFails(h), UNCHANGED <<call, messageId>>
  PROVE  TrackInv'
<1> DEFINE m == hook[h].message
<1>1. /\ UNCHANGED <<issued, emailLogs, emailEvents>> /\ raced \subseteq raced'
      /\ hook[h].at = "found" \/ m \in raced'
  BY DEF HookFails, HookAt
<1>2. /\ hook' \in [Hooks -> HookRecords] /\ hook'[h].at = "idle"
      /\ \A g \in Hooks \ {h} : hook'[g] = hook[g]
  BY HookEndsFacts DEF HookFails
<1>3. TrackTypeOK' /\ RowsAreWrittenOnce'
  BY <1>1, <1>2, HooksWriteNoRow DEF TrackInv, TrackTypeOK
<1>4. HooksFollowRows'
  BY <1>1, <1>2 DEF TrackInv, HooksFollowRows, HookAt, Event
<1>5. \A n \in Messages \ raced', k \in Kinds : Behind(n, k) => Behind(n, k)'
  BY <1>1, <1>2 DEF Behind
<1>6. \A g \in Hooks : HookAt(g, "advancing")' => HookAt(g, "advancing") /\ hook'[g] = hook[g]
  BY <1>2 DEF HookAt
<1>7. StatusKeepsUp' /\ StatusIsReported'
  BY <1>1, <1>5, <1>6, StatusStays
<1> QED
  BY <1>3, <1>4, <1>7 DEF TrackInv

LEMMA TrackInvStep == RenderInv /\ TrackInv /\ [Next]_vars => TrackInv'
<1> SUFFICES ASSUME RenderInv, TrackInv, [Next]_vars PROVE TrackInv'
  OBVIOUS
<1>0. /\ call \in [Slots -> CallRecords] /\ Idle.at = "idle"
      /\ TrackTypeOK /\ RowsAreWrittenOnce /\ HooksFollowRows /\ StatusIsReported /\ StatusKeepsUp
  BY DEF RenderInv, TrackInv, Idle
<1>1. ASSUME NEW c \in Slots, sendEmail(c) \/ welcomeJob(c) \/ Render(c) \/ NotTracked(c)
      PROVE  TrackInv'
  <2>1. UNCHANGED <<trackVars, messageId>>
    BY <1>1 DEF sendEmail, welcomeJob, Render, NotTracked
  <2>2. \/ call' = call
        \/ \E new : new.at # "logging" /\ call' = [call EXCEPT ![c] = new]
    <3>1. CASE sendEmail(c)
      <4>1. PICK mail \in Mails : Begin(c, mail)
        BY <3>1 DEF sendEmail
      <4>2. \/ call' = call \/ Rendered(c, mail)
            \/ call' = [call EXCEPT ![c] = [at |-> "reading", mail |-> mail]]
        BY <4>1 DEF Begin
      <4> QED
        BY <4>2 DEF Rendered
    <3>2. CASE welcomeJob(c) \/ Render(c)
      <4>1. PICK mail : Rendered(c, mail)
        BY <3>2 DEF welcomeJob, Render, Compile
      <4> QED
        BY <4>1 DEF Rendered
    <3>3. CASE NotTracked(c)
      BY <1>0, <3>3 DEF NotTracked, Return
    <3> QED
      BY <1>1, <3>1, <3>2, <3>3
  <2>3. \A d \in Slots : At(d, "logging")' => At(d, "logging")
    BY <1>0, <2>2 DEF At
  <2> QED
    BY <2>1, <2>3, SlotMoves
<1>2. ASSUME NEW c \in Slots, Accepted(c) PROVE TrackInv'
  <2>1. PICK m \in Messages \ issued :
          issued' = issued \union {m} /\ messageId' = [messageId EXCEPT ![c] = m]
    BY <1>2 DEF Accepted
  <2>2. UNCHANGED <<emailLogs, emailEvents, hook, raced>> /\ Goto(c, "logging") /\ At(c, "sending")
    BY <1>2 DEF Accepted
  <2>3. \A d \in Slots : At(d, "logging")' => d = c \/ At(d, "logging")
    BY <1>0, <2>2 DEF Goto, At
  <2>4. /\ messageId' \in [Slots -> Messages \union {"none"}] /\ messageId'[c] = m
        /\ \A d \in Slots \ {c} : messageId'[d] = messageId[d]
    BY <1>0, <2>1 DEF TrackTypeOK
  <2>5. emailLogs[m] = NoRow /\ \A d \in Slots : At(d, "logging") => messageId[d] # m
    BY <1>0, <2>1 DEF RowsAreWrittenOnce
  <2>6. TrackTypeOK' /\ RowsAreWrittenOnce'
    BY <1>0, <2>1, <2>2, <2>3, <2>4, <2>5 DEF TrackTypeOK, RowsAreWrittenOnce
  <2>7. HooksFollowRows' /\ StatusIsReported'
    BY <1>0, <2>2 DEF HooksFollowRows, StatusIsReported, HookAt, Event, StatusesOf, EventsOf
  <2>8. StatusKeepsUp'
    BY <1>0, <2>2 DEF StatusKeepsUp, Advancing, HookAt, Event, Behind, Below
  <2> QED
    BY <2>6, <2>7, <2>8 DEF TrackInv
<1>3. ASSUME NEW c \in Slots, Log(c) PROVE TrackInv'
  <2> DEFINE m == messageId[c]
  <2>1. /\ At(c, "logging") /\ UNCHANGED <<issued, emailEvents, hook, raced>>
        /\ messageId' = [messageId EXCEPT ![c] = "none"]
        /\ emailLogs' = emailLogs \/ emailLogs' = [emailLogs EXCEPT ![m] = NewRow]
        /\ call' = [call EXCEPT ![c] = Idle]
    BY <1>3 DEF Log, logEmailSent, Return
  <2>2. m \in Messages /\ emailLogs[m] = NoRow
    BY <1>0, <2>1 DEF RowsAreWrittenOnce, TrackTypeOK
  <2>3. /\ NewRow \in LogRows /\ NewRow # NoRow
        /\ NewRow.status = "pending" /\ NewRow.stamped = {}
    BY DEF NewRow, NoRow, LogRows, MailStatuses
  <2>4. \A d \in Slots : At(d, "logging")' => /\ d # c /\ At(d, "logging")
                                             /\ messageId'[d] = messageId[d] /\ messageId[d] # m
    BY <1>0, <2>1 DEF At, TrackTypeOK, RowsAreWrittenOnce
  <2> HIDE DEF m
  <2>5. /\ emailLogs' \in [Messages -> LogRows]
        /\ \A n \in Messages \ {m} : emailLogs'[n] = emailLogs[n]
        /\ emailLogs'[m] \in {NoRow, NewRow}
    BY <1>0, <2>1, <2>2, <2>3 DEF TrackTypeOK
  <2>6. TrackTypeOK'
    BY <1>0, <2>1, <2>5 DEF TrackTypeOK
  <2>7. RowsAreWrittenOnce'
    <3>1. m \in issued
      BY <1>0, <2>1 DEF RowsAreWrittenOnce, m
    <3>2. \A d \in Slots : At(d, "logging") => messageId[d] \in Messages
      BY <1>0 DEF RowsAreWrittenOnce, TrackTypeOK
    <3> QED
      BY <1>0, <2>1, <2>4, <2>5, <3>1, <3>2 DEF RowsAreWrittenOnce
  <2>8. /\ \A h \in Hooks : HookAt(h, "idle") \/ hook[h].message \in Messages \ {m}
        /\ \A pair \in emailEvents : pair[1] \in Messages \ {m}
    BY <1>0, <2>2 DEF HooksFollowRows, TrackTypeOK
  <2>9. HooksFollowRows'
    BY <1>0, <2>1, <2>5, <2>8 DEF HooksFollowRows, HookAt, Event
  <2>10. StatusIsReported'
    <3>1. \A n \in Messages : StatusesOf(n)' = StatusesOf(n)
      BY <2>1 DEF StatusesOf, EventsOf
    <3>2. emailLogs'[m].status \in {"none", "pending"}
      BY <2>3, <2>5 DEF NoRow
    <3> QED
      BY <1>0, <2>5, <3>1, <3>2 DEF StatusIsReported
  <2>11. StatusKeepsUp'
    <3> SUFFICES ASSUME NEW n \in Messages \ raced'
                 PROVE  /\ \A f, g \in Advancing(n)' : f = g
                        /\ \A g \in Advancing(n)' :
                             canAdvanceStatus(StatusOf(Event(g)), emailLogs[n].status)'
                        /\ \A e \in emailLogs'[n].stamped : Below(e, n)'
                        /\ \A k \in Kinds : <<n, k>> \in emailEvents' =>
                             Behind(n, k)' \/ Below(PassedOn(k), n)'
      BY DEF StatusKeepsUp
    <3>1. Advancing(n)' = Advancing(n) /\ \A k \in Kinds : Behind(n, k)' = Behind(n, k)
      BY <2>1 DEF Advancing, HookAt, Behind
    <3>2. CASE n # m
      <4>1. emailLogs'[n] = emailLogs[n]
        BY <2>5, <3>2
      <4>2. \A e : Below(e, n)' = Below(e, n)
        BY <4>1 DEF Below
      <4> QED
        BY <1>0, <2>1, <3>1, <4>1, <4>2 DEF StatusKeepsUp, Event
    <3>3. CASE n = m
      <4>1. Advancing(n) = {} /\ \A k \in Kinds : <<n, k>> \notin emailEvents
        BY <2>8, <3>3 DEF Advancing, HookAt
      <4>2. emailLogs'[n].stamped = {}
        BY <2>3, <2>5, <3>3 DEF NoRow
      <4> QED
        BY <2>1, <3>1, <4>1, <4>2
    <3> QED
      BY <3>2, <3>3
  <2> QED
    BY <2>6, <2>7, <2>9, <2>10, <2>11 DEF TrackInv
<1>4. CASE Tracking
  <2>1. UNCHANGED <<call, messageId>>
    BY <1>4 DEF Tracking, renderVars
  <2>2. PICK h \in Hooks :
          \/ \E m \in Messages, kind \in Kinds : processSendgridEvent(h, m, kind)
          \/ HookStep(h) \/ HookFails(h)
    BY <1>4 DEF Tracking, TrackNext
  <2> QED
    BY <2>1, <2>2, EventArrives, EventRecorded, EventTold, RowUpdated, HookCut DEF HookStep
<1>5. CASE UNCHANGED vars
  BY <1>5, SlotMoves DEF vars, renderVars, At
<1> QED
  BY <1>1, <1>2, <1>3, <1>4, <1>5 DEF Next

\* The status of a mail is one of its events', and the highest of them once the
\* hooks are done (tracking.service.ts:43-104), in whatever order and however often
\* they come, for any number of mails and hooks.
THEOREM StatusFollowsEventsHolds == Spec => []StatusFollowsEvents
<1>1. Init => TrackInv
  BY TrackInitially
<1>2. RenderInv /\ TrackInv /\ [Next]_vars => TrackInv'
  BY TrackInvStep
<1>3. TrackInv => StatusFollowsEvents
  <2> SUFFICES ASSUME TrackInv, NEW m \in Messages, Resting(m), m \notin raced,
                      NEW status \in StatusesOf(m)
               PROVE  Rank(status) <= Rank(emailLogs[m].status)
    BY DEF TrackInv, StatusIsReported, StatusFollowsEvents
  <2>1. PICK kind \in Kinds : <<m, kind>> \in emailEvents /\ status = StatusOf(PassedOn(kind))
    BY DEF StatusesOf, EventsOf
  <2>2. ~Behind(m, kind)
    BY DEF Resting, Behind
  <2> QED
    BY <2>1, <2>2 DEF TrackInv, StatusKeepsUp, Below, StatusesOf
<1> QED
  BY <1>1, <1>2, <1>3, RenderInvHolds, PTL DEF Spec

-----------------------------------------------------------------------------
(* The chain of providers and its breakers: EmailDelivery.                 *)

Labels == {"idle", "sending", "tracking", "asleep"}

ChainType ==
  /\ failures \in [Providers -> Nat]
  /\ pc \in [Senders -> Labels]
  /\ place \in [Senders -> Places]

\* So many failures, and so many calls that may still fail.
Within(n, sending) == n + Cardinality(sending) <= MAX_FAILURES - 1 + Cardinality(Senders)

BreakerInv ==
  /\ ChainType
  /\ \A p \in Providers : Within(failures[p], Sending(p))

\* What the constants give, and the calls that send with a provider.
LEMMA ChainFacts ==
  /\ IsFiniteSet(Senders) /\ Cardinality(Senders) \in Nat
  /\ MAX_FAILURES \in Nat \ {0}
  /\ Len(ProviderOrder) \in Nat \ {0} /\ Places = 1..Len(ProviderOrder)
  /\ \A i \in Places : ProviderOrder[i] \in Providers
<1>1. IsFiniteSet(Senders) /\ MAX_FAILURES \in Nat \ {0}
  BY DeliveryAssumption DEF DeliveryAssumption
<1>2. ProviderOrder \in Seq(validProviders) /\ ProviderOrder # << >>
  BY DeliveryAssumption DEF DeliveryAssumption
<1>3. Len(ProviderOrder) \in Nat \ {0} /\ Places = 1..Len(ProviderOrder)
  BY <1>2 DEF Places
<1> QED
  BY <1>1, <1>3, FS_CardinalityType DEF Providers

LEMMA SendersOf ==
  ASSUME IsFiniteSet(Senders), NEW S \in SUBSET Senders
  PROVE  /\ IsFiniteSet(S) /\ Cardinality(S) \in Nat
         /\ Cardinality(S) <= Cardinality(Senders)
         /\ \A c \in S : Cardinality(S \ {c}) = Cardinality(S) - 1
         /\ \A c \in Senders \ S : S \ {c} = S
BY FS_Subset, FS_CardinalityType, FS_RemoveElement

LEMMA BoundFollows == BreakerInv => BreakerBoundsFailures
BY DEF BreakerInv, Within, BreakerBoundsFailures

LEMMA BreakerInitially == ChainInit => BreakerInv
<1> SUFFICES ASSUME ChainInit PROVE BreakerInv
  OBVIOUS
<1> USE DEF ChainInit
<1>1. ChainType
  BY ChainFacts DEF ChainType, Labels
<1>2. \A p : Sending(p) = {}
  BY DEF Sending, CallAt
<1>3. Cardinality({}) = 0
  BY FS_EmptySet
<1>4. \A p \in Providers : Within(failures[p], Sending(p))
  <2>1. TAKE p \in Providers
  <2>2. failures[p] = 0
    OBVIOUS
  <2>3. MAX_FAILURES - 1 + Cardinality(Senders) \in Nat
    BY ChainFacts
  <2>4. Cardinality(Sending(p)) = 0
    BY <1>2, <1>3
  <2> HIDE DEF ChainInit
  <2> QED
    BY <2>2, <2>3, <2>4 DEF Within
<1> QED
  BY <1>1, <1>4 DEF BreakerInv

\* One call goes elsewhere: with the provider it was at it sends no more, and
\* with no other but the one it went to.
LEMMA SendingMoves ==
  ASSUME ChainType, NEW c \in Senders, NEW label \in Labels, CallGoesTo(c, label),
         \A d \in Senders \ {c} : place'[d] = place[d]
  PROVE  /\ pc' \in [Senders -> Labels]
         /\ \A p : Sending(p)' \subseteq (Sending(p) \ {c}) \union {c}
         /\ \A p : (label = "sending" => ProviderOrder[place'[c]] # p)
                     => Sending(p)' = Sending(p) \ {c}
<1>1. /\ pc' \in [Senders -> Labels] /\ pc'[c] = label
      /\ \A d \in Senders \ {c} : pc'[d] = pc[d]
  BY DEF ChainType, CallGoesTo
<1>2. \A p : Sending(p)' = {d \in Senders : pc'[d] = "sending" /\ ProviderOrder[place'[d]] = p}
  BY DEF Sending, CallAt, Provider
<1>3. \A p : Sending(p) = {d \in Senders : pc[d] = "sending" /\ ProviderOrder[place[d]] = p}
  BY DEF Sending, CallAt, Provider
<1> QED
  BY <1>1, <1>2, <1>3

\* The first of some places is one of them.
LEMMA FirstPlace ==
  ASSUME NEW S \in SUBSET Nat, S # {}
  PROVE  Min(S) \in S
<1>1. \E m \in S : \A n \in S : m <= n
  <2> DEFINE less == {ss \in Nat \X Nat : ss[1] < ss[2]}
  <2>1. IsWellFoundedOn(less, Nat)
    BY NatLessThanWellFounded DEF OpToRel
  <2> HIDE DEF less
  <2>2. PICK m \in S : \A n \in S : ~ (<<n, m>> \in less)
    BY <2>1, WFMin
  <2>3. \A n \in S : ~ (n < m)
    BY <2>2 DEF less
  <2> QED
    BY <2>3
<1> QED
  BY <1>1 DEF Min

\* With c among them or not, one call less can only help.
LEMMA WithinLess ==
  ASSUME IsFiniteSet(Senders), Cardinality(Senders) \in Nat, MAX_FAILURES \in Nat,
         NEW S \in SUBSET Senders, NEW n \in Nat, NEW m \in Nat, NEW c \in Senders,
         Within(n, S), m <= n \/ (c \in S /\ m = n + 1)
  PROVE  Within(m, S \ {c})
<1>1. Cardinality(S) \in Nat /\ Cardinality(S \ {c}) \in Nat
  BY SendersOf
<1>2. Cardinality(S \ {c}) <= Cardinality(S)
  BY <1>1, SendersOf
<1>3. c \in S => Cardinality(S \ {c}) = Cardinality(S) - 1
  BY SendersOf
<1> QED
  BY <1>1, <1>2, <1>3 DEF Within

\* A call stops sending; the counts leave room for the calls that go on.
LEMMA LeavesKeeps ==
  ASSUME ChainType, NEW c \in Senders,
         NEW count \in [Providers -> Nat], NEW label \in Labels \ {"sending"},
         CallGoesTo(c, label), failures' = count, place' = place,
         \A p \in Providers : Within(count[p], Sending(p) \ {c})
  PROVE  BreakerInv'
<1>1. /\ pc' \in [Senders -> Labels]
      /\ \A p : Sending(p)' = Sending(p) \ {c}
  BY SendingMoves
<1>2. ChainType'
  BY <1>1 DEF ChainType
<1>3. \A p \in Providers : Within(failures'[p], Sending(p)')
  BY <1>1
<1>4. \A p \in Providers : Within(failures[p], Sending(p))'
  BY <1>3 DEF Within
<1> QED
  BY <1>2, <1>4 DEF BreakerInv

LEMMA TryFromKeeps ==
  ASSUME ChainType, NEW c \in Senders, NEW first \in Nat \ {0},
         NEW count \in [Providers -> Nat], NEW rest,
         TryFrom(c, first, count, rest),
         \A p \in Providers : Within(count[p], Sending(p) \ {c})
  PROVE  BreakerInv'
<1> DEFINE closed == {i \in first..Len(ProviderOrder) :
                        ~isCircuitOpen(ProviderOrder[i], count, rest)}
           next == Min(closed)
           q == ProviderOrder[next]
<1>1. CASE /\ closed # {} /\ CallGoesTo(c, "sending")
           /\ place' = [place EXCEPT ![c] = next]
           /\ failures' = Reset(q, count)
  <2>1. next \in closed
    <3>1. closed \in SUBSET Nat /\ closed # {}
      BY <1>1, ChainFacts
    <3> HIDE DEF closed
    <3> QED
      BY <3>1, FirstPlace
  <2>2. next \in Places /\ q \in Providers
    BY <2>1, ChainFacts
  <2>3. count[q] < MAX_FAILURES \/ q \in rest
    BY <2>1, <2>2, ChainFacts DEF isCircuitOpen, Opens
  <2> HIDE DEF q, next, closed
  <2>4. /\ failures' \in [Providers -> Nat] /\ failures'[q] < MAX_FAILURES
        /\ \A p \in Providers \ {q} : failures'[p] = count[p]
    BY <1>1, <2>2, ChainFacts DEF Reset, Opens
  <2>5. /\ place' \in [Senders -> Places] /\ place'[c] = next
        /\ \A d \in Senders \ {c} : place'[d] = place[d]
    BY <1>1, <2>2 DEF ChainType
  <2>6. /\ pc' \in [Senders -> Labels]
        /\ \A p \in Providers \ {q} : Sending(p)' = Sending(p) \ {c}
    BY <1>1, <2>5, SendingMoves DEF Labels, q
  <2>7. Within(failures'[q], Sending(q)')
    <3> DEFINE S == {d \in Senders : pc'[d] = "sending" /\ ProviderOrder[place'[d]] = q}
    <3>1. Sending(q)' = S
      BY DEF Sending, CallAt, Provider, q
    <3>2. Cardinality(S) \in Nat /\ Cardinality(S) <= Cardinality(Senders)
      BY SendersOf, ChainFacts
    <3> HIDE DEF S
    <3> QED
      BY <2>2, <2>4, <3>1, <3>2, ChainFacts DEF Within
  <2>8. \A p \in Providers : Within(failures'[p], Sending(p)')
    BY <2>4, <2>6, <2>7
  <2>9. \A p \in Providers : Within(failures[p], Sending(p))'
    BY <2>8 DEF Within
  <2> QED
    BY <2>4, <2>5, <2>6, <2>9 DEF BreakerInv, ChainType
<1>2. CASE CallReturns(c) /\ failures' = count /\ place' = place
  BY <1>2, LeavesKeeps DEF CallReturns, Labels
<1> QED
  BY <1>1, <1>2 DEF TryFrom

\* A call that sends fails: it is counted, and sends no more.
LEMMA FailureCounted ==
  ASSUME BreakerInv, NEW c \in Senders, CallAt(c, "sending")
  PROVE  LET q == Provider(c)
         IN  /\ q \in Providers /\ place[c] \in Nat
             /\ Failed(q) \in [Providers -> Nat]
             /\ \A p \in Providers : Within(Failed(q)[p], Sending(p) \ {c})
<1> DEFINE q == Provider(c)
<1>1. place[c] \in Places /\ place[c] \in Nat /\ q \in Providers
  BY ChainFacts DEF BreakerInv, ChainType, Provider
<1>2. \A p : Sending(p) \in SUBSET Senders
  BY DEF Sending
<1>3. c \in Sending(q)
  BY DEF Sending
<1> HIDE DEF q
<1>4. failures \in [Providers -> Nat]
  BY DEF BreakerInv, ChainType
<1>5. /\ Failed(q) \in [Providers -> Nat]
      /\ Failed(q)[q] = failures[q] + 1
      /\ \A p \in Providers \ {q} : Failed(q)[p] = failures[p]
  BY <1>1, <1>4 DEF Failed
<1>6. ASSUME NEW p \in Providers
      PROVE  Within(Failed(q)[p], Sending(p) \ {c})
  <2>1. Within(failures[p], Sending(p))
    BY DEF BreakerInv
  <2>2. failures[p] \in Nat /\ Failed(q)[p] \in Nat
    BY <1>4, <1>5
  <2>3. Failed(q)[p] <= failures[p] \/ (c \in Sending(p) /\ Failed(q)[p] = failures[p] + 1)
    BY <1>3, <1>5, <2>2
  <2> QED
    BY <1>2, <2>1, <2>2, <2>3, WithinLess, ChainFacts
<1> QED
  BY <1>1, <1>5, <1>6 DEF q

\* A call leaves whatever it does, with no failure counted.
LEMMA NothingCounted ==
  ASSUME BreakerInv, NEW c \in Senders,
         NEW count \in [Providers -> Nat],
         \A p \in Providers : count[p] <= failures[p]
  PROVE  \A p \in Providers : Within(count[p], Sending(p) \ {c})
<1> TAKE p \in Providers
<1>1. Sending(p) \in SUBSET Senders
  BY DEF Sending
<1>2. failures[p] \in Nat /\ count[p] \in Nat /\ Within(failures[p], Sending(p))
  BY DEF BreakerInv, ChainType
<1> QED
  BY <1>1, <1>2, WithinLess, ChainFacts

LEMMA BreakerStep ==
  BreakerInv /\ [ChainNext]_chainVars => BreakerInv'
<1> SUFFICES ASSUME BreakerInv, [ChainNext]_chainVars
             PROVE  BreakerInv'
  OBVIOUS
<1>1. ChainType /\ failures \in [Providers -> Nat]
  BY DEF BreakerInv, ChainType
<1>0. \A p \in Providers : failures[p] \in Nat /\ failures[p] <= failures[p]
  BY <1>1
<1>2. ASSUME NEW c \in Senders, NEW first \in Nat \ {0},
             TryFrom(c, first, failures, rested)
      PROVE  BreakerInv'
  <2>1. \A p \in Providers : Within(failures[p], Sending(p) \ {c})
    BY <1>0, <1>1, NothingCounted
  <2> QED
    BY <1>1, <1>2, <2>1, TryFromKeeps
<1>3. ASSUME NEW c \in Senders, SendEmail(c) PROVE BreakerInv'
  BY <1>2, <1>3 DEF SendEmail
<1>4. ASSUME NEW c \in Senders, Retry(c) PROVE BreakerInv'
  BY <1>2, <1>4 DEF Retry
<1>5. ASSUME NEW c \in Senders, TransientError(c) PROVE BreakerInv'
  <2> DEFINE q == Provider(c)
             count == Failed(q)
  <2>1. CallAt(c, "sending") /\ TryFrom(c, place[c] + 1, count, rested')
    BY <1>5 DEF TransientError, Answers
  <2>2. /\ place[c] \in Nat /\ count \in [Providers -> Nat]
        /\ \A p \in Providers : Within(count[p], Sending(p) \ {c})
    BY <2>1, FailureCounted
  <2> HIDE DEF count
  <2>3. place[c] + 1 \in Nat \ {0}
    BY <2>2
  <2> QED
    BY <1>1, <2>1, <2>2, <2>3, TryFromKeeps
<1>6. ASSUME NEW c \in Senders, PermanentError(c) PROVE BreakerInv'
  <2> DEFINE q == Provider(c)
             count == Failed(q)
  <2>1. /\ CallAt(c, "sending") /\ failures' = count /\ place' = place
        /\ CallGoesTo(c, "asleep") \/ CallGoesTo(c, "idle")
    BY <1>6 DEF PermanentError, Answers, CallReturns
  <2>2. /\ count \in [Providers -> Nat]
        /\ \A p \in Providers : Within(count[p], Sending(p) \ {c})
    BY <2>1, FailureCounted
  <2> HIDE DEF count
  <2> QED
    BY <1>1, <2>1, <2>2, LeavesKeeps DEF Labels
<1>7. ASSUME NEW c \in Senders, Delivered(c) PROVE BreakerInv'
  <2> DEFINE count == [failures EXCEPT ![Provider(c)] = 0]
  <2>1. CallGoesTo(c, "tracking") /\ failures' = count /\ place' = place
    BY <1>7 DEF Delivered
  <2>2. count \in [Providers -> Nat] /\ \A p \in Providers : count[p] <= failures[p]
    <3>1. \A p \in Providers : count[p] \in {0, failures[p]}
      BY <1>1
    <3>2. count \in [Providers -> Nat]
      BY <1>1
    <3> HIDE DEF count
    <3> QED
      BY <1>0, <3>1, <3>2
  <2> HIDE DEF count
  <2>3. \A p \in Providers : Within(count[p], Sending(p) \ {c})
    BY <2>2, NothingCounted
  <2> QED
    BY <1>1, <2>1, <2>2, <2>3, LeavesKeeps DEF Labels
<1>8. ASSUME NEW c \in Senders, Track(c) PROVE BreakerInv'
  <2>1. CallGoesTo(c, "idle") /\ failures' = failures /\ place' = place
    BY <1>8 DEF Track, CallReturns
  <2>2. \A p \in Providers : Within(failures[p], Sending(p) \ {c})
    BY <1>0, <1>1, NothingCounted
  <2> QED
    BY <1>1, <2>1, <2>2, LeavesKeeps DEF Labels
<1>9. ASSUME UNCHANGED <<pc, place>>, failures' \in [Providers -> Nat],
             \A p \in Providers : failures'[p] <= failures[p]
      PROVE  BreakerInv'
  <2>1. ChainType'
    BY <1>1, <1>9 DEF ChainType
  <2>2. \A p \in Providers : Within(failures'[p], Sending(p))
    <3> TAKE p \in Providers
    <3>1. Within(failures[p], Sending(p)) /\ Sending(p) \in SUBSET Senders
      BY DEF BreakerInv, Sending
    <3>2. Cardinality(Sending(p)) \in Nat
      BY <3>1, SendersOf, ChainFacts
    <3>3. failures'[p] \in Nat /\ failures[p] \in Nat /\ failures'[p] <= failures[p]
      BY <1>1, <1>9
    <3> QED
      BY <3>1, <3>2, <3>3, ChainFacts DEF Within
  <2>3. \A p : Sending(p)' = Sending(p)
    BY <1>9 DEF Sending, CallAt, Provider
  <2>4. \A p \in Providers : Within(failures[p], Sending(p))'
    BY <2>2, <2>3 DEF Within
  <2> QED
    BY <2>1, <2>4 DEF BreakerInv
<1>10. CASE getProviderHealth
  <2>1. /\ UNCHANGED <<pc, place>>
        /\ failures' = [p \in Providers |->
             IF p \in rested THEN Reset(p, failures)[p] ELSE failures[p]]
    BY <1>10 DEF getProviderHealth
  <2>2. ASSUME NEW p \in Providers
        PROVE  failures'[p] \in Nat /\ failures'[p] <= failures[p]
    <3>1. Reset(p, failures)[p] \in {0, failures[p]}
      BY <1>1 DEF Reset
    <3>2. failures[p] \in Nat /\ failures'[p] \in {0, failures[p]}
      BY <1>1, <2>1, <3>1
    <3> QED
      BY <3>2
  <2>3. failures' \in [Providers -> Nat]
    BY <2>1, <2>2
  <2> QED
    BY <1>9, <2>1, <2>2, <2>3
<1>11. CASE UNCHANGED <<failures, pc, place>>
  BY <1>1, <1>9, <1>11
<1>12. ASSUME NEW p, Rest(p) PROVE BreakerInv'
  BY <1>11, <1>12 DEF Rest
<1>13. CASE UNCHANGED chainVars
  BY <1>11, <1>13 DEF chainVars
<1> QED
  BY <1>3, <1>4, <1>5, <1>6, <1>7, <1>8, <1>10, <1>12, <1>13
     DEF ChainNext, Step

\* Whatever calls overlap and however often, a provider that fails is never hit
\* more than MAX_FAILURES times and once more for every other call in flight
\* (provider.factory.ts).
THEOREM BreakerBoundsFailuresHolds == ChainSpec => []BreakerBoundsFailures
BY BreakerInitially, BreakerStep, BoundFollows, PTL DEF ChainSpec
=============================================================================
