--------------------------- MODULE EmailTracking ---------------------------
(***************************************************************************)
(* EmailTrackingService (src/src/services/email/tracking.service.ts) over  *)
(* the tables email_logs and email_events: the row a sent mail leaves, and *)
(* the provider's webhook events, which arrive in any order, twice, and    *)
(* perhaps before the row does.                                            *)
(*                                                                         *)
(* A hook is one call of processSendgridEvent.  Each of its statements is  *)
(* a step of its own; any of them may fail, or the process may stop.       *)
(***************************************************************************)
EXTENDS Naturals, Sequences, SequencesExt, Functions

CONSTANTS Messages,   \* the message ids the providers give out
          Hooks,      \* calls of processSendgridEvent in flight together
          Kinds,      \* the events that arrive
          MaxEvents   \* bound: events that ever arrive

EMAIL_STATUSES ==
  <<"pending", "sent", "delivered", "opened", "clicked", "bounced", "failed">>

SendGridEvent ==
  {"bounce", "delivered", "deferred", "dropped", "processed", "open", "click",
   "spamreport", "unsubscribe"}

ASSUME TrackingAssumption == Kinds \subseteq SendGridEvent /\ MaxEvents \in Nat

VARIABLES
  issued,     \* message ids of accepted mails
  emailLogs,  \* message id -> its row
  emailEvents,\* the rows of email_events: <<message id, type>>
  hook,       \* hook -> where it is, and with what
  arrived,    \* events that arrived (bound)
  raced       \* history: rows two hooks changed at once, or one left half done

trackVars == <<issued, emailLogs, emailEvents, hook, arrived, raced>>

NoRow == [status |-> "none", stamped |-> {}]
NewRow == [status |-> "pending", stamped |-> {}]
HookIdle == [at |-> "idle", message |-> "none", kind |-> "none"]

TrackInit ==
  /\ issued = {}
  /\ emailLogs = [m \in Messages |-> NoRow]
  /\ emailEvents = {}
  /\ hook = [h \in Hooks |-> HookIdle]
  /\ arrived = 0
  /\ raced = {}

\* The switch of processSendgridEvent: the event it passes on, if it does.
PassedOn(kind) ==
  CASE kind \in {"delivered", "open", "click", "bounce", "deferred", "processed"} -> kind
    [] kind = "dropped" -> "bounce"
    [] OTHER -> "none"

\* eventStatusMap; eventTimestampMap has the same keys, each with a column of
\* its own, so a column is named by its event.
StatusOf(event) ==
  CASE event = "delivered" -> "delivered"
    [] event = "open" -> "opened"
    [] event = "click" -> "clicked"
    [] event = "bounce" -> "bounced"
    [] event = "deferred" -> "failed"
    [] OTHER -> "none"

\* indexOf: each status is in the list, once.
Rank(status) == CHOOSE i \in DOMAIN EMAIL_STATUSES : EMAIL_STATUSES[i] = status

\* What the comparison would let through without its direction.
CanChangeStatus(new, current) == new # current
canAdvanceStatus(new, current) == Rank(new) > Rank(current)

logEmailSent(m) == emailLogs' = [emailLogs EXCEPT ![m] = NewRow]

HookAt(h, label) == hook[h].at = label
HookGoto(h, label) == hook' = [hook EXCEPT ![h].at = label]
HookEnds(h) == hook' = [hook EXCEPT ![h] = HookIdle]

\* An event arrives and its row is looked up; without one the event is dropped.
processSendgridEvent(h, m, kind) ==
  /\ HookAt(h, "idle") /\ m \in issued /\ arrived < MaxEvents
  /\ arrived' = arrived + 1
  /\ IF emailLogs[m] = NoRow
     THEN UNCHANGED hook
     ELSE hook' = [hook EXCEPT ![h] = [at |-> "found", message |-> m, kind |-> kind]]
  /\ UNCHANGED <<issued, emailLogs, emailEvents, raced>>

InsertEvent(h) ==
  emailEvents' = emailEvents \union {<<hook[h].message, hook[h].kind>>}

createEmailEvent(h) ==
  /\ HookAt(h, "found")
  /\ InsertEvent(h)
  /\ IF PassedOn(hook[h].kind) = "none" THEN HookEnds(h) ELSE HookGoto(h, "recorded")
  /\ UNCHANGED <<issued, emailLogs, arrived, raced>>

Event(h) == PassedOn(hook[h].kind)

Advances(h) ==
  LET row == emailLogs[hook[h].message]
  IN  /\ StatusOf(Event(h)) # "none"
      /\ canAdvanceStatus(StatusOf(Event(h)), row.status)
      /\ Event(h) \notin row.stamped

Advancing(m) == {h \in Hooks : HookAt(h, "advancing") /\ hook[h].message = m}

\* handleTrackingEvent reads the row again and decides.
handleTrackingEvent(h) ==
  /\ HookAt(h, "recorded")
  /\ IF Advances(h) THEN HookGoto(h, "advancing") ELSE HookEnds(h)
  /\ raced' = IF Advances(h) /\ Advancing(hook[h].message) # {}
              THEN raced \union {hook[h].message} ELSE raced
  /\ UNCHANGED <<issued, emailLogs, emailEvents, arrived>>

\* One UPDATE sets the status and the event's timestamp, whatever they are now.
updateEmailLog(h) ==
  /\ HookAt(h, "advancing")
  /\ emailLogs' = [emailLogs EXCEPT ![hook[h].message] =
                     [status |-> StatusOf(Event(h)),
                      stamped |-> @.stamped \union {Event(h)}]]
  /\ HookEnds(h)
  /\ UNCHANGED <<issued, emailEvents, arrived, raced>>

\* A statement fails or the process stops: the event may be recorded already.
HookFails(h) ==
  /\ ~HookAt(h, "idle")
  /\ HookEnds(h)
  /\ raced' = IF HookAt(h, "found") THEN raced ELSE raced \union {hook[h].message}
  /\ UNCHANGED <<issued, emailLogs, emailEvents, arrived>>

HookStep(h) ==
  \/ createEmailEvent(h) \/ handleTrackingEvent(h) \/ updateEmailLog(h)

TrackNext ==
  \E h \in Hooks :
    \/ \E m \in Messages, kind \in Kinds : processSendgridEvent(h, m, kind)
    \/ HookStep(h)
    \/ HookFails(h)

-----------------------------------------------------------------------------
(* Properties.                                                             *)

EventsOf(m) == {kind \in Kinds : <<m, kind>> \in emailEvents}
StatusesOf(m) == {StatusOf(PassedOn(kind)) : kind \in EventsOf(m)} \ {"none"}
Resting(m) == \A h \in Hooks : hook[h].message # m

\* The status of a mail is one its recorded events stand for, wherever a hook was
\* cut short; and once the hooks are done it is the highest of these, in whatever
\* order and however often they came, unless two hooks were between their read
\* and their write at once, or one was cut short there (tracking.service.ts:43-104).
StatusFollowsEvents ==
  \A m \in Messages :
    /\ emailLogs[m].status \in {"none", "pending"} \union StatusesOf(m)
    /\ Resting(m) /\ m \notin raced =>
         \A status \in StatusesOf(m) : Rank(status) <= Rank(emailLogs[m].status)
=============================================================================
