------------------------------ MODULE MailPath ------------------------------
(***************************************************************************)
(* A mail from the method that sends it to the events its provider reports *)
(* (src/src/services/email, src/src/queues/email.queue.ts): EmailTemplates *)
(* renders it, a provider accepts or refuses it, sendEmail writes its row, *)
(* EmailTracking follows it from there.  Which provider, and after how     *)
(* many attempts, is EmailDelivery's subject; here it is one step.         *)
(***************************************************************************)
EXTENDS EmailTemplates, EmailTracking

CONSTANTS MaxMails    \* bound: mails ever begun

VARIABLES messageId,  \* the id under which a call's mail was accepted
          begun

vars == <<renderVars, trackVars, messageId, begun>>

Init ==
  /\ RenderInit /\ TrackInit
  /\ messageId = [c \in Slots |-> "none"]
  /\ begun = 0

Free(c) == call[c].at \in {"idle", "incomplete"}
Return(c) == call' = [call EXCEPT ![c] = Idle]

sendEmail(c) ==
  /\ begun < MaxMails /\ begun' = begun + 1
  /\ \E mail \in Mails : Begin(c, mail)
  /\ UNCHANGED <<trackVars, messageId>>

\* A job of the email queue: a new EmailService, whose cache is empty and
\* forgotten afterwards, sends the onboarding mail.
welcomeJob(c) ==
  /\ Free(c)
  /\ begun < MaxMails /\ begun' = begun + 1
  /\ \E mail \in Mails : mail.template = "onboarding-email" /\ Rendered(c, mail)
  /\ UNCHANGED <<templateCache, trackVars, messageId>>

Render(c) ==
  /\ Compile(c)
  /\ UNCHANGED <<trackVars, messageId, begun>>

\* A provider takes the mail and names it; its events may start to arrive.
Accepted(c) ==
  /\ At(c, "sending")
  /\ \E m \in Messages \ issued :
       /\ issued' = issued \union {m}
       /\ messageId' = [messageId EXCEPT ![c] = m]
  /\ Goto(c, "logging")
  /\ UNCHANGED <<templateCache, emailLogs, emailEvents, hook, arrived, raced, begun>>

\* No provider takes it, the CSS cannot be inlined, or the provider's answer has
\* no id and sendEmail writes no row.
NotTracked(c) ==
  /\ At(c, "sending")
  /\ Return(c)
  /\ UNCHANGED <<templateCache, trackVars, messageId, begun>>

Log(c) ==
  /\ At(c, "logging")
  /\ \/ logEmailSent(messageId[c])
     \/ UNCHANGED emailLogs           \* the insert fails: sendEmail returns false
  /\ Return(c)
  /\ messageId' = [messageId EXCEPT ![c] = "none"]
  /\ UNCHANGED <<templateCache, issued, emailEvents, hook, arrived, raced, begun>>

Tracking == TrackNext /\ UNCHANGED <<renderVars, messageId, begun>>

Next ==
  \/ \E c \in Slots :
       sendEmail(c) \/ welcomeJob(c) \/ Render(c) \/ Accepted(c) \/ NotTracked(c) \/ Log(c)
  \/ Tracking

Spec == Init /\ [][Next]_vars
=============================================================================
