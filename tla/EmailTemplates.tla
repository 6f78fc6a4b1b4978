--------------------------- MODULE EmailTemplates ---------------------------
(***************************************************************************)
(* The mails of EmailService (src/src/services/email/email.service.ts) and *)
(* the rendering of their templates: which template file each method asks  *)
(* for, the names its context gives, and the cache of compiled templates.  *)
(*                                                                         *)
(* Templates are compiled with strict: true: a variable whose name is not  *)
(* in the context is an error, one that is there with the value undefined  *)
(* is not.  So the names are all that rendering tells apart.               *)
(***************************************************************************)
EXTENDS Naturals, Sequences, SequencesExt

CONSTANTS Slots,         \* the calls of sendEmail in flight together
          maxCacheSize

ASSUME CacheAssumption == maxCacheSize \in Nat \ {0}

\* The files of src/static/emails, each with the variables in its text.
TemplateFiles ==
  [template \in {"otp-email", "onboarding-email", "welcome"} |->
     CASE template = "otp-email" -> {"otp", "userName", "expiryMinutes", "supportEmail"}
       [] template = "onboarding-email" -> {"userName", "signupDate", "supportEmail", "year"}
       [] template = "welcome" -> {}]

-----------------------------------------------------------------------------
(* The mails: what a method of EmailService passes to sendEmail.           *)

Mail(template, names) == [template |-> template, names |-> names]

\* A form the code could have had by mistake: the verification code's mail
\* without the minutes.
OtpMailsCut ==
  { Mail("otp-email", {"otp", "userName", "supportEmail"}) }

OtpMails ==
  { Mail("otp-email", {"otp", "userName", "expiryMinutes", "supportEmail"}),
    Mail("login-verification", {"otp", "userName", "expiryMinutes", "supportEmail"}),
    Mail("forgot-password", {"otp", "userName", "expiryHours", "supportEmail"}),
    Mail("update-user-profile", {"otp", "userName", "expiryMinutes", "supportEmail"}) }

LoginDetails ==
  {"userName", "userEmail", "loginTime", "ipAddress", "deviceName",
   "operatingSystem", "location", "supportEmail"}

LoginMails ==
  { Mail("reset-password", {"userName", "loginLink", "supportEmail"}),
    Mail("login-security-alert", LoginDetails),
    Mail("different-country-login-alert", LoginDetails \union {"resetPasswordLink"}) }

AccountMails ==
  { Mail("onboarding-email", {"userName", "signupDate", "supportEmail", "year"}),
    Mail("failed-login-attempt",
         {"userName", "attemptCount", "lastAttemptTime", "ipAddress", "deviceName",
          "location", "supportEmail", "resetPasswordLink"}),
    Mail("verxaid-updated",
         {"userName", "oldUsername", "newUsername", "updateTime", "supportEmail",
          "contactIfNotYou"}) }

AdminMails == { Mail("admin-invitation", {"inviteUrl", "expiryHours", "supportEmail"}) }
EscalationMails == { Mail("admin-notification", {"userName", "title", "message"}) }

Payout ==
  {"userName", "amount", "currency", "bankName", "accountNumber",
   "transactionReference", "date", "supportEmail"}

MoneyMails ==
  { Mail("wallet-transaction",
         {"userName", "title", "amount", "currency", "date", "from", "to",
          "transactionReference", "explorerLink", "supportEmail"}),
    Mail("payout-completed", Payout),
    Mail("payout-failed", Payout \union {"reason"}),
    Mail("card-transaction",
         {"userName", "title", "amount", "cardType", "transactionType", "date",
          "merchant", "transactionReference", "supportEmail"}) }

PinMails ==
  { Mail("transaction-pin-created",
         {"userName", "currentTime", "ipAddress", "deviceInfo", "supportEmail"}) }

SwapMails ==
  { Mail("swap-transaction",
         {"userName", "title", "status", "fromAsset", "toAsset", "fromAmount",
          "toAmount", "fee", "rate", "txnId", "date", "supportEmail"}) }

PinResetMails ==
  { Mail("transaction-pin-reset-success",
         {"userName", "currentTime", "timezone", "ipAddress", "deviceInfo", "supportEmail"}),
    Mail("transaction-pin-reset-blocked",
         {"userName", "retryMinutes", "ipAddress", "currentTime", "timezone", "supportEmail"}) }

EsimOrderMails ==
  { Mail("esim-qrcode",
         {"userName", "qrCode", "qrCodeUrl", "claimUrl", "transferCode", "supportEmail"}),
    Mail("esim-order-completed",
         {"userName", "orderId", "qrCodeUrl", "iccid", "planId", "createdAt", "supportEmail"}),
    Mail("esim-order-failed",
         {"userName", "orderId", "planId", "createdAt", "errorMessage", "supportEmail"}) }

EsimTopupMails ==
  { Mail("esim-topup-activated",
         {"userName", "currentDataPercentage", "esimId", "viewEsimUrl", "supportEmail"}),
    Mail("esim-topup-ready",
         {"userName", "orderId", "esimId", "planId", "activatedAt", "expiresAt",
          "viewInstructionsUrl", "supportEmail"}),
    Mail("esim-low-data",
         {"userName", "packageName", "level", "remainingPercentage", "supportEmail"}),
    Mail("esim-claim-success", {"userName", "iccid", "qrCode", "supportEmail"}),
    Mail("esim-receipt",
         {"userName", "invoiceNumber", "txnId", "amount", "date", "supportEmail"}) }

KycMails ==
  { Mail("kyc-verification-successful",
         {"userName", "verificationLevel", "verificationDate", "tier", "supportEmail"}),
    Mail("kyc-verification-failed",
         {"userName", "verificationLevel", "verificationDate", "tier", "rejectLabels",
          "supportEmail"}),
    Mail("kyc-tier-upgrade",
         {"userName", "fromTier", "toTier", "upgradeDate", "newTierLevel", "supportEmail"}) }

Mails ==
  OtpMails \union LoginMails \union AccountMails \union AdminMails
    \union EscalationMails \union MoneyMails \union PinMails \union SwapMails
    \union PinResetMails \union EsimOrderMails \union EsimTopupMails \union KycMails

HasFile(mail) == mail.template \in DOMAIN TemplateFiles
Complete(mail) == TemplateFiles[mail.template] \subseteq mail.names

-----------------------------------------------------------------------------
VARIABLES
  templateCache,   \* names of the compiled templates, oldest first
  call             \* the sendEmail calls: [at, mail]

renderVars == <<templateCache, call>>

NoMail == Mail("none", {})
Idle == [at |-> "idle", mail |-> NoMail]

RenderInit ==
  /\ templateCache = << >>
  /\ call = [c \in Slots |-> Idle]

At(c, label) == call[c].at = label
Goto(c, label) == call' = [call EXCEPT ![c].at = label]

Cached(template) == template \in Range(templateCache)

\* The mistake of an off-by-one in the test for a full cache.
EvictLate(cache) == IF Len(cache) > maxCacheSize THEN Tail(cache) ELSE cache
\* A full cache gives up its first key before a template is set.
Evict(cache) == IF Len(cache) >= maxCacheSize THEN Tail(cache) ELSE cache

\* Map.set: a key that is there keeps its place.
Set(cache, template) ==
  IF template \in Range(cache) THEN cache ELSE Append(cache, template)

\* The template is run on the context: with a name missing it throws, and
\* sendEmail returns false.
Rendered(c, mail) ==
  call' = [call EXCEPT ![c] = [at |-> IF Complete(mail) THEN "sending" ELSE "incomplete",
                               mail |-> mail]]

\* sendEmail begins.  A method whose template has no file changes nothing: its
\* access() fails and sendEmail returns false.  A call that threw is over.
Begin(c, mail) ==
  /\ call[c].at \in {"idle", "incomplete"}
  /\ IF ~HasFile(mail)
     THEN UNCHANGED call
     ELSE IF Cached(mail.template)
          THEN Rendered(c, mail)
          ELSE call' = [call EXCEPT ![c] = [at |-> "reading", mail |-> mail]]
  /\ UNCHANGED templateCache

\* access() and readFile() have answered: compile, evict, set and render follow
\* without a pause.  Another call may have set the same template meanwhile.
Compile(c) ==
  /\ At(c, "reading")
  /\ templateCache' = Set(Evict(templateCache), call[c].mail.template)
  /\ Rendered(c, call[c].mail)

\* The cache never holds more templates than its limit nor one of them twice,
\* also when calls that missed it read the same or different files at once
\* (email.service.ts:108-131: the look-up and the set are two awaits apart).
CacheIsBounded ==
  /\ Len(templateCache) <= maxCacheSize
  /\ \A i, j \in DOMAIN templateCache :
       templateCache[i] = templateCache[j] => i = j

\* No mail fails for a variable of its template that its method does not give:
\* strict mode turns that into an exception at run time, in the one branch of
\* the program that sends that mail.
MailsAreComplete == \A c \in Slots : ~At(c, "incomplete")
=============================================================================
