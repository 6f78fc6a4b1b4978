--------------------------- MODULE EmailProviders ---------------------------
(***************************************************************************)
(* What the providers of src/src/services/email/providers answer to send:  *)
(* for everything that can happen to a mail on its way, whether the answer *)
(* is a success, an error for good or an error the next provider may cure. *)
(* The services behind them are known by the errors the code looks for.    *)
(***************************************************************************)
EXTENDS Naturals, Sequences, SequencesExt

\* parseProviderConfig and initializeProviders: the configured names that exist,
\* in their order, a repeated one as often as it is named.
validProviders == {"resend", "smtp"}
providerOrder(configured) ==
  LET filtered == SelectSeq(configured, LAMBDA p : p \in validProviders)
  IN  IF filtered = << >> THEN <<"smtp">> ELSE filtered

-----------------------------------------------------------------------------
(* An error is told by its name, code, HTTP status and SMTP reply; 0 and   *)
(* "none" where it has none.                                               *)

Error(name, code, statusCode, responseCode) ==
  [name |-> name, code |-> code, statusCode |-> statusCode, responseCode |-> responseCode]

NoError == Error("none", "none", 0, 0)
PlainError == Error("Error", "none", 0, 0)

Success == [success |-> TRUE, error |-> NoError]
Failure(error) == [success |-> FALSE, error |-> error]

\* ResendProvider.
permanentStatusCodes == {400, 401, 403, 422}
permanentErrorNames ==
  {"validation_error", "invalid_to", "invalid_from", "missing_required_field",
   "invalid_api_key", "restricted_api_key", "NOT_INITIALIZED"}

resendIsPermanentError(error) ==
  \/ error.statusCode \in permanentStatusCodes
  \/ error.name \in permanentErrorNames

\* Without a key send answers a plain error: NOT_INITIALIZED is the errorCode of
\* the response, which isPermanentError is not shown.
ResendHappenings ==
  [how : {"accepted", "no key"}]
    \union [how : {"api error"},
            name : (permanentErrorNames \ {"NOT_INITIALIZED"})
                     \union {"rate_limit_exceeded", "application_error"}]
    \union [how : {"throws"}, statusCode : permanentStatusCodes \union {0, 429, 500}]

resendSend(happening) ==
  CASE happening.how = "accepted" -> Success
    [] happening.how = "no key" -> Failure(PlainError)
    [] happening.how = "api error" -> Failure(Error(happening.name, "none", 0, 0))
    [] happening.how = "throws" -> Failure(Error("Error", "none", happening.statusCode, 0))

\* SmtpProvider: sendMail of nodemailer resolves or rejects.
permanentCodes == {"EAUTH", "EENVELOPE", "EMESSAGE"}

smtpIsPermanentError(error) ==
  error.code \in permanentCodes \/ error.responseCode \in 500..599

SmtpHappenings ==
  [how : {"accepted"}]
    \union [how : {"throws"},
            code : permanentCodes \union {"ECONNECTION", "ETIMEDOUT", "none"},
            responseCode : {0, 421, 450, 501, 550, 599}]

smtpSend(happening) ==
  CASE happening.how = "accepted" -> Success
    [] happening.how = "throws" ->
         Failure(Error("Error", happening.code, 0, happening.responseCode))

-----------------------------------------------------------------------------
(* sendBatch of the Resend provider: the requests go out in chunks, each   *)
(* chunk is answered as a whole, and the results of the chunks make one    *)
(* sequence.  What happens to a chunk: the API refuses it, the call throws,*)
(* or the places in "accepted" get a message id.                           *)

MissingId == Failure(Error("missing_id", "none", 0, 0))

chunkResults(size, happening) ==
  CASE happening.how = "api error" ->
         [i \in 1..size |-> Failure(Error(happening.name, "none", 0, 0))]
    [] happening.how = "throws" ->
         [i \in 1..size |-> Failure(Error("Error", "none", happening.statusCode, 0))]
    [] happening.how = "sent" ->
         [i \in 1..size |-> IF i \in happening.accepted THEN Success ELSE MissingId]

Chunks(requests, BATCH_CHUNK_SIZE) ==
  (requests + BATCH_CHUNK_SIZE - 1) \div BATCH_CHUNK_SIZE
ChunkSize(requests, BATCH_CHUNK_SIZE, chunk) ==
  IF chunk * BATCH_CHUNK_SIZE <= requests
  THEN BATCH_CHUNK_SIZE
  ELSE requests % BATCH_CHUNK_SIZE

Counted(results) ==
  LET sent == Len(SelectSeq(results, LAMBDA r : r.success))
  IN  [results |-> results, successCount |-> sent, failureCount |-> Len(results) - sent]

\* happenings: one for each chunk.
sendBatch(isInitialized, requests, BATCH_CHUNK_SIZE, happenings) ==
  IF isInitialized
  THEN Counted(FlattenSeq([chunk \in 1..Chunks(requests, BATCH_CHUNK_SIZE) |->
         chunkResults(ChunkSize(requests, BATCH_CHUNK_SIZE, chunk), happenings[chunk])]))
  ELSE Counted([i \in 1..requests |-> Failure(PlainError)])

-----------------------------------------------------------------------------
(* Verification at start-up.  A key restricted to sending is refused with  *)
(* an error that shows it to be valid.                                     *)

resendVerify(isInitialized, answer) ==
  isInitialized /\ answer \in {"accepted", "restricted to only send emails"}

\* Once verified, the SMTP provider does not ask again.
smtpVerify(isVerified, answer) == isVerified \/ answer = "accepted"

VerifyAnswers == {"accepted", "restricted to only send emails", "refused", "throws"}

\* ready: whether Resend has its key, whether SMTP was verified before.
verifyAll(providers, ready, answer) ==
  [p \in providers |->
     IF p = "resend"
     THEN resendVerify(ready[p], answer[p])
     ELSE smtpVerify(ready[p], answer[p])]

-----------------------------------------------------------------------------
Happenings(provider) ==
  CASE provider = "resend" -> ResendHappenings
    [] provider = "smtp" -> SmtpHappenings

send(provider, happening) ==
  CASE provider = "resend" -> resendSend(happening)
    [] provider = "smtp" -> smtpSend(happening)

isPermanentError(provider, error) ==
  CASE provider = "resend" -> resendIsPermanentError(error)
    [] provider = "smtp" -> smtpIsPermanentError(error)

\* How sendWithFallback takes the provider's response.
Verdict(provider, response) ==
  CASE response.success -> "delivered"
    [] ~response.success /\ isPermanentError(provider, response.error) -> "permanent"
    [] OTHER -> "transient"

\* The verdicts a send of a provider can end with.
Verdicts(provider) ==
  {Verdict(provider, send(provider, h)) : h \in Happenings(provider)}
=============================================================================
