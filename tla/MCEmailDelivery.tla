-------------------------- MODULE MCEmailDelivery --------------------------
(* Two overlapping sendEmail calls over the chain that a configuration     *)
(* with one unknown name yields; the providers' batches and verification   *)
(* against what they should answer.                                        *)
EXTENDS EmailDelivery

CONSTANTS c1, c2

TwoSenders == {c1, c2}
TwoProviders == providerOrder(<<"resend", "sendgrid", "smtp">>)

\* A batch answers every request in its place, whatever happens to the chunks
\* before and after: request i succeeds exactly when its chunk was sent and its
\* place in the chunk got an id.
ChunkHappenings(size) ==
  {[how |-> "api error", name |-> "rate_limit_exceeded"], [how |-> "throws", statusCode |-> 500]}
    \union [how : {"sent"}, accepted : SUBSET (1..size)]
GotItsId(i, size, happenings) ==
  LET happening == happenings[1 + (i - 1) \div size]
  IN  happening.how = "sent" /\ 1 + ((i - 1) % size) \in happening.accepted
ASSUME BatchAnswersEveryRequest ==
  \A size \in 1..3, n \in 0..5 :
    \A happenings \in [1..Chunks(n, size) -> ChunkHappenings(size)] :
      LET batch == sendBatch(TRUE, n, size, happenings)
          wanted == {i \in 1..n : GotItsId(i, size, happenings)}
      IN  /\ Len(batch.results) = n
          /\ {i \in 1..n : batch.results[i].success} = wanted
          /\ batch.successCount = Cardinality(wanted)
          /\ batch.failureCount = n - Cardinality(wanted)

\* No provider counts as verified whose credentials nothing has confirmed.
ASSUME VerifiedMeansConfirmed ==
  \A ready \in [validProviders -> BOOLEAN], answer \in [validProviders -> VerifyAnswers] :
    LET verified == verifyAll(validProviders, ready, answer)
    IN  /\ verified["resend"] => ready["resend"] /\ answer["resend"] \notin {"refused", "throws"}
        /\ verified["smtp"] /\ ~ready["smtp"] => answer["smtp"] = "accepted"
=============================================================================
