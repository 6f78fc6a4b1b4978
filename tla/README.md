# A TLA+ development of VERXA-BACKEND

TLA+ models of the backend in `src/`, the TLC runs that check them and the
TLAPS proofs about them. Paths below are relative to `src/src/` unless they
start with `src/`. `PROJECT.json` maps every definition to the lines it stands
for, and lists the runs, the hazards, the findings and the theorems.

The backend is a Node/Express service. One process runs one callback at a time
and suspends only at `await`, so two requests interleave exactly there; several
processes share one Redis and one PostgreSQL database. A step of a model is
therefore the code from one `await` to the next: one Redis command, one SQL
statement, one provider call, or one timer.

## 1. The system

Routes that are wired today: `POST /auth/signup`, `/users/profile/{basic,
password,purposes}`, `/otp/send`, `/otp/validate`, `GET /verxatags/check`,
`POST /verxatags/claim`, `GET /verxatags/:username`. Much of the code has no
caller yet (the lock, the idempotency middleware and repository, parts of the
PIN helper, OAuth, the user repository); it is modelled for what it promises the callers to come.

| Component | State | Operations | What is hard | What makes it right |
|---|---|---|---|---|
| OTP service `services/otp/index.service.ts` | five Redis keys per identifier and type: code, resend count, attempt count, two blocks | `generateAndSendOtp`, `resendOtp`, `validateOtp`, `checkOtp` | calls overlap between Redis commands; keys expire; the mail fails; the process dies | attempts and mails stay within their limits; a code is accepted once |
| OTP orchestration `services/otp.service.ts` | users, tokens, devices, through other services | `sendOtp`, `validateOtp` | eight writes in a row and no transaction, after the code is already consumed | nobody ends up verified without a way to log in; tokens only for a consumed code |
| Transaction PIN `services/pin.service.ts`, `rateLimitPinAttempts` in `utils/helpers/auth.helper.ts` | failure counter and lockout in Redis | `verifyTransactionPin`, `rateLimitPinAttempts` | the counter is read and written by two commands | no lockout that was not earned; the budget of wrong PINs |
| PIN helper `utils/helpers/pin.helper.ts` | attempts, total and block in Redis | `registerFailedPinAttempt`, `checkPinBlocked`, `resetPinAttempts`, `isWeakPin` | INCR and EXPIRE apart, thresholds tested for equality | no threshold is stepped over; only weak PINs are refused |
| Verxatag `services/verxatag.service.ts`, `repository/verxatag.ts` | tables `verxatags` and `users`, the connection pool | `claimVerxatag`, `updateVerxatag`, `checkUsernameAvailability` | checks outside the transaction; a claim holds one connection and needs another | names are unique, one tag a user, two renames a year, requests end |
| Distributed lock `utils/distributedLock.ts` | one Redis key with a token and a time to live | `acquire`, `release`, `withLock` | expiry under a running holder, lost replies, retries, crashes | nobody loses a lease that has not run out; calls end |
| Idempotency repository `repository/idempotency.ts`, `jobs/idempotency-cleanup.cron.ts` | table `idempotency_keys` | `acquire`, `complete`, `getKey`, `setKey`, `deleteExpiredKeys` | statements committed one by one, expiry, a cleanup job every 30 minutes | one acquirer for each life of a row |
| Idempotency middleware `middlewares/idempotency.middleware.ts` | one Redis record per user, endpoint and body hash | the middleware around a handler | GET then SET, the final SET not awaited, Redis failures | the handler runs once; a request gets its own answer |
| Email delivery `services/email/email.service.ts`, `services/email/providers/*.ts`, `queues/email.queue.ts` | circuit breakers, retry state and template cache in memory | `sendEmail` and the methods that call it, `sendWithFallback`, the providers' `send`, `sendBatch`, `verify` | retries around a fallback chain around breakers, all with calls in flight; a cache filled two awaits after it was looked up; templates compiled in strict mode | failures are bounded; calls end; the cache stays bounded; no mail lacks a variable |
| Email tracking `services/email/tracking.service.ts`, `repository/email-tracking.ts` | tables `email_logs`, `email_events` | `logEmailSent`, `processSendgridEvent`, `handleTrackingEvent` | webhooks arrive reordered and twice, before the row is written | the status is the highest one the events stand for |
| Auth tokens `utils/helpers/auth.helper.ts`, `middlewares/auth.ts` | token and blacklist keys in Redis, users | `createAuthToken`, `blacklistToken`, `protect`, `checkAccountLockout`, `checkPinBlocked` | read, blacklist and store are three commands | one live access token for a user |
| Sign-up and profile `services/auth.service.ts`, `services/user.service.ts` | users, devices | `signup`, profile steps | several writes in a row | the order of the steps of an account |
| OAuth `config/passport.ts`, `services/auth/oauth.service.ts` | used-token keys, users, `oauth_providers` | strategies, `handleOAuthCallback`, linking | check and mark are two commands; look-ups and inserts are statements of their own | a token is accepted once; an identity keeps its account |
| User repository `repository/user.ts` | users | deletion and archive, avatar history, failed logins, MFA | read-modify-write, beside an overwrite of the same columns; a batch job racing a user | no upload is lost from the history until `updateAvatar` replaces it |
| Devices `repository/device.ts`, `services/security/device-trust.service.ts`, `repository/device-trust-token-history.ts` | devices, token history | register, activate, rotate, revoke, push tokens, clean-ups | what was read is out of date when it is acted on | a device has the tokens of one validation; clean-ups spare tokens in use |
| Redis manager `config/redis.ts` | one client, connection state | `connect`, `getClientOrConnect`, `disconnect`, commands | calls during the first connect, reconnects | no connection without a reason; calls end |
| Localization `services/localization/index.services.ts`, `middlewares/localization.ts` | column, session and cache | lookup, set, migrate, fill | fill races | the cache follows the row |
| Rate limiting `middlewares/rate-limiting.ts` | a limiter for each preset, counters in Redis and in memory | factory and presets | two first requests, lost replies, an insurance limiter | the configured limits |
| Pure helpers `utils/pagination.ts`, `utils/helpers/data.helpers.ts` | none | page arithmetic, name similarity | boundaries | equal to a reference definition |

Interactions: `updateVerxatag` calls `verifyTransactionPin`; the OTP service
mails through `EmailService` and undoes its store when that answers false;
the OTP orchestration consumes a code and then calls the user repository, the
token helper and the device repository; the cleanup job deletes rows that
`acquire` reads; every counter lives behind the Redis manager, which the rate
limiters ask for their client; a mail that a provider took becomes a row that
webhook events advance.

## 2. Modules

| Module | Models | Runs | Proofs |
|---|---|---|---|
| `Budget` | abstract: what an attempt counter with a limit promises | | |
| `Otp` | the OTP service, implements `Budget` twice | `otp` | `OtpProofs` |
| `TransactionPin` | `verifyTransactionPin` and the limiter on its counter | `pin` | `TransactionPinProofs` |
| `Verxatag` | claims and renames over tables, pool and years | `verxatag`, `verxatag_twice` | `VerxatagProofs` |
| `Account` | sign-up, `OtpService.validateOtp`, access tokens, devices, profile | `account` | `AccountProofs` |
| `Lease` | abstract: what a lock with a time to live promises | | |
| `DistributedLock` | `withLock`, implements `Lease` | `lock` | `DistributedLockProofs` |
| `IdempotencyKeys` | the repository and the cleanup job | `keys` | `DistributedLockProofs` |
| `IdempotencyMiddleware` | the middleware around one handler | `middleware` | `DistributedLockProofs` |
| `EmailProviders` | what Resend and SMTP answer to a mail, a batch, a verification | `email` | |
| `EmailDelivery` | `sendEmail`, fallback and breakers, over `EmailProviders` | `email` | `MailProofs` |
| `EmailTemplates` | the mail of every method of `EmailService`, and the template cache | `mail` | `MailProofs` |
| `EmailTracking` | log row and webhook events | `mail` | `MailProofs` |
| `MailPath` | composes the two: method, template, provider, row, events; the welcome job | `mail` | `MailProofs` |
| `RedisConnection` | `getClientOrConnect` and `connect` around connections that fail and drop | `limiter` | `RateLimitingProofs` |
| `RateLimiting` | `createRateLimiter` over `RedisConnection`, and every preset | `limiter` | `RateLimitingProofs` |
| `OAuth` | sign-in with Google and Apple, replay protection, linking | `users` | `UserRequestsProofs` |
| `UserRow` | avatar history, deletion and archive | `users` | `UserRequestsProofs` |
| `PinAttempts` | `PinHelper` and the middleware that asks it | `users` | `UserRequestsProofs` |
| `Localization` | language in row, session and cache | `users` | `UserRequestsProofs` |
| `Devices` | trust, revocation, push tokens and clean-ups | `users` | `UserRequestsProofs` |
| `UserRequests` | the five above, one at a time: none reads what another writes | `users` | `UserRequestsProofs` |
| `Pagination`, `NameSimilarity` | pure operators | assumptions of `users` | |

`MC<Module>.tla` and `MC<...>.cfg` instantiate them for TLC.

### How state and actions correspond to the code

*Otp.* The five variables `otp`, `resends`, `attempts` and the two members of
`blocked` are the five keys of `getRedisKeys`. `pc[c]` names the next `await`
of call `c`; each action is that command and the code up to the next one.
`incrEx` and `getDel` are single commands (a Lua script and GETDEL), hence
single steps. `resendOtp` looks at the block and then runs the whole of
`generateAndSendOtp`; `checkOtp` is `validateOtp` without the GETDEL. Expiry of
each key is an action; `Abort` is a Redis error (answered by the catch block)
or the death of the process before any step. `guesses` and `guessers` (`mails`
and `mailers`) are history: what one life of the key has paid for, and the
calls it let through that have not acted yet.

*TransactionPin.* `failures` and `locked` are the two keys; `ReadFailures` and
`WriteFailures` are apart because the code awaits GET and then SET. bcrypt's
answer is an input. `disturbed` is history: calls that began while another one
ran, or were cut short.

*Verxatag.* `tags` is the table, `username` the column of `users`, `inTx` the
requests that hold a connection for their transaction. `claimVerxatag` reads
through the pool while its transaction is open: every step that needs a
connection is guarded by `ConnectionFree`. Transactions only write, so each is
one step at its commit, where the UNIQUE constraint decides. `Pin` is
`verifyTransactionPin`, either answer. `overlapped` is history: users who had
two requests of their own in flight. The partial unique index on active tags is
not modelled, because the migration (`db/migrations/0001_fat_ulik.sql:34`)
creates it `WHERE status = '$1'`, which matches no row.

*Account.* `users`, `referredBy` and `device` are columns of the two tables,
`recorded` the history of trust tokens, `token` and `blacklist` the token keys
in Redis. A request is a record in `call`, whose `at` names its next `await`;
its steps are the calls of `AuthService.signup`, `OtpService.sendOtp`,
`OtpService.validateOtp` (with `createAuthToken`, `blacklistToken`,
`activateTrustedDevice`, `rotateRefreshToken`) and `protect` followed by
`updateBasicProfile`. `Take` stands for the whole of module `Otp` by its
promise: a stored code lets one call through. `ClaimTag` stands for module
`Verxatag`, since a tag is a referral code. `Interrupt` ends a request before
any of its steps: a dead process or a failed statement, after which nothing is
undone. A token is the number of the request that signed it, or, when two are
signed in one second, the number of the earlier one: the payload is the user and
whole seconds. The two reads of a referrer are one step, because tags are never
taken back and verification is never withdrawn by code that runs; `isActive`,
the lockout and the archive are represented only by `protect`'s freedom to
refuse any token. Country, address, names, `recordLoginObservation` and the
welcome mail (whose failure is swallowed) are left out. `broken`, `overlapped`
and `clashed` are history: accounts with a request cut short, with two requests
at a time, with two tokens of one second.

*DistributedLock.* `lock` is the key; tokens are numbers drawn once. A command
may have run or not when its reply is lost (`SetNeverRan`, `SetReplyLost`,
`ReleaseNeverRan`). `Expire` is the time to live, at any moment; `overrun` is
history: tokens whose lease ran out.

*IdempotencyKeys.* One value of the column `key`; a row is its scope, whether it
has a response, whether it has run out, and who inserted it. `Insert`, `Select`,
`Delete`, `Reinsert` are the four statements of `acquire`. `entangled` is
history: calls that overlapped another acquire or the cleanup.

*IdempotencyMiddleware.* `status` and `origin` are the record, `saves` the SETs
that `res.json` sent and nobody awaits. All the bodies of the model have one
key. `disturbances` is
history: requests overlapped, Redis failed, a handler outlived the record.

*EmailProviders.* A provider's answer is a function of what happens to the mail:
the set of happenings is what the code of `send` tells apart (Resend's error
names and HTTP status, SMTP's codes and replies), and `Verdict` is what
`sendWithFallback` makes of it. `sendBatch` is a function of what happens to each
chunk, `verifyAll` of the answers at start-up.

*EmailDelivery.* `failures` and `rested` are each breaker's count and whether
its reset time has passed; `place` is where in the chain a call is. The code
suspends only while a provider sends, a retry sleeps or the log row is written;
passing over open breakers and on to the next provider belongs to the step
before (`TryFrom`).

*EmailTemplates, EmailTracking, MailPath.* A mail is the template it is rendered
from, the variables its method gives and whether the template's file exists:
`src/static/emails` has three files, one of which (`welcome.hbs`) has no variable
and no method that asks for it, so all other mails fail before they are rendered;
the variables the files use are read from them. `reading` is
the pause between the look-up in `templateCache` and the entry, everything after
it one step. A hook of the webhook is a record whose `at` names its next
statement; `issued` are the message ids providers gave out, so events may come
before the log row, in any order and again. `raced` is history: mails with two
hooks between read and write, or one cut short there.

*RedisConnection, RateLimiting.* `clients` is every ioredis client ever made
with its state, `client` and `isConnecting` the manager's fields; a waiting call
looks again after each 50 ms. `limiters` are the `RateLimiterRedis` objects made
by `getLimiter`, each with its insurance limiter's memory; `limiter` is the
closure's variable. The library is external: `Hit`, `Blocked` and the time to
live of its keys follow its documented behaviour as the code relies on it. A
behaviour is about one preset, chosen at the start; times are seconds and `Tick`
passes to the end of a counter or window, or by half a window.

*OAuth.* `usedKeys` are the keys of `markTokenAsUsed`; `clock` says whether a
token is before, in or after the second of its `exp`, since the key's time to
live is `exp - now` in whole seconds. `ConnectionIsNew` and `UserIsNew` are the
UNIQUE constraints of `oauth_providers` and `users`; `signup` is a user who signs
up meanwhile, with any of the tokens' addresses. `tangled` is history: tokens
whose presentations overlapped, whose key could not be written, or which were
looked up in the second of their `exp`.

*UserRow.* `lockedBy` is the row lock of `SELECT ... FOR UPDATE`, for which every
other statement on the row waits. `updateAvatar` replaces avatar and history by
what its caller gives it, without a look at either; nothing calls it, so it is
given any of the set `Overwrites`. `stored` is history: what the last
`updateAvatar` wrote, then the uploads whose transaction committed; `given` is how
many avatars it wrote, which may be more than the limit, and `overwritten` whether
the avatar is still the one it wrote, which need not be in the history.

*PinAttempts.* The three keys of one user and kind, every command a step;
`expiring` are the keys that have a time to live. `blockedAt` is history:
totals that set a block; `cut` that a call stopped half-way.

*Localization.* Row, cache key, session and session key; a migration that finds
nothing in the session reads the key first (`getSessionLanguage`). `torn` is history: two
calls were between row and cache at once, or one stopped there.

*Devices.* Every method is one statement, so what overlaps is a caller's read
and the statement that follows: a sender of notifications reads the push tokens,
the push service turns some down, and `clearDeviceTokens` names both. `wanted` is
history: the push token each row should hold. Country and address are left out.

## 3. Runs

| Run | Question and answer |
|---|---|
| `otp` | Two calls at a time, five in all, two codes, limits 1 (resends) and 2 (attempts): `GuessBudget`, `MailBudget` and the refinement of `Budget` by each counter hold, and `SingleUse`: codes accepted and still stored never exceed the codes written. |
| `pin` | Three calls at a time, six in all, limit 3: `RateLimitNeverFires` (the limiter looks for a value the counter never has, so it is dead code), `LockoutIsEarned`, and `SequentialBudget` for calls that do not overlap. |
| `verxatag` | Two requests at a time, four in all, two users, two names, two years, three connections: `NamesAreUnique`, `UsernameIsOwnTag`, `LimitsHoldForOrderlyUsers`, `EveryRequestEnds`. |
| `verxatag_twice` | Violation of `OneActiveTagPerUser`: two claims by one user both find no active tag. |
| `account` | Two requests at a time, four in all, a new account and an established one, two devices, every request cut short anywhere: `NoSelfReferral`, `VerifiedHasTokens`, `TrustedByOneValidation`, `NoCodeAfterVerification`. |
| `lock` | Two callers, four calls, three attempts each: `UnexpiredLeaseIsKept`, `EveryCallEnds`, `IsALease`. |
| `keys` | Four acquires over two scopes: `OneAcquirerOfScopedKey`. |
| `middleware` | Two requests at a time, four in all, two bodies: `RunsOnceInTurn`. |
| `email` | Two calls at a time over two providers, threshold 3, three retries: `BreakerBoundsFailures`, `EverySendEnds`. Assumptions: `BatchAnswersEveryRequest`, `VerifiedMeansConfirmed`. |
| `limiter` | Two requests at a time, five in all, every preset of up to three points, one lost connection: `WindowBudget`, `ConnectionsHaveReasons`, `EveryRequestEnds`. Assumption, for all presets: `KeySpacesAreKnown`. |
| `mail` | Two mails at a time, three in all, out of all the mails of the service, a cache for one template; two hooks at a time, three events on one message: `CacheIsBounded`, `MailsAreComplete`, `StatusFollowsEvents`. |
| `users` | One of five parts of a user's account: `OneAccountPerIdentity`, `TokenAcceptedOnce`, `AvatarHistoryIsKept`, `EveryThresholdBlocks`, `CacheFollowsRow`, `CleanupSparesLiveTokens`. Assumptions: `OnlyWeakPinsAreRefused`, `TrustIsExact`, `PagesAddUp`, `SimilarityIsSymmetric`. |

Further disagreements that the models show and that have no run of their own:

- Two overlapping renames by one user count from the same row, so a third one
  fits in the year although `services/verxatag.service.ts:198` says "max 2
  updates per year"; `LimitsHoldForOrderlyUsers` is stated for users whose
  requests do not overlap for that reason.
- `idempotency_keys` has `key` alone as its primary key
  (`db/schema/idempotency.schema.ts:6`) beside a unique index on scope and key
  (`:13`): once a key exists in one scope, every acquire of it in another is told
  it acquired, without a row and without a race.
- Two copies of a request that arrive together both pass the middleware's GET and
  SET and both run the handler (`middlewares/idempotency.middleware.ts:114`),
  although `:12` and `:15` promise the contrary.
- A permanent error comes back with the provider's own code, misses the bail
  branch and is thrown into async-retry (`services/email/email.service.ts:228`),
  although `:208` says it is not retried. Resend without a key is one of them in
  name only: `send` answers a plain error, which counts as transient.
- The preset `login:failed` is described as a number of requests within a
  duration (`middlewares/rate-limiting.ts:14`), but its block is shorter than its
  window and rewrites the time to live of the count. `WindowBudget` excludes it.
- The test webhook's limiter has a "Separate Redis key space"
  (`middlewares/rate-limiting.ts:179`) by its prefix, which extends the one of the
  other limiter with that provider, whose key is a header: a header that begins with
  `test:` counts on a key of the test limiter. `KeySpacesAreKnown` states that this
  pair and the two wallet limiters with their end-to-end variants are the only ones.
- `src/static/emails` has the templates of OTP and onboarding mails and a
  `welcome.hbs` that no method asks for: every other mail of `EmailService` fails at `access`.
- A "deferred" event counts as failed, the highest status, so the delivery that
  follows is not taken over; an event that comes before its row is dropped; and
  `sent_at` is never set, so statistics by date count nothing.
- An OAuth token presented twice at once is accepted twice
  (`config/passport.ts:40`), and again in the last second of its life if the
  first key has run out; a token is spent by a sign-in that fails afterwards.
- A new OAuth user's username is the empty string, which is UNIQUE: while one
  such user has not chosen a name, no other can be created.
- A revocation is undone by an activation that chose the device before it
  (`repository/device.ts:99` looks at no status).
- When all providers fail with transient errors, the chain answers
  `ALL_PROVIDERS_FAILED`, and `sendEmail` bails at the first attempt (`:209`):
  the retries are never used for the errors that call for one. After a
  permanent error the retry starts at the first provider again and may reach
  another one, against `email-provider.factory.ts:256`.
- An acquire whose row the cleanup removes between its insert and its select is
  told it acquired (`repository/idempotency.ts:34`) although no row says so, and
  two acquires of an expired row can delete each other's new row (`:39`).
- `withLock` neither renews the lock nor stops `fn`: work that outlives the time
  to live overlaps with the next holder's. `Lease` names those overrunners and
  promises them nothing.
- As many claims as the pool has connections block one another for ever;
  `EveryRequestEnds` is checked with one connection to spare.
- `generateKey` of the idempotency middleware gives `JSON.stringify` an array of
  top-level names (`middlewares/idempotency.middleware.ts:30`), which filters the
  members of nested objects too: bodies that differ only there share a key, and
  the second is answered with the first one's response, although `:14-15` says
  the key uses the request body.
- `signup` reads the row at `services/auth.service.ts:33` and writes the referrer
  at `:46` "if provided and not already set" (`:44`): two overlapping signups
  with different codes both write, and `updateBasicProfile` replaces a referrer
  without looking.
- A validation that is cut short after `services/otp.service.ts:59` leaves a
  verified account without tokens. `signup` answers "Account already exists",
  `sendOtp` "Email is already verified", and no route logs in. Such accounts are
  the `broken` ones that `VerifiedHasTokens` excludes.
- Two validations of one account in one second sign the same token, and the
  second blacklists it as its predecessor before storing it again
  (`utils/helpers/auth.helper.ts:77`): the client holds a revoked token. Those
  are the `clashed` accounts.
- In production a failed OTP mail deletes whatever code is stored by then, also
  the mailed code of a later send.

### Bounds

`MaxCalls`, `MaxRequests` and `MaxSends` cap the requests ever made, `MaxYear`
the years. The limits (5 in the code for OTP) are 1 to 3: every comparison is
with the limit itself, so what matters is to be below, at and beyond it, and
the call bounds let a run go past each limit, through the block or lockout, and
around again after an expiry. Two slots give every pair of steps in every order;
`pin` has three, because a stale write needs a reader, a writer and somebody in
between. Two codes are enough to tell an old code from a new one; two names let
two users race for one while a third request frees it. In `account` four requests
reach a sign-up, its validation and two more that overlap it; the established
account is a referrer whose own profile requests can interleave, and two devices
tell the device of a request from the latest pending one. `limiter` runs every
preset of up to three points: what tells presets apart is whether they block and
for how long, all of which occur there, and five requests go past three points
twice. `mail` needs two templates for a cache of one, and three events for an
order, a repetition and a race. In `users` two tokens of one identity with
different addresses, three overlapping avatar changes over a history of two beside overwrites that
empty it, set it back to what it was or exceed it, sign-ups with either address,
failures past an equality threshold and into the range where all block, and two
devices sharing push tokens make each case happen. `UserRequests` chooses its part
at the start, because none of the five reads what another writes. Every bound lies in the
guard of the action that begins a request; nothing that runs is cut off, which
is why deadlock is not checked: the system may rest.

`otp`, `pin`, `account`, `mail` and `users` use symmetry over calls (and codes, and
devices); they have no liveness.

### Fairness

`FairSpec` of `Verxatag` and `DistributedLock` and `FairChainSpec` of
`EmailDelivery` have weak fairness of each call's `Step`: Node runs every continuation whose command,
query or timer has answered; Redis commands, provider calls and the log insert
answer or reject; the pool hands out a free connection. Beginning a request,
expiry, crashes, provider recovery and the new year are never fair: nobody
promises them. `RateLimiting` has the same for each request's step; turns of the
polling loop that find a connection in progress change nothing, and that
connection is a step of the call that makes it.

## 4. Proofs

TLAPS checks these for every value of the constants (any number of calls,
users, names and any limits), from the named assumptions of the modules:
`OtpAssumption` (calls are finitely many, limits are positive, `NoCode` is no
code), `PinAssumption`, `VerxatagAssumption`, `LockAssumption`,
`AccountAssumption` (the established are accounts, `Nobody` and `NoDevice` are
neither an account nor a device), `DeliveryAssumption` (calls are finitely many,
at least one provider and one failure), `CacheAssumption`, `TrackingAssumption`,
`HistoryAssumption` (`NoOne` is no change, the history keeps at least one, and
`updateAvatar` is given numbers and sequences of them),
`LanguageAssumption` and the others of the `users` modules. Every safety
property the runs check has a theorem; every inductive invariant below was
checked by TLC on the instance of its run before it was proved.

- `OtpProofs`: `TypeCorrect`; `SingleUseHolds`; `GuessBudgetHolds` and
  `MailBudgetHolds`; `GuessingImplementsBudget` and `MailingImplementsBudget`.
  The budget alone is not inductive. `GuessInv` adds that only calls about to
  compare hold a permit, and that the counter in Redis is at least what its life
  has paid for and granted, so a call that reads a value within the limit finds
  room; `MailInv` says the same of the resend counter, whose permits live from
  the write of the code to the mail. One lemma (`GuessStep`, `MailStep`) shows
  that each action keeps the invariant and is a step of `Budget` or a stutter;
  both the invariance and the refinement follow from it.
  `CardinalityOfCalls` is the fact
  about finite sets they rest on.
- `TransactionPinProofs`: `RateLimitIsDead` needs that a value about to be
  written is below the limit too (`BoundInv`); `LockoutNeedsWrongPins` needs that
  every value stored or about to be is backed by wrong PINs (`EarnedInv`);
  `SequentialBudgetHolds` needs that, undisturbed, one call runs at a time and
  every wrong PIN is in the counter or on its way there (`SequentialInv`).
- `VerxatagProofs`: `NamesStayUnique` and `UsernameStaysOwnTag`. `TagInv` adds
  `RequestsAreFilled` (a request past its beginning has a user and a name) and
  `UpdatesOwnTag` (the row a rename read is still a row of its user), which
  together make a commit name a tag of the right user. That is what the code
  relies on when it trusts a row it read several awaits earlier.
  `OrderlyUsersKeepLimits` follows one user at a time: while that user's requests
  come one by one, what a request read of the tables still holds when it commits
  (`OneTag`, `RowIsCurrent`), and the stored change count is at least the renames
  of the year (`RenamesAreCounted`), though others race for the same names.
- `AccountProofs`: `NoSelfReferralHolds`, `NoCodeAfterVerificationHolds` and
  `VerifiedHasTokensHolds`. Lemmas say once what `Begin`, `Goto`, `End`, `Sign`
  and the choice of a device do to the requests, and each invariant then takes
  one step per action. `ReferrersDiffer` adds that a request about to write a
  referrer has one that differs from its account: for a signup, the referrer was
  verified before the account was seen unverified, which is why the code needs no
  comparison there. `OneAtATime` and `CodeStages` say where a lone request can be
  while a code is stored. `TokenInv` follows a token through the three commands
  that replace it: numbers are drawn in order (`Numbered`), a token is not in
  Redis before it is stored (`FreshUntilStored`), a revoked one is about to be
  replaced (`RevokedIsReplaced`), a stored one is handed out or about to be
  (`StoredIsHanded`), and a verified account has one or is about to
  (`VerifiedIsSigned`). No bound on overlapping requests is needed: only requests
  cut short and tokens of one second are excluded. `TrustedByOneValidationHolds`
  rests on `TrustInv`: a request between the activation and the rotation finds
  what it wrote (`TrustIsWritten`), and an active row that lacks the token or the
  history has such a request at work on it (`TrustIsCompleted`).
- `DistributedLockProofs`: `LeaseIsKept` and `LockImplementsLease`. `LockInv`
  adds `TokensAreFresh` (tokens of different calls differ and a token in Redis
  was drawn) and `SleepersHaveAttemptsLeft` (for the bound on the loop counter).
  `WorkersEnter`, `WorkersLeave` and `WorkersStay` say what a step does to the
  set of workers, which is the only part of the refinement mapping that is not
  the identity. `RunsOnceInTurnHolds` needs that without a record no handler has
  run, and that a request that saw none has not seen a run since (`InTurn`):
  a late save only replaces one record by another. `OneAcquirerOfScopedKeyHolds`
  needs that a holder has a row to show for it, that a call about to look finds a
  row and one about to delete finds an expired one (`HoldersHaveRows`), and that
  calls that are not entangled look one at a time (`LookersInTurn`). The
  module extends all three specifications; only the name of each theorem's
  specification (`Spec`, `MiddlewareSpec`, `KeysSpec`) says which it is about.
- `RateLimitingProofs`: `ConnectionsHaveReasonsHolds` and `WindowBudgetHolds`.
  `ConnInv` says that only the newest client can be connecting, for one call, and
  is the manager's client meanwhile (`OneConnects`), and that a call is let
  through to connect only when every client there is answers for a loss
  (`LossesCovered`). `WindowInv` adds that a counter lives at least as long as its
  window and has counted every request it let through (`Fits`); a block keeps
  that because, preset by preset (`PresetsBlockLongEnough`), it is no shorter than
  the window. `login:failed` is the one preset of which that is false.
- `MailProofs`: `CacheIsBoundedHolds` and `MailsAreCompleteHolds` from
  `RenderInv`: a call about to render has a mail with a file, and each such mail
  gives all the names the file asks for (`FilesAreServed`). The cache is bounded
  although it is looked up before the awaits: what counts is that `Evict` and
  `Set` are one step (`CacheKept`). `StatusFollowsEventsHolds` from `TrackInv`: of
  a mail no two hooks disturbed, the row is where its one writer found it, and
  every recorded event is below the status or still with the hook that is to
  compare it (`StatusKeepsUp`). `BreakerBoundsFailuresHolds` is inductive with
  types alone; the step that matters is the one that ends a send and starts the
  next (`TryFromKeeps`): a provider chosen there has fewer failures than the
  threshold, however many calls already send with it.
- `UserRequestsProofs`: one invariant for each of the five parts.
  `ThresholdsAreDecided`: INCR gives each total to one call, and until that call
  has decided, the block may be missing. `OneCarries`: one call at most is between
  table and cache, and carries the row's language. `RefusalsAreKnown`: what a
  sender will clear has been turned down, and stays so. `ConnectionsDecide` and
  `OAuth`'s `TokensAreFresh`: the unique index says whose an identity is, and a
  token accepted once has its key until its own time is over.
  `ReadersHoldTheRow` and `HistoryIsTheEnd`: under the row lock what was read
  still stands, also against `updateAvatar`, which waits for the lock; so each change
  appends to the end of all that was stored since, or with, the last `updateAvatar`.

Only model-checked: liveness (`EveryRequestEnds` of `Verxatag` and
`RateLimiting`, `EveryCallEnds`, `EverySendEnds`), and the pure operators
(`Pagination`, `NameSimilarity`, the key spaces of the presets), which TLC evaluates
as assumptions. Liveness under fairness and ENABLED are beyond this prover, as is
induction over data (what a recursive function computes for every input) and any
module with a RECURSIVE operator; none of the modules proved about has one.

## 5. Not modelled

- *Sessions and request context*: express-session over connect-redis and
  AsyncLocalStorage keep the state; the code sets it once per request.
- *Sockets*: rooms are kept by socket.io; the service checks a role when a client
  connects, joins and emits. A role withdrawn later leaves the room unchanged.
- *Controllers, routes, validators*: they validate, call one method and answer.
- *Encryption, fingerprints, geo, privacy*: calls into libraries and string
  masking; no state.
- *Referral service, purge job*: the bodies are commented out. *Daily job*: it
  only logs; the leader key of `scheduleJobs` guards its registration.
- *Schemas, constants, seeds*: declarations. `utils/constants/banks.ts` alone is
  a fifth of the source and pure data. Finance, KYC and admin exist as schemas.
- Within modelled components: `checkAccountLockout`, `restrictTo`; of the user
  repository failed logins, MFA, personal information, PINs, currency, ambassador and
  PND status, notification and Telegram settings, each one statement over columns no
  model has; deactivation of a Verxatag; `setKey` and `getKey` of the idempotency repository; the SES provider
  (not in the factory's chain); `skip` of the limiters, which no preset has, and
  `onBlocked`, which logs, mails, or, for failed logins, keeps a key of its own for a
  day so as to mail once (GET, then SETEX, so overlapping requests may mail twice; the
  factory ignores its errors and answers 429 all the same); the disconnection at shutdown, after which the process exits; HTML, CSS
  and asset addresses of mails; the statistics of tracking; `decryptTokens`. Most
  have no caller; the others keep nothing that a modelled step reads.

## 6. Plan

Done: all modules of section 2. Left, in this order:

1. An abstract specification of a window of requests, which the counters of
   `RateLimiting` implement, and one of an exclusive acquirer for
   `IdempotencyKeys` under its conditions, both as refinements.
2. Proofs about the parts of `Pagination` that need no induction.
3. `checkAccountLockout` with the failed logins of the user repository, once a
   login route calls them.
