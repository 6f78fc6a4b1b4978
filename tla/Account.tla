------------------------------ MODULE Account ------------------------------
(***************************************************************************)
(* An account from sign-up to its tokens: AuthService.signup,              *)
(* OtpService.sendOtp and validateOtp (src/services/otp.service.ts),       *)
(* AuthMiddleware.protect with UserService.updateBasicProfile, over the    *)
(* tables users, user_devices and device_trust_token_history and the token *)
(* keys in Redis.                                                          *)
(*                                                                         *)
(* No two writes share a transaction.  Storing and consuming a code is one *)
(* step here; module Otp has its parts, and SingleUse there says that a    *)
(* stored code lets one call through.  Country, address and names are left *)
(* out, and with them recordLoginObservation; so is the welcome mail,      *)
(* whose failure is swallowed.                                             *)
(***************************************************************************)
EXTENDS Integers, FiniteSets

CONSTANTS
  Accounts,     \* normalised email addresses
  Established,  \* accounts verified long ago that own an active verxatag
  Devices,      \* deviceInfo.uniqueId
  Nobody,       \* no referral code, users.referred_by is null
  NoDevice,     \* a request without deviceInfo, or no row found
  Calls,        \* slots for requests in flight
  MaxCalls      \* bound: requests ever made

ASSUME AccountAssumption ==
  /\ Established \subseteq Accounts
  /\ Nobody \notin Accounts /\ NoDevice \notin Devices
  /\ MaxCalls \in Nat

VARIABLES
  users,       \* no row, or users.email_verified
  referredBy,  \* users.referred_by
  tags,        \* users with an active verxatag, the referral codes
  codes,       \* accounts with a stored signup_verification code
  device,      \* user_devices, by user_id and device_id
  recorded,    \* device_trust_token_history
  token,       \* Redis token:<user>
  blacklist,   \* Redis blacklist:<token>
  signed,      \* the token last signed for each account
  call,        \* the requests
  begun,       \* requests made so far; the number of the last one
  handed,      \* history: access tokens returned to the client
  broken,      \* history: accounts with a request that was cut short
  overlapped,  \* history: accounts with two requests at a time
  clashed      \* history: accounts with two tokens signed in one second

tables == <<users, referredBy, device, recorded>>
tokens == <<token, blacklist, signed, handed>>
troubles == <<broken, overlapped, clashed>>
vars == <<tables, tags, codes, tokens, call, begun, troubles>>

NoToken == 0
FirstToken == 1  \* of the Established

Labels == {"idle", "referrer", "findUser", "create", "setReferrer",
           "findDevice", "createDevice", "findToSend", "send",
           "findToValidate", "take", "verify", "sign", "revoke", "store",
           "findToTrust", "activate", "record", "rotate", "protect",
           "referee", "writeProfile"}
Call == [at : Labels, account : Accounts \union {Nobody},
         referrer : Accounts \union {Nobody},
         device : Devices \union {NoDevice},
         id : Nat, token : Nat, old : Nat]
Idle == [at |-> "idle", account |-> Nobody, referrer |-> Nobody,
         device |-> NoDevice, id |-> 0, token |-> 0, old |-> 0]

\* created_at orders the rows: older are those created before.  trust and
\* refresh name the validation that wrote the hashes, or are 0.
DeviceRow == [status : {"absent", "pending", "active"}, older : SUBSET Devices,
              trust : Nat, refresh : Nat]
NoRow == [status |-> "absent", older |-> {}, trust |-> 0, refresh |-> 0]

Init ==
  /\ users = [a \in Accounts |->
                IF a \in Established THEN "verified" ELSE "none"]
  /\ referredBy = [a \in Accounts |-> Nobody]
  /\ tags = Established
  /\ codes = {}
  /\ device = [a \in Accounts |-> [d \in Devices |-> NoRow]]
  /\ recorded = {}
  /\ token = [a \in Accounts |->
                IF a \in Established THEN FirstToken ELSE NoToken]
  /\ blacklist = {}
  /\ signed = [a \in Accounts |-> NoToken]
  /\ call = [c \in Calls |-> Idle]
  /\ begun = FirstToken
  /\ handed = Established \X {FirstToken}
  /\ broken = {} /\ overlapped = {} /\ clashed = {}

At(c, label) == call[c].at = label
Goto(c, label) == call' = [call EXCEPT ![c].at = label]
End(c) == call' = [call EXCEPT ![c] = Idle]
InFlight(a) == {c \in Calls : call[c].at # "idle" /\ call[c].account = a}
Verified(a) == users[a] = "verified"
RowsOf(a) == {d \in Devices : device[a][d].status # "absent"}
Pending(a) == {d \in Devices : device[a][d].status = "pending"}

Begin(c, label, a, r, d, t) ==
  /\ At(c, "idle") /\ begun <= MaxCalls
  /\ begun' = begun + 1
  /\ call' = [call EXCEPT ![c] =
                [at |-> label, account |-> a, referrer |-> r, device |-> d,
                 id |-> begun + 1, token |-> t, old |-> NoToken]]
  /\ overlapped' = IF InFlight(a) # {} THEN overlapped \union {a}
                   ELSE overlapped
  /\ UNCHANGED <<tables, tags, codes, tokens, broken, clashed>>

-----------------------------------------------------------------------------
(* AuthService.signup                                                      *)

\* findActiveByUsername and findById of its owner.  Tags and verification are
\* never taken back, so that the two reads may be one.
Referrer(c) ==
  LET r == call[c].referrer
  IN  /\ At(c, "referrer")
      /\ IF r = Nobody \/ (r \in tags /\ Verified(r))
         THEN Goto(c, "findUser") ELSE End(c)
      /\ UNCHANGED <<tables, tags, codes, tokens, begun, troubles>>

\* "Account already exists with this email address."; before it, no check.
SignupIgnoresVerified(a) == FALSE
SignupRefused(a) == Verified(a)

FindUser(c) ==
  LET a == call[c].account
  IN  /\ At(c, "findUser")
      /\ \/ /\ users[a] = "none"
            /\ Goto(c, "create")
         \/ /\ users[a] # "none" /\ SignupRefused(a)
            /\ End(c)
         \/ /\ users[a] # "none" /\ ~SignupRefused(a)
            /\ Goto(c, IF call[c].referrer # Nobody /\ referredBy[a] = Nobody
                       THEN "setReferrer" ELSE "findDevice")
      /\ UNCHANGED <<tables, tags, codes, tokens, begun, troubles>>

\* INSERT; users.email is UNIQUE.
Create(c) ==
  LET a == call[c].account
  IN  /\ At(c, "create")
      /\ \/ /\ users[a] = "none"
            /\ users' = [users EXCEPT ![a] = "unverified"]
            /\ referredBy' = [referredBy EXCEPT ![a] = call[c].referrer]
            /\ Goto(c, "findDevice")
         \/ /\ users[a] # "none"
            /\ End(c)
            /\ UNCHANGED <<users, referredBy>>
      /\ UNCHANGED <<device, recorded, tags, codes, tokens, begun, troubles>>

SetReferrer(c) ==
  /\ At(c, "setReferrer")
  /\ referredBy' = [referredBy EXCEPT ![call[c].account] = call[c].referrer]
  /\ Goto(c, "findDevice")
  /\ UNCHANGED <<users, device, recorded, tags, codes, tokens, begun,
                 troubles>>

\* findByDeviceId; a row that is there is only touched.
FindDevice(c) ==
  /\ At(c, "findDevice")
  /\ Goto(c, IF call[c].device \in RowsOf(call[c].account)
             THEN "send" ELSE "createDevice")
  /\ UNCHANGED <<tables, tags, codes, tokens, begun, troubles>>

\* INSERT; (user_id, device_id) is UNIQUE.
CreateDevice(c) ==
  LET a == call[c].account
      d == call[c].device
  IN  /\ At(c, "createDevice")
      /\ \/ /\ d \notin RowsOf(a)
            /\ device' = [device EXCEPT ![a][d] =
                 [status |-> "pending", older |-> RowsOf(a),
                  trust |-> 0, refresh |-> 0]]
            /\ Goto(c, "send")
         \/ /\ d \in RowsOf(a)
            /\ End(c) /\ UNCHANGED device
      /\ UNCHANGED <<users, referredBy, recorded, tags, codes, tokens, begun,
                     troubles>>

\* generateAndSendOtp stores a code and mails it; or refuses; or fails, and
\* drops the stored code when it was the mail that failed.
Send(c) ==
  LET a == call[c].account
  IN  /\ At(c, "send")
      /\ End(c)
      /\ \/ codes' = codes \union {a}
         \/ codes' = codes \ {a}
         \/ codes' = codes
      /\ UNCHANGED <<tables, tags, tokens, begun, troubles>>

-----------------------------------------------------------------------------
(* OtpService.sendOtp                                                      *)

\* "Email is already verified."; before it, a comparison that never holds.
SendUnchecked(a) == FALSE
SendRefused(a) == Verified(a)

FindToSend(c) ==
  LET a == call[c].account
  IN  /\ At(c, "findToSend")
      /\ IF users[a] = "none" \/ SendRefused(a) THEN End(c) ELSE Goto(c, "send")
      /\ UNCHANGED <<tables, tags, codes, tokens, begun, troubles>>

-----------------------------------------------------------------------------
(* OtpService.validateOtp                                                  *)

FindToValidate(c) ==
  /\ At(c, "findToValidate")
  /\ IF users[call[c].account] = "none" THEN End(c) ELSE Goto(c, "take")
  /\ UNCHANGED <<tables, tags, codes, tokens, begun, troubles>>

\* The code is the stored one, which is consumed, or is refused.
Take(c) ==
  LET a == call[c].account
  IN  /\ At(c, "take")
      /\ \/ /\ a \in codes
            /\ codes' = codes \ {a}
            /\ Goto(c, "verify")
         \/ /\ End(c) /\ UNCHANGED codes
      /\ UNCHANGED <<tables, tags, tokens, begun, troubles>>

Verify(c) ==
  /\ At(c, "verify")
  /\ users' = [users EXCEPT ![call[c].account] = "verified"]
  /\ Goto(c, "sign")
  /\ UNCHANGED <<referredBy, device, recorded, tags, codes, tokens, begun,
                 troubles>>

\* createAuthToken: sign, then GET token:<user>; before it, a GET that comes
\* after the SET.
ReadOwnToken(a, t) == t
ReadToken(a, t) == token[a]

\* The payload is the user and iat, in seconds: a second token signed in the
\* same second is the same string.
Sign(c) ==
  LET a == call[c].account
  IN  /\ At(c, "sign")
      /\ \E t \in {call[c].id, signed[a]} \ {NoToken} :
           /\ signed' = [signed EXCEPT ![a] = t]
           /\ clashed' = IF t = signed[a] THEN clashed \union {a} ELSE clashed
           /\ call' = [call EXCEPT
                ![c].token = t, ![c].old = ReadToken(a, t),
                ![c].at = IF ReadToken(a, t) = NoToken THEN "store"
                          ELSE "revoke"]
      /\ UNCHANGED <<tables, tags, codes, token, blacklist, handed, begun,
                     broken, overlapped>>

\* blacklistToken.
Revoke(c) ==
  /\ At(c, "revoke")
  /\ blacklist' = blacklist \union {<<call[c].account, call[c].old>>}
  /\ Goto(c, "store")
  /\ UNCHANGED <<tables, tags, codes, token, signed, handed, begun, troubles>>

Store(c) ==
  /\ At(c, "store")
  /\ token' = [token EXCEPT ![call[c].account] = call[c].token]
  /\ Goto(c, "findToTrust")
  /\ UNCHANGED <<tables, tags, codes, blacklist, signed, handed, begun,
                 troubles>>

\* The answer returns the access token.
Answer(c) ==
  /\ End(c)
  /\ handed' = handed \union {<<call[c].account, call[c].token>>}

\* findByDeviceId, or findLatestPendingByUserId without deviceInfo; before it,
\* the device of the request, row or no row.
DeviceOfRequest(a, d) == {d}
DeviceToTrust(a, d) ==
  IF d # NoDevice THEN {d} \intersect RowsOf(a)
  ELSE {e \in Pending(a) : Pending(a) \ {e} \subseteq device[a][e].older}

FindToTrust(c) ==
  LET found == DeviceToTrust(call[c].account, call[c].device)
  IN  /\ At(c, "findToTrust")
      /\ \/ /\ found = {}
            /\ Answer(c)
         \/ \E d \in found :
              /\ call' = [call EXCEPT ![c].at = "activate", ![c].device = d]
              /\ UNCHANGED handed
      /\ UNCHANGED <<tables, tags, codes, token, blacklist, signed, begun,
                     troubles>>

\* activateTrustedDevice.
Activate(c) ==
  /\ At(c, "activate")
  /\ device' = [device EXCEPT ![call[c].account][call[c].device] =
                  [@ EXCEPT !.status = "active", !.trust = call[c].id]]
  /\ Goto(c, "record")
  /\ UNCHANGED <<users, referredBy, recorded, tags, codes, tokens, begun,
                 troubles>>

\* deviceTrustTokenHistoryRepository.add.
Record(c) ==
  /\ At(c, "record")
  /\ recorded' = recorded \union
       {<<call[c].account, call[c].device, call[c].id>>}
  /\ Goto(c, "rotate")
  /\ UNCHANGED <<users, referredBy, device, tags, codes, tokens, begun,
                 troubles>>

\* The columns rotateRefreshToken sets; before it, a token that is handed out
\* and not stored.
KeepRefresh(row, i) == row
NewRefresh(row, i) == [row EXCEPT !.refresh = i]

Rotate(c) ==
  /\ At(c, "rotate")
  /\ device' = [device EXCEPT ![call[c].account][call[c].device] =
                  NewRefresh(@, call[c].id)]
  /\ Answer(c)
  /\ UNCHANGED <<users, referredBy, recorded, tags, codes, token, blacklist,
                 signed, begun, troubles>>

-----------------------------------------------------------------------------
(* AuthMiddleware.protect and UserService.updateBasicProfile               *)

\* A revoked token is refused; so may be any other, by a lockout, the archive
\* or a suspension.
Protect(c) ==
  /\ At(c, "protect")
  /\ \/ /\ <<call[c].account, call[c].token>> \notin blacklist
        /\ Goto(c, IF call[c].referrer = Nobody THEN "writeProfile"
                   ELSE "referee")
     \/ End(c)
  /\ UNCHANGED <<tables, tags, codes, tokens, begun, troubles>>

\* "You cannot refer yourself."
Referee(c) ==
  /\ At(c, "referee")
  /\ IF call[c].referrer \in tags /\ call[c].referrer # call[c].account
     THEN Goto(c, "writeProfile") ELSE End(c)
  /\ UNCHANGED <<tables, tags, codes, tokens, begun, troubles>>

WriteProfile(c) ==
  /\ At(c, "writeProfile")
  /\ referredBy' = IF call[c].referrer = Nobody THEN referredBy
                   ELSE [referredBy EXCEPT ![call[c].account] =
                           call[c].referrer]
  /\ End(c)
  /\ UNCHANGED <<users, device, recorded, tags, codes, tokens, begun,
                 troubles>>

-----------------------------------------------------------------------------
\* claimVerxatag (module Verxatag), for a client that holds a live token.
ClaimTag(a) ==
  /\ \E t \in 1..begun : <<a, t>> \in handed \ blacklist
  /\ tags' = tags \union {a}
  /\ UNCHANGED <<tables, codes, tokens, call, begun, troubles>>

\* The code runs out.
ExpireCode(a) ==
  /\ a \in codes
  /\ codes' = codes \ {a}
  /\ UNCHANGED <<tables, tags, tokens, call, begun, troubles>>

\* The process dies or PostgreSQL or Redis fails under the request.
Interrupt(c) ==
  /\ ~At(c, "idle")
  /\ End(c)
  /\ broken' = broken \union {call[c].account}
  /\ UNCHANGED <<tables, tags, codes, tokens, begun, overlapped, clashed>>

Signup(c) ==
  \/ \E a \in Accounts, r \in Accounts \union {Nobody}, d \in Devices :
       Begin(c, "referrer", a, r, d, NoToken)
  \/ Referrer(c) \/ FindUser(c) \/ Create(c) \/ SetReferrer(c)
  \/ FindDevice(c) \/ CreateDevice(c) \/ Send(c)

SendOtp(c) ==
  \/ \E a \in Accounts : Begin(c, "findToSend", a, Nobody, NoDevice, NoToken)
  \/ FindToSend(c)

ValidateOtp(c) ==
  \/ \E a \in Accounts, d \in Devices \union {NoDevice} :
       Begin(c, "findToValidate", a, Nobody, d, NoToken)
  \/ FindToValidate(c) \/ Take(c) \/ Verify(c) \/ Sign(c) \/ Revoke(c)
  \/ Store(c) \/ FindToTrust(c) \/ Activate(c) \/ Record(c) \/ Rotate(c)

UpdateBasicProfile(c) ==
  \/ \E p \in handed, r \in Accounts \union {Nobody} :
       Begin(c, "protect", p[1], r, NoDevice, p[2])
  \/ Protect(c) \/ Referee(c) \/ WriteProfile(c)

Next ==
  \/ \E c \in Calls : \/ Signup(c) \/ SendOtp(c) \/ ValidateOtp(c)
                      \/ UpdateBasicProfile(c) \/ Interrupt(c)
  \/ \E a \in Accounts : ClaimTag(a) \/ ExpireCode(a)

Spec == Init /\ [][Next]_vars

-----------------------------------------------------------------------------
(* Tables, Redis keys and requests are well formed.                        *)
TypeOK ==
  /\ users \in [Accounts -> {"none", "unverified", "verified"}]
  /\ referredBy \in [Accounts -> Accounts \union {Nobody}]
  /\ tags \subseteq Accounts /\ codes \subseteq Accounts
  /\ device \in [Accounts -> [Devices -> DeviceRow]]
  /\ recorded \subseteq Accounts \X Devices \X Nat
  /\ token \in [Accounts -> Nat] /\ signed \in [Accounts -> Nat]
  /\ blacklist \subseteq Accounts \X Nat /\ handed \subseteq Accounts \X Nat
  /\ call \in [Calls -> Call] /\ begun \in Nat
  /\ broken \subseteq Accounts /\ overlapped \subseteq Accounts
  /\ clashed \subseteq Accounts

(* Nobody is their own referrer, although signup never compares the two:   *)
(* a referrer is verified when signup looks, and the account, which it     *)
(* reads afterwards, is not (src/services/auth.service.ts:27 and 36).      *)
NoSelfReferral == \A a \in Accounts : referredBy[a] # a

(* However requests overlap, a verified account at rest has the access     *)
(* token that Redis names, in the hands of its client and not revoked,     *)
(* unless a request was cut short or two tokens were signed in the same    *)
(* second: nothing but the validation that verifies hands out tokens       *)
(* (src/services/otp.service.ts:58).                                       *)
VerifiedHasTokens ==
  \A a \in Accounts \ (broken \union clashed) :
    Verified(a) /\ InFlight(a) = {}
      => <<a, token[a]>> \in handed \ blacklist

(* A device that became active has its trust token in the history and a    *)
(* refresh token of the same validation, when the account's requests came  *)
(* one at a time and none was cut short (src/services/otp.service.ts:89).  *)
TrustedByOneValidation ==
  \A a \in Accounts \ (broken \union overlapped) : \A d \in Devices :
    LET row == device[a][d]
    IN  row.status = "active" /\ InFlight(a) = {}
          => /\ row.trust = row.refresh
             /\ <<a, d, row.trust>> \in recorded

(* No code is stored for a verified account unless requests overlapped:    *)
(* signup and sendOtp refuse it and the code that verified it is consumed  *)
(* first (src/services/otp.service.ts:29 and 50).                          *)
NoCodeAfterVerification ==
  \A a \in codes : Verified(a) => a \in overlapped
=============================================================================
