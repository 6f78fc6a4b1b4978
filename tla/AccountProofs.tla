--------------------------- MODULE AccountProofs ---------------------------
(* Proofs about Account, for any accounts, devices and requests.           *)
EXTENDS Account, TLAPS

USE AccountAssumption

\* The steps of a request that hold a device.
WithDevice == {"referrer", "findUser", "create", "setReferrer", "findDevice",
               "createDevice", "activate", "record", "rotate"}

(* A request that runs is about an account and, where the code holds a     *)
(* device, about a device.                                                 *)
RequestsAreFilled ==
  \A c \in Calls :
    /\ call[c].at # "idle" => call[c].account \in Accounts
    /\ call[c].at \in WithDevice => call[c].device \in Devices

Requests == call \in [Calls -> Call] /\ RequestsAreFilled

(* A request goes on to another step, holding a device if it must.         *)
LEMMA GotoStep ==
  ASSUME Requests, NEW c \in Calls, NEW label \in Labels, Goto(c, label),
         ~At(c, "idle"),
         label \in WithDevice => call[c].device \in Devices
  PROVE  Requests'
<1>1. call' \in [Calls -> Call]
  BY DEF Requests, Goto, Call
<1>2. RequestsAreFilled'
  BY DEF Requests, RequestsAreFilled, Goto, At, Call
<1> QED
  BY <1>1, <1>2 DEF Requests

(* A request ends.                                                         *)
LEMMA EndStep ==
  ASSUME Requests, NEW c \in Calls, End(c)
  PROVE  Requests'
<1>1. Idle \in Call /\ Idle.at = "idle"
  BY DEF Idle, Call, Labels
<1>2. call' \in [Calls -> Call]
  BY <1>1 DEF Requests, End
<1>3. RequestsAreFilled'
  BY <1>1 DEF Requests, RequestsAreFilled, End, WithDevice
<1> QED
  BY <1>2, <1>3 DEF Requests

(* A request begins.                                                       *)
LEMMA BeginStep ==
  ASSUME Requests, begun \in Nat, NEW c \in Calls, NEW label \in Labels,
         NEW a \in Accounts, NEW r \in Accounts \union {Nobody},
         NEW d \in Devices \union {NoDevice}, NEW t \in Nat,
         label \in WithDevice => d \in Devices, Begin(c, label, a, r, d, t)
  PROVE  Requests'
<1> DEFINE new == [at |-> label, account |-> a, referrer |-> r, device |-> d,
                   id |-> begun + 1, token |-> t, old |-> NoToken]
<1>1. new \in Call /\ new.at = label /\ new.account = a /\ new.device = d
  BY DEF Call, NoToken
<1>2. call' = [call EXCEPT ![c] = new]
  BY DEF Begin
<1> HIDE DEF new
<1>3. call' \in [Calls -> Call]
  BY <1>1, <1>2 DEF Requests
<1>4. RequestsAreFilled'
  BY <1>1, <1>2 DEF Requests, RequestsAreFilled, WithDevice
<1> QED
  BY <1>3, <1>4 DEF Requests

(* A row of user_devices is replaced by another one.                       *)
LEMMA RowWritten ==
  ASSUME device \in [Accounts -> [Devices -> DeviceRow]], NEW a \in Accounts,
         NEW d \in Devices, NEW row \in DeviceRow
  PROVE  [device EXCEPT ![a][d] = row]
           \in [Accounts -> [Devices -> DeviceRow]]
  OBVIOUS

\* TypeOK without the requests.
TypedTables ==
  /\ users \in [Accounts -> {"none", "unverified", "verified"}]
  /\ referredBy \in [Accounts -> Accounts \union {Nobody}]
  /\ device \in [Accounts -> [Devices -> DeviceRow]]
  /\ recorded \subseteq Accounts \X Devices \X Nat

TypedKeys ==
  /\ token \in [Accounts -> Nat] /\ signed \in [Accounts -> Nat]
  /\ blacklist \subseteq Accounts \X Nat /\ handed \subseteq Accounts \X Nat

TypedSets ==
  /\ tags \subseteq Accounts /\ codes \subseteq Accounts
  /\ broken \subseteq Accounts /\ overlapped \subseteq Accounts
  /\ clashed \subseteq Accounts /\ begun \in Nat

TypeInv == Requests /\ TypedTables /\ TypedKeys /\ TypedSets

(* Every step keeps the tables, the keys and the requests well formed.     *)
LEMMA TypeStep == TypeInv /\ [Next]_vars => TypeInv'
<1> SUFFICES ASSUME TypeInv, [Next]_vars PROVE TypeInv'
  OBVIOUS
<1> USE DEF TypeInv, tables, tokens, troubles
<1>0. ASSUME NEW c \in Calls
      PROVE  /\ call[c] \in Call /\ call[c].id \in Nat
             /\ call[c].token \in Nat /\ call[c].old \in Nat
             /\ call[c].referrer \in Accounts \union {Nobody}
             /\ call[c].device \in Devices \union {NoDevice}
             /\ ~At(c, "idle") => call[c].account \in Accounts
             /\ call[c].at \in WithDevice => call[c].device \in Devices
  BY DEF Requests, RequestsAreFilled, Call, At
<1>1. ASSUME NEW c \in Calls, NEW label \in Labels, NEW a \in Accounts,
             NEW r \in Accounts \union {Nobody},
             NEW d \in Devices \union {NoDevice}, NEW t \in Nat,
             label \in WithDevice => d \in Devices,
             Begin(c, label, a, r, d, t)
      PROVE  TypeInv'
  <2>1. Requests'
    BY <1>1, BeginStep DEF TypedSets
  <2>2. TypedTables' /\ TypedKeys' /\ TypedSets'
    BY <1>1 DEF Begin, TypedTables, TypedKeys, TypedSets
  <2> QED
    BY <2>1, <2>2
<1>2. ASSUME NEW c \in Calls, Signup(c) PROVE TypeInv'
  <2>1. CASE \E a \in Accounts, r \in Accounts \union {Nobody},
                  d \in Devices :
               Begin(c, "referrer", a, r, d, NoToken)
    BY <2>1, <1>1 DEF Labels, WithDevice, NoToken, TypedKeys
  <2>2. CASE Referrer(c)
    <3>1. Requests'
      BY <2>2, <1>0, GotoStep, EndStep DEF Referrer, At, Labels, WithDevice
    <3>2. TypedTables' /\ TypedKeys' /\ TypedSets'
      BY <2>2, <1>0 DEF Referrer, At, TypedTables, TypedKeys, TypedSets, WithDevice
    <3> QED
      BY <3>1, <3>2
  <2>3. CASE FindUser(c)
    <3>1. Requests'
      BY <2>3, <1>0, GotoStep, EndStep DEF FindUser, At, Labels, WithDevice
    <3>2. TypedTables' /\ TypedKeys' /\ TypedSets'
      BY <2>3, <1>0 DEF FindUser, At, TypedTables, TypedKeys, TypedSets, WithDevice
    <3> QED
      BY <3>1, <3>2
  <2>4. CASE Create(c)
    <3>1. Requests'
      BY <2>4, <1>0, GotoStep, EndStep DEF Create, At, Labels, WithDevice
    <3>2. TypedTables' /\ TypedKeys' /\ TypedSets'
      BY <2>4, <1>0 DEF Create, At, TypedTables, TypedKeys, TypedSets, WithDevice
    <3> QED
      BY <3>1, <3>2
  <2>5. CASE SetReferrer(c)
    <3>1. Requests'
      BY <2>5, <1>0, GotoStep, EndStep DEF SetReferrer, At, Labels, WithDevice
    <3>2. TypedTables' /\ TypedKeys' /\ TypedSets'
      BY <2>5, <1>0 DEF SetReferrer, At, TypedTables, TypedKeys, TypedSets, WithDevice
    <3> QED
      BY <3>1, <3>2
  <2>6. CASE FindDevice(c)
    <3>1. Requests'
      BY <2>6, <1>0, GotoStep, EndStep DEF FindDevice, At, Labels, WithDevice
    <3>2. TypedTables' /\ TypedKeys' /\ TypedSets'
      BY <2>6, <1>0 DEF FindDevice, At, TypedTables, TypedKeys, TypedSets, WithDevice
    <3> QED
      BY <3>1, <3>2
  <2>7. CASE CreateDevice(c)
    <3>1. Requests'
      BY <2>7, <1>0, GotoStep, EndStep DEF CreateDevice, At, Labels, WithDevice
    <3>2. device' \in [Accounts -> [Devices -> DeviceRow]]
      <4> DEFINE row == [status |-> "pending", older |-> RowsOf(call[c].account),
                         trust |-> 0, refresh |-> 0]
      <4>1. row \in DeviceRow
        BY DEF DeviceRow, RowsOf
      <4>2. call[c].account \in Accounts /\ call[c].device \in Devices
        BY <2>7, <1>0 DEF CreateDevice, At, WithDevice
      <4>3. \/ device' = [device EXCEPT
                            ![call[c].account][call[c].device] = row]
            \/ device' = device
        BY <2>7 DEF CreateDevice
      <4> HIDE DEF row
      <4>4. device \in [Accounts -> [Devices -> DeviceRow]]
        BY DEF TypedTables
      <4>5. [device EXCEPT ![call[c].account][call[c].device] = row]
              \in [Accounts -> [Devices -> DeviceRow]]
        BY <4>1, <4>2, <4>4, RowWritten
      <4> QED
        BY <4>3, <4>4, <4>5
    <3>3. TypedTables' /\ TypedKeys' /\ TypedSets'
      BY <2>7, <3>2 DEF CreateDevice, TypedTables, TypedKeys, TypedSets
    <3> QED
      BY <3>1, <3>3
  <2>8. CASE Send(c)
    <3>1. Requests'
      BY <2>8, <1>0, GotoStep, EndStep DEF Send, At, Labels, WithDevice
    <3>2. TypedTables' /\ TypedKeys' /\ TypedSets'
      BY <2>8, <1>0 DEF Send, At, TypedTables, TypedKeys, TypedSets, WithDevice
    <3> QED
      BY <3>1, <3>2
  <2> QED
    BY <1>2, <2>1, <2>2, <2>3, <2>4, <2>5, <2>6, <2>7, <2>8 DEF Signup
<1>3. ASSUME NEW c \in Calls, SendOtp(c) PROVE TypeInv'
  <2>1. CASE \E a \in Accounts :
               Begin(c, "findToSend", a, Nobody, NoDevice, NoToken)
    BY <2>1, <1>1 DEF Labels, WithDevice, NoToken, TypedKeys
  <2>2. CASE FindToSend(c)
    <3>1. Requests'
      BY <2>2, <1>0, GotoStep, EndStep DEF FindToSend, At, Labels, WithDevice
    <3>2. TypedTables' /\ TypedKeys' /\ TypedSets'
      BY <2>2, <1>0 DEF FindToSend, At, TypedTables, TypedKeys, TypedSets, WithDevice
    <3> QED
      BY <3>1, <3>2
  <2> QED
    BY <1>3, <2>1, <2>2 DEF SendOtp
<1>4. ASSUME NEW c \in Calls, ValidateOtp(c) PROVE TypeInv'
  <2>1. CASE \E a \in Accounts, d \in Devices \union {NoDevice} :
               Begin(c, "findToValidate", a, Nobody, d, NoToken)
    BY <2>1, <1>1 DEF Labels, WithDevice, NoToken, TypedKeys
  <2>2. CASE FindToValidate(c)
    <3>1. Requests'
      BY <2>2, <1>0, GotoStep, EndStep DEF FindToValidate, At, Labels, WithDevice
    <3>2. TypedTables' /\ TypedKeys' /\ TypedSets'
      BY <2>2, <1>0 DEF FindToValidate, At, TypedTables, TypedKeys, TypedSets, WithDevice
    <3> QED
      BY <3>1, <3>2
  <2>3. CASE Take(c)
    <3>1. Requests'
      BY <2>3, <1>0, GotoStep, EndStep DEF Take, At, Labels, WithDevice
    <3>2. TypedTables' /\ TypedKeys' /\ TypedSets'
      BY <2>3, <1>0 DEF Take, At, TypedTables, TypedKeys, TypedSets, WithDevice
    <3> QED
      BY <3>1, <3>2
  <2>4. CASE Verify(c)
    <3>1. Requests'
      BY <2>4, <1>0, GotoStep, EndStep DEF Verify, At, Labels, WithDevice
    <3>2. TypedTables' /\ TypedKeys' /\ TypedSets'
      BY <2>4, <1>0 DEF Verify, At, TypedTables, TypedKeys, TypedSets, WithDevice
    <3> QED
      BY <3>1, <3>2
  <2>5. CASE Sign(c)
    <3>1. Requests'
      <4> PICK t \in Nat, l \in {"store", "revoke"} :
                 call' = [call EXCEPT ![c].token = t,
                                      ![c].old = ReadToken(call[c].account, t),
                                      ![c].at = l]
        BY <2>5, <1>0 DEF Sign, TypedKeys, At
      <4> DEFINE new == [call[c] EXCEPT
                           !.token = t, !.at = l,
                           !.old = ReadToken(call[c].account, t)]
      <4>1. call[c].account \in Accounts
        BY <2>5, <1>0 DEF Sign, At
      <4>2. /\ new \in Call /\ new.at = l
            /\ new.account = call[c].account
        BY <1>0, <4>1 DEF Call, Labels, ReadToken, TypedKeys
      <4>3. call' = [call EXCEPT ![c] = new]
        BY DEF Requests
      <4> HIDE DEF new
      <4> QED
        BY <4>1, <4>2, <4>3 DEF Requests, RequestsAreFilled, WithDevice
    <3>2. TypedTables' /\ TypedKeys' /\ TypedSets'
      BY <2>5, <1>0 DEF Sign, At, TypedTables, TypedKeys, TypedSets, WithDevice
    <3> QED
      BY <3>1, <3>2
  <2>6. CASE Revoke(c)
    <3>1. Requests'
      BY <2>6, <1>0, GotoStep, EndStep DEF Revoke, At, Labels, WithDevice
    <3>2. TypedTables' /\ TypedKeys' /\ TypedSets'
      BY <2>6, <1>0 DEF Revoke, At, TypedTables, TypedKeys, TypedSets, WithDevice
    <3> QED
      BY <3>1, <3>2
  <2>7. CASE Store(c)
    <3>1. Requests'
      BY <2>7, <1>0, GotoStep, EndStep DEF Store, At, Labels, WithDevice
    <3>2. TypedTables' /\ TypedKeys' /\ TypedSets'
      BY <2>7, <1>0 DEF Store, At, TypedTables, TypedKeys, TypedSets, WithDevice
    <3> QED
      BY <3>1, <3>2
  <2>8. CASE FindToTrust(c)
    <3>1. Requests'
      <4>1. CASE Answer(c)
        BY <4>1, EndStep DEF Answer
      <4>2. CASE \E d \in Devices :
                   call' = [call EXCEPT ![c].at = "activate",
                                        ![c].device = d]
        <5> PICK d \in Devices :
                   call' = [call EXCEPT ![c].at = "activate",
                                        ![c].device = d]
          BY <4>2
        <5> DEFINE new == [call[c] EXCEPT !.at = "activate", !.device = d]
        <5>1. /\ new \in Call /\ new.device = d
              /\ new.account = call[c].account
          BY <1>0 DEF Call, Labels
        <5>2. call' = [call EXCEPT ![c] = new]
          BY DEF Requests
        <5>3. call[c].account \in Accounts
          BY <2>8, <1>0 DEF FindToTrust, At
        <5> HIDE DEF new
        <5> QED
          BY <5>1, <5>2, <5>3 DEF Requests, RequestsAreFilled
      <4> QED
        BY <2>8, <4>1, <4>2 DEF FindToTrust, DeviceToTrust, RowsOf, Pending
    <3>2. TypedTables' /\ TypedKeys' /\ TypedSets'
      BY <2>8, <1>0 DEF FindToTrust, Answer, At, TypedTables, TypedKeys, TypedSets, WithDevice
    <3> QED
      BY <3>1, <3>2
  <2>9. CASE Activate(c)
    <3>1. Requests'
      BY <2>9, <1>0, GotoStep, EndStep DEF Activate, At, Labels, WithDevice
    <3>2. device' \in [Accounts -> [Devices -> DeviceRow]]
      <4> DEFINE row == device[call[c].account][call[c].device]
      <4>1. row \in DeviceRow
        BY <2>9, <1>0 DEF Activate, At, WithDevice, TypedTables
      <4>2. [row EXCEPT !.status = "active", !.trust = call[c].id]
              \in DeviceRow
        BY <4>1, <1>0 DEF DeviceRow
      <4> QED
        BY <4>2, <2>9, <1>0, RowWritten DEF Activate, At, WithDevice,
           TypedTables
    <3>3. TypedTables' /\ TypedKeys' /\ TypedSets'
      BY <2>9, <3>2 DEF Activate, TypedTables, TypedKeys, TypedSets
    <3> QED
      BY <3>1, <3>3
  <2>10. CASE Record(c)
    <3>1. Requests'
      BY <2>10, <1>0, GotoStep, EndStep DEF Record, At, Labels, WithDevice
    <3>2. TypedTables' /\ TypedKeys' /\ TypedSets'
      BY <2>10, <1>0 DEF Record, At, TypedTables, TypedKeys, TypedSets, WithDevice
    <3> QED
      BY <3>1, <3>2
  <2>11. CASE Rotate(c)
    <3>1. Requests'
      BY <2>11, <1>0, GotoStep, EndStep DEF Rotate, Answer, At, Labels, WithDevice
    <3>2. device' \in [Accounts -> [Devices -> DeviceRow]]
      <4> DEFINE row == device[call[c].account][call[c].device]
      <4>1. row \in DeviceRow
        BY <2>11, <1>0 DEF Rotate, At, WithDevice, TypedTables
      <4>2. NewRefresh(row, call[c].id) \in DeviceRow
        BY <4>1, <1>0 DEF DeviceRow, NewRefresh
      <4> QED
        BY <4>2, <2>11, <1>0, RowWritten DEF Rotate, At, WithDevice,
           TypedTables
    <3>3. TypedTables' /\ TypedKeys' /\ TypedSets'
      BY <2>11, <1>0, <3>2
         DEF Rotate, Answer, At, TypedTables, TypedKeys, TypedSets
    <3> QED
      BY <3>1, <3>3
  <2> QED
    BY <1>4, <2>1, <2>2, <2>3, <2>4, <2>5, <2>6, <2>7, <2>8, <2>9, <2>10, <2>11 DEF ValidateOtp
<1>5. ASSUME NEW c \in Calls, UpdateBasicProfile(c) PROVE TypeInv'
  <2>1. CASE \E p \in handed, r \in Accounts \union {Nobody} :
               Begin(c, "protect", p[1], r, NoDevice, p[2])
    BY <2>1, <1>1 DEF Labels, WithDevice, NoToken, TypedKeys
  <2>2. CASE Protect(c)
    <3>1. Requests'
      BY <2>2, <1>0, GotoStep, EndStep DEF Protect, At, Labels, WithDevice
    <3>2. TypedTables' /\ TypedKeys' /\ TypedSets'
      BY <2>2, <1>0 DEF Protect, At, TypedTables, TypedKeys, TypedSets, WithDevice
    <3> QED
      BY <3>1, <3>2
  <2>3. CASE Referee(c)
    <3>1. Requests'
      BY <2>3, <1>0, GotoStep, EndStep DEF Referee, At, Labels, WithDevice
    <3>2. TypedTables' /\ TypedKeys' /\ TypedSets'
      BY <2>3, <1>0 DEF Referee, At, TypedTables, TypedKeys, TypedSets, WithDevice
    <3> QED
      BY <3>1, <3>2
  <2>4. CASE WriteProfile(c)
    <3>1. Requests'
      BY <2>4, <1>0, GotoStep, EndStep DEF WriteProfile, At, Labels, WithDevice
    <3>2. TypedTables' /\ TypedKeys' /\ TypedSets'
      BY <2>4, <1>0 DEF WriteProfile, At, TypedTables, TypedKeys, TypedSets, WithDevice
    <3> QED
      BY <3>1, <3>2
  <2> QED
    BY <1>5, <2>1, <2>2, <2>3, <2>4 DEF UpdateBasicProfile
<1>6. ASSUME NEW c \in Calls, Interrupt(c) PROVE TypeInv'
  BY <1>6, <1>0, EndStep DEF Interrupt, TypedTables, TypedKeys, TypedSets
<1>7. ASSUME NEW a \in Accounts, ClaimTag(a) \/ ExpireCode(a) PROVE TypeInv'
  BY <1>7 DEF ClaimTag, ExpireCode, Requests, RequestsAreFilled, TypedTables,
              TypedKeys, TypedSets
<1>8. CASE UNCHANGED vars
  BY <1>8 DEF vars, Requests, RequestsAreFilled, TypedTables, TypedKeys,
              TypedSets
<1> QED
  BY <1>2, <1>3, <1>4, <1>5, <1>6, <1>7, <1>8 DEF Next

(* The first state.                                                        *)
LEMMA TypeFirst == Init => TypeInv
<1> SUFFICES ASSUME Init PROVE TypeInv
  OBVIOUS
<1>1. Idle \in Call /\ Idle.at = "idle"
  BY DEF Idle, Call, Labels
<1>2. Requests
  BY <1>1 DEF Init, Requests, RequestsAreFilled, WithDevice
<1>3. TypedTables
  BY DEF Init, TypedTables, NoRow, DeviceRow
<1>4. TypedKeys /\ TypedSets
  BY DEF Init, TypedKeys, TypedSets, FirstToken, NoToken
<1> QED
  BY <1>2, <1>3, <1>4 DEF TypeInv

(* Tables, Redis keys and requests are well formed in every state.         *)
THEOREM TypeCorrect == Spec => []TypeOK
<1>1. TypeInv => TypeOK
  BY DEF TypeInv, Requests, TypedTables, TypedKeys, TypedSets, TypeOK
<1> QED
  BY <1>1, TypeFirst, TypeStep, PTL DEF Spec

-----------------------------------------------------------------------------
(* What remains of the requests when one goes on.                          *)
LEMMA GotoFacts ==
  ASSUME Requests, NEW c \in Calls, NEW label, Goto(c, label)
  PROVE  /\ call'[c].at = label
         /\ call'[c].account = call[c].account
         /\ call'[c].device = call[c].device
         /\ call'[c].referrer = call[c].referrer
         /\ call'[c].id = call[c].id
         /\ call'[c].token = call[c].token
         /\ call'[c].old = call[c].old
         /\ \A d \in Calls \ {c} : call'[d] = call[d]
  BY DEF Goto, Requests, Call

(* What remains of the requests when one ends.                             *)
LEMMA EndFacts ==
  ASSUME Requests, NEW c \in Calls, End(c)
  PROVE  /\ call'[c].at = "idle"
         /\ \A d \in Calls \ {c} : call'[d] = call[d]
  BY DEF End, Requests, Idle

(* What remains of the requests when one begins.                           *)
LEMMA BeginFacts ==
  ASSUME Requests, NEW c \in Calls, NEW label, NEW a, NEW r, NEW d, NEW t,
         Begin(c, label, a, r, d, t)
  PROVE  /\ call'[c].at = label /\ call'[c].account = a
         /\ call'[c].referrer = r /\ call'[c].id = begun + 1
         /\ \A e \in Calls \ {c} : call'[e] = call[e]
  BY DEF Begin, Requests

(* What Sign does to its request, and to the token last signed.            *)
LEMMA SignFacts ==
  ASSUME Requests, NEW c \in Calls, Sign(c)
  PROVE  /\ call'[c].account = call[c].account
         /\ call'[c].referrer = call[c].referrer
         /\ call'[c].id = call[c].id
         /\ call'[c].old = token[call[c].account]
         /\ call'[c].at = IF token[call[c].account] = NoToken THEN "store"
                          ELSE "revoke"
         /\ \A d \in Calls \ {c} : call'[d] = call[d]
         /\ call'[c].token \in {call[c].id, signed[call[c].account]}
                                \ {NoToken}
         /\ signed' = [signed EXCEPT ![call[c].account] = call'[c].token]
         /\ clashed' = IF call'[c].token = signed[call[c].account]
                       THEN clashed \union {call[c].account} ELSE clashed
<1> DEFINE a == call[c].account
<1>1. PICK t \in {call[c].id, signed[a]} \ {NoToken} :
        /\ signed' = [signed EXCEPT ![a] = t]
        /\ clashed' = IF t = signed[a] THEN clashed \union {a} ELSE clashed
        /\ call' = [call EXCEPT
             ![c].token = t, ![c].old = ReadToken(a, t),
             ![c].at = IF ReadToken(a, t) = NoToken THEN "store"
                       ELSE "revoke"]
  BY DEF Sign
<1> DEFINE new == [call[c] EXCEPT
                     !.token = t, !.old = token[a],
                     !.at = IF token[a] = NoToken THEN "store" ELSE "revoke"]
<1>2. call' = [call EXCEPT ![c] = new]
  BY <1>1 DEF Requests, ReadToken
<1>3. /\ new.account = a /\ new.referrer = call[c].referrer
      /\ new.id = call[c].id /\ new.token = t /\ new.old = token[a]
      /\ new.at = IF token[a] = NoToken THEN "store" ELSE "revoke"
  BY DEF Requests, Call
<1> HIDE DEF new
<1>4. call'[c] = new /\ \A d \in Calls \ {c} : call'[d] = call[d]
  BY <1>2 DEF Requests
<1> QED
  BY <1>1, <1>3, <1>4

(* What remains of the requests when one finds the device to trust.        *)
LEMMA TrustFacts ==
  ASSUME Requests, NEW c \in Calls, FindToTrust(c), ~Answer(c)
  PROVE  /\ call'[c].at = "activate"
         /\ call'[c].account = call[c].account
         /\ call'[c].referrer = call[c].referrer
         /\ call'[c].id = call[c].id
         /\ call'[c].token = call[c].token
         /\ call'[c].old = call[c].old
         /\ \A d \in Calls \ {c} : call'[d] = call[d]
         /\ UNCHANGED handed
<1>1. PICK d : /\ call' = [call EXCEPT ![c].at = "activate",
                                       ![c].device = d]
               /\ UNCHANGED handed
  BY DEF FindToTrust
<1> DEFINE new == [call[c] EXCEPT !.at = "activate", !.device = d]
<1>2. call' = [call EXCEPT ![c] = new]
  BY <1>1 DEF Requests
<1>3. /\ new.at = "activate" /\ new.account = call[c].account
      /\ new.referrer = call[c].referrer /\ new.id = call[c].id
      /\ new.token = call[c].token /\ new.old = call[c].old
  BY DEF Requests, Call
<1> HIDE DEF new
<1>4. call'[c] = new /\ \A e \in Calls \ {c} : call'[e] = call[e]
  BY <1>2 DEF Requests
<1> QED
  BY <1>1, <1>3, <1>4

(* Where a request looks up its referrer before its own account, the two   *)
(* differ: the referrer was verified first.                                *)
ReferrersDiffer ==
  \A c \in Calls :
    /\ call[c].at = "findUser" /\ call[c].referrer # Nobody
         => call[c].referrer \in Accounts /\ Verified(call[c].referrer)
    /\ call[c].at \in {"create", "setReferrer", "writeProfile"}
         => call[c].referrer # call[c].account

ReferralInv == NoSelfReferral /\ ReferrersDiffer

(* Every step keeps referrers and accounts apart.                          *)
LEMMA ReferralStep == TypeInv /\ ReferralInv /\ [Next]_vars => ReferralInv'
<1> SUFFICES ASSUME TypeInv, ReferralInv, [Next]_vars PROVE ReferralInv'
  OBVIOUS
<1> USE DEF ReferralInv, tables, tokens, troubles
<1>0. /\ Requests
      /\ users \in [Accounts -> {"none", "unverified", "verified"}]
      /\ referredBy \in [Accounts -> Accounts \union {Nobody}]
      /\ \A c \in Calls : ~At(c, "idle") => call[c].account \in Accounts
      /\ \A c \in Calls : call[c].referrer \in Accounts \union {Nobody}
  BY DEF TypeInv, TypedTables, Requests, RequestsAreFilled, At, Call
<1>1. ASSUME NEW c \in Calls, NEW label, NEW a, NEW r, NEW d, NEW t,
             label \notin {"findUser", "create", "setReferrer",
                           "writeProfile"}, Begin(c, label, a, r, d, t)
      PROVE  ReferralInv'
  <2>1. UNCHANGED <<users, referredBy>>
    BY <1>1 DEF Begin
  <2> QED
    BY <1>0, <1>1, <2>1, BeginFacts
       DEF NoSelfReferral, ReferrersDiffer, Verified
<1>2. ASSUME NEW c \in Calls, Signup(c) PROVE ReferralInv'
  <2>1. CASE \E a \in Accounts, r \in Accounts \union {Nobody},
                  d \in Devices :
               Begin(c, "referrer", a, r, d, NoToken)
    BY <2>1, <1>1
  <2>2. CASE Referrer(c)
    BY <2>2, <1>0, GotoFacts, EndFacts
       DEF Referrer, At, NoSelfReferral, ReferrersDiffer, Verified
  <2>3. CASE FindUser(c)
    BY <2>3, <1>0, GotoFacts, EndFacts
       DEF FindUser, SignupRefused, At, NoSelfReferral, ReferrersDiffer, Verified
  <2>4. CASE Create(c)
    BY <2>4, <1>0, GotoFacts, EndFacts
       DEF Create, At, NoSelfReferral, ReferrersDiffer, Verified
  <2>5. CASE SetReferrer(c)
    BY <2>5, <1>0, GotoFacts, EndFacts
       DEF SetReferrer, At, NoSelfReferral, ReferrersDiffer, Verified
  <2>6. CASE FindDevice(c)
    BY <2>6, <1>0, GotoFacts, EndFacts
       DEF FindDevice, At, NoSelfReferral, ReferrersDiffer, Verified
  <2>7. CASE CreateDevice(c)
    BY <2>7, <1>0, GotoFacts, EndFacts
       DEF CreateDevice, At, NoSelfReferral, ReferrersDiffer, Verified
  <2>8. CASE Send(c)
    BY <2>8, <1>0, GotoFacts, EndFacts
       DEF Send, At, NoSelfReferral, ReferrersDiffer, Verified
  <2> QED
    BY <1>2, <2>1, <2>2, <2>3, <2>4, <2>5, <2>6, <2>7, <2>8 DEF Signup
<1>3. ASSUME NEW c \in Calls, SendOtp(c) PROVE ReferralInv'
  <2>1. CASE \E a \in Accounts :
               Begin(c, "findToSend", a, Nobody, NoDevice, NoToken)
    BY <2>1, <1>1
  <2>2. CASE FindToSend(c)
    BY <2>2, <1>0, GotoFacts, EndFacts
       DEF FindToSend, At, NoSelfReferral, ReferrersDiffer, Verified
  <2> QED
    BY <1>3, <2>1, <2>2 DEF SendOtp
<1>4. ASSUME NEW c \in Calls, ValidateOtp(c) PROVE ReferralInv'
  <2>1. CASE \E a \in Accounts, d \in Devices \union {NoDevice} :
               Begin(c, "findToValidate", a, Nobody, d, NoToken)
    BY <2>1, <1>1
  <2>2. CASE FindToValidate(c)
    BY <2>2, <1>0, GotoFacts, EndFacts
       DEF FindToValidate, At, NoSelfReferral, ReferrersDiffer, Verified
  <2>3. CASE Take(c)
    BY <2>3, <1>0, GotoFacts, EndFacts
       DEF Take, At, NoSelfReferral, ReferrersDiffer, Verified
  <2>4. CASE Verify(c)
    BY <2>4, <1>0, GotoFacts, EndFacts
       DEF Verify, At, NoSelfReferral, ReferrersDiffer, Verified
  <2>5. CASE Sign(c)
    <3>1. /\ call'[c].at \in {"store", "revoke"}
          /\ \A d \in Calls \ {c} : call'[d] = call[d]
      BY <2>5, <1>0, SignFacts
    <3>2. UNCHANGED <<users, referredBy>>
      BY <2>5 DEF Sign
    <3> QED
      BY <1>0, <3>1, <3>2 DEF NoSelfReferral, ReferrersDiffer, Verified
  <2>6. CASE Revoke(c)
    BY <2>6, <1>0, GotoFacts, EndFacts
       DEF Revoke, At, NoSelfReferral, ReferrersDiffer, Verified
  <2>7. CASE Store(c)
    BY <2>7, <1>0, GotoFacts, EndFacts
       DEF Store, At, NoSelfReferral, ReferrersDiffer, Verified
  <2>8. CASE FindToTrust(c)
    BY <2>8, <1>0, TrustFacts, EndFacts
       DEF FindToTrust, Answer, At, NoSelfReferral, ReferrersDiffer, Verified
  <2>9. CASE Activate(c)
    BY <2>9, <1>0, GotoFacts, EndFacts
       DEF Activate, At, NoSelfReferral, ReferrersDiffer, Verified
  <2>10. CASE Record(c)
    BY <2>10, <1>0, GotoFacts, EndFacts
       DEF Record, At, NoSelfReferral, ReferrersDiffer, Verified
  <2>11. CASE Rotate(c)
    BY <2>11, <1>0, GotoFacts, EndFacts
       DEF Rotate, Answer, At, NoSelfReferral, ReferrersDiffer, Verified
  <2> QED
    BY <1>4, <2>1, <2>2, <2>3, <2>4, <2>5, <2>6, <2>7, <2>8, <2>9, <2>10, <2>11 DEF ValidateOtp
<1>5. ASSUME NEW c \in Calls, UpdateBasicProfile(c) PROVE ReferralInv'
  <2>1. CASE \E p \in handed, r \in Accounts \union {Nobody} :
               Begin(c, "protect", p[1], r, NoDevice, p[2])
    BY <2>1, <1>1
  <2>2. CASE Protect(c)
    BY <2>2, <1>0, GotoFacts, EndFacts
       DEF Protect, At, NoSelfReferral, ReferrersDiffer, Verified
  <2>3. CASE Referee(c)
    BY <2>3, <1>0, GotoFacts, EndFacts
       DEF Referee, At, NoSelfReferral, ReferrersDiffer, Verified
  <2>4. CASE WriteProfile(c)
    BY <2>4, <1>0, GotoFacts, EndFacts
       DEF WriteProfile, At, NoSelfReferral, ReferrersDiffer, Verified
  <2> QED
    BY <1>5, <2>1, <2>2, <2>3, <2>4 DEF UpdateBasicProfile
<1>6. ASSUME NEW c \in Calls, Interrupt(c) PROVE ReferralInv'
  BY <1>6, <1>0, EndFacts
     DEF Interrupt, At, NoSelfReferral, ReferrersDiffer, Verified
<1>7. ASSUME NEW a \in Accounts, ClaimTag(a) \/ ExpireCode(a)
      PROVE  ReferralInv'
  BY <1>7 DEF ClaimTag, ExpireCode, NoSelfReferral, ReferrersDiffer, Verified
<1>8. CASE UNCHANGED vars
  BY <1>8 DEF vars, NoSelfReferral, ReferrersDiffer, Verified
<1> QED
  BY <1>2, <1>3, <1>4, <1>5, <1>6, <1>7, <1>8 DEF Next

(* Nobody is ever their own referrer.                                      *)
THEOREM NoSelfReferralHolds == Spec => []NoSelfReferral
<1>1. Init => ReferralInv
  BY DEF Init, Idle, ReferralInv, NoSelfReferral, ReferrersDiffer
<1> QED
  BY <1>1, TypeFirst, TypeStep, ReferralStep, PTL DEF Spec, ReferralInv

-----------------------------------------------------------------------------
(* Requests about an account that had no overlap run one at a time.        *)
OneAtATime ==
  \A c, d \in Calls :
    /\ call[c].at # "idle" /\ call[d].at # "idle"
    /\ call[c].account = call[d].account
    /\ call[c].account \notin overlapped
    => c = d

(* Alone, a request that may yet store a code finds its account            *)
(* unverified, and one that is about to verify has left no code behind.    *)
CodeStages ==
  \A c \in Calls :
    call[c].account \notin overlapped =>
      /\ call[c].at \in {"create", "setReferrer", "findDevice",
                         "createDevice", "send"}
           => ~Verified(call[c].account)
      /\ call[c].at = "verify" => call[c].account \notin codes

CodeInv == NoCodeAfterVerification /\ OneAtATime /\ CodeStages

(* Every step keeps codes and verified accounts apart.                     *)
LEMMA CodeStep == TypeInv /\ CodeInv /\ [Next]_vars => CodeInv'
<1> SUFFICES ASSUME TypeInv, CodeInv, [Next]_vars PROVE CodeInv'
  OBVIOUS
<1> USE DEF CodeInv, tables, tokens, troubles
<1>0. /\ Requests
      /\ users \in [Accounts -> {"none", "unverified", "verified"}]
      /\ codes \subseteq Accounts
      /\ \A c \in Calls : ~At(c, "idle") => call[c].account \in Accounts
  BY DEF TypeInv, TypedTables, TypedSets, Requests, RequestsAreFilled, At
<1>1. ASSUME NEW c \in Calls, NEW label, NEW a \in Accounts, NEW r, NEW d,
             NEW t, label \in {"referrer", "findToSend", "findToValidate",
                               "protect"}, Begin(c, label, a, r, d, t)
      PROVE  CodeInv'
  <2>1. UNCHANGED <<users, codes>> /\ overlapped \subseteq overlapped'
    BY <1>1 DEF Begin
  <2>2. NoCodeAfterVerification'
    BY <2>1 DEF NoCodeAfterVerification, Verified
  <2>3. \A e \in Calls \ {c} :
          call[e].at # "idle" /\ call[e].account = a => a \in overlapped'
    BY <1>1 DEF Begin, InFlight
  <2>4. OneAtATime'
    BY <1>0, <1>1, <2>1, <2>3, BeginFacts DEF OneAtATime
  <2>5. CodeStages'
    BY <1>0, <1>1, <2>1, BeginFacts DEF CodeStages, Verified
  <2> QED
    BY <2>2, <2>4, <2>5
<1>2. ASSUME NEW c \in Calls, Signup(c) PROVE CodeInv'
  <2>1. CASE \E a \in Accounts, r \in Accounts \union {Nobody},
                  d \in Devices :
               Begin(c, "referrer", a, r, d, NoToken)
    BY <2>1, <1>1
  <2>2. CASE Referrer(c)
    BY <2>2, <1>0, GotoFacts, EndFacts
       DEF Referrer, At, NoCodeAfterVerification, OneAtATime,
           CodeStages, Verified
  <2>3. CASE FindUser(c)
    BY <2>3, <1>0, GotoFacts, EndFacts
       DEF FindUser, SignupRefused, At, NoCodeAfterVerification, OneAtATime,
           CodeStages, Verified
  <2>4. CASE Create(c)
    BY <2>4, <1>0, GotoFacts, EndFacts
       DEF Create, At, NoCodeAfterVerification, OneAtATime,
           CodeStages, Verified
  <2>5. CASE SetReferrer(c)
    BY <2>5, <1>0, GotoFacts, EndFacts
       DEF SetReferrer, At, NoCodeAfterVerification, OneAtATime,
           CodeStages, Verified
  <2>6. CASE FindDevice(c)
    BY <2>6, <1>0, GotoFacts, EndFacts
       DEF FindDevice, At, NoCodeAfterVerification, OneAtATime,
           CodeStages, Verified
  <2>7. CASE CreateDevice(c)
    BY <2>7, <1>0, GotoFacts, EndFacts
       DEF CreateDevice, At, NoCodeAfterVerification, OneAtATime,
           CodeStages, Verified
  <2>8. CASE Send(c)
    BY <2>8, <1>0, GotoFacts, EndFacts
       DEF Send, At, NoCodeAfterVerification, OneAtATime,
           CodeStages, Verified
  <2> QED
    BY <1>2, <2>1, <2>2, <2>3, <2>4, <2>5, <2>6, <2>7, <2>8 DEF Signup
<1>3. ASSUME NEW c \in Calls, SendOtp(c) PROVE CodeInv'
  <2>1. CASE \E a \in Accounts :
               Begin(c, "findToSend", a, Nobody, NoDevice, NoToken)
    BY <2>1, <1>1
  <2>2. CASE FindToSend(c)
    BY <2>2, <1>0, GotoFacts, EndFacts
       DEF FindToSend, SendRefused, At, NoCodeAfterVerification, OneAtATime,
           CodeStages, Verified
  <2> QED
    BY <1>3, <2>1, <2>2 DEF SendOtp
<1>4. ASSUME NEW c \in Calls, ValidateOtp(c) PROVE CodeInv'
  <2>1. CASE \E a \in Accounts, d \in Devices \union {NoDevice} :
               Begin(c, "findToValidate", a, Nobody, d, NoToken)
    BY <2>1, <1>1
  <2>2. CASE FindToValidate(c)
    BY <2>2, <1>0, GotoFacts, EndFacts
       DEF FindToValidate, At, NoCodeAfterVerification, OneAtATime,
           CodeStages, Verified
  <2>3. CASE Take(c)
    BY <2>3, <1>0, GotoFacts, EndFacts
       DEF Take, At, NoCodeAfterVerification, OneAtATime,
           CodeStages, Verified
  <2>4. CASE Verify(c)
    BY <2>4, <1>0, GotoFacts, EndFacts
       DEF Verify, At, NoCodeAfterVerification, OneAtATime,
           CodeStages, Verified
  <2>5. CASE Sign(c)
    <3>1. /\ call'[c].at \in {"store", "revoke"}
          /\ call'[c].account = call[c].account
          /\ \A d \in Calls \ {c} : call'[d] = call[d]
      BY <2>5, <1>0, SignFacts
    <3>2. UNCHANGED <<users, codes, overlapped>> /\ ~At(c, "idle")
      BY <2>5 DEF Sign, At
    <3> QED
      BY <1>0, <3>1, <3>2 DEF At, NoCodeAfterVerification, OneAtATime,
         CodeStages, Verified
  <2>6. CASE Revoke(c)
    BY <2>6, <1>0, GotoFacts, EndFacts
       DEF Revoke, At, NoCodeAfterVerification, OneAtATime,
           CodeStages, Verified
  <2>7. CASE Store(c)
    BY <2>7, <1>0, GotoFacts, EndFacts
       DEF Store, At, NoCodeAfterVerification, OneAtATime,
           CodeStages, Verified
  <2>8. CASE FindToTrust(c)
    <3>1. /\ call'[c].at \in {"idle", "activate"}
          /\ call'[c].at # "idle" => call'[c].account = call[c].account
          /\ \A d \in Calls \ {c} : call'[d] = call[d]
      BY <2>8, <1>0, TrustFacts, EndFacts DEF Answer
    <3>2. UNCHANGED <<users, codes, overlapped>> /\ ~At(c, "idle")
      BY <2>8 DEF FindToTrust, At
    <3> QED
      BY <1>0, <3>1, <3>2 DEF At, NoCodeAfterVerification, OneAtATime,
         CodeStages, Verified
  <2>9. CASE Activate(c)
    BY <2>9, <1>0, GotoFacts, EndFacts
       DEF Activate, At, NoCodeAfterVerification, OneAtATime,
           CodeStages, Verified
  <2>10. CASE Record(c)
    BY <2>10, <1>0, GotoFacts, EndFacts
       DEF Record, At, NoCodeAfterVerification, OneAtATime,
           CodeStages, Verified
  <2>11. CASE Rotate(c)
    BY <2>11, <1>0, GotoFacts, EndFacts
       DEF Rotate, Answer, At, NoCodeAfterVerification, OneAtATime,
           CodeStages, Verified
  <2> QED
    BY <1>4, <2>1, <2>2, <2>3, <2>4, <2>5, <2>6, <2>7, <2>8, <2>9, <2>10, <2>11 DEF ValidateOtp
<1>5. ASSUME NEW c \in Calls, UpdateBasicProfile(c) PROVE CodeInv'
  <2>1. CASE \E p \in handed, r \in Accounts \union {Nobody} :
               Begin(c, "protect", p[1], r, NoDevice, p[2])
    BY <2>1, <1>1 DEF TypeInv, TypedKeys
  <2>2. CASE Protect(c)
    BY <2>2, <1>0, GotoFacts, EndFacts
       DEF Protect, At, NoCodeAfterVerification, OneAtATime,
           CodeStages, Verified
  <2>3. CASE Referee(c)
    BY <2>3, <1>0, GotoFacts, EndFacts
       DEF Referee, At, NoCodeAfterVerification, OneAtATime,
           CodeStages, Verified
  <2>4. CASE WriteProfile(c)
    BY <2>4, <1>0, GotoFacts, EndFacts
       DEF WriteProfile, At, NoCodeAfterVerification, OneAtATime,
           CodeStages, Verified
  <2> QED
    BY <1>5, <2>1, <2>2, <2>3, <2>4 DEF UpdateBasicProfile
<1>6. ASSUME NEW c \in Calls, Interrupt(c) PROVE CodeInv'
  BY <1>6, <1>0, EndFacts DEF Interrupt, At, NoCodeAfterVerification,
     OneAtATime, CodeStages, Verified
<1>7. ASSUME NEW a \in Accounts, ClaimTag(a) \/ ExpireCode(a)
      PROVE  CodeInv'
  BY <1>7 DEF ClaimTag, ExpireCode, NoCodeAfterVerification, OneAtATime,
     CodeStages, Verified
<1>8. CASE UNCHANGED vars
  BY <1>8 DEF vars, NoCodeAfterVerification, OneAtATime, CodeStages, Verified
<1> QED
  BY <1>2, <1>3, <1>4, <1>5, <1>6, <1>7, <1>8 DEF Next

(* No code is stored for a verified account unless requests overlapped.    *)
THEOREM NoCodeAfterVerificationHolds == Spec => []NoCodeAfterVerification
<1>1. Init => CodeInv
  BY DEF Init, Idle, CodeInv, NoCodeAfterVerification, OneAtATime, CodeStages
<1> QED
  BY <1>1, TypeFirst, TypeStep, CodeStep, PTL DEF Spec, CodeInv

-----------------------------------------------------------------------------
\* Stages of validateOtp: a token is signed and not stored; it is stored and
\* not handed out.
Waiting == {"revoke", "store"}
Stored == {"findToTrust", "activate", "record", "rotate"}
Early == Labels \ ({"idle", "sign"} \union Waiting \union Stored)

(* Requests are numbered apart, and no number or token is ahead of begun.  *)
Numbered ==
  /\ \A a \in Accounts : token[a] <= begun /\ signed[a] <= begun
  /\ \A p \in blacklist : p[2] <= begun
  /\ \A c \in Calls : call[c].old <= begun
  /\ \A c \in Calls : call[c].at \in Waiting \union Stored
                        => call[c].token <= begun
  /\ \A c \in Calls : call[c].at # "idle"
                        => 0 < call[c].id /\ call[c].id <= begun
  /\ \A c, d \in Calls :
       call[c].at # "idle" /\ call[d].at # "idle" /\ call[c].id = call[d].id
         => c = d

(* Without a clash a token is the number of its request, and until it is   *)
(* stored nobody has seen it.                                              *)
FreshUntilStored ==
  \A c \in Calls :
    call[c].account \in Accounts \ clashed =>
      /\ call[c].at \in Waiting \union Stored => call[c].token = call[c].id
      /\ call[c].at \notin {"idle"} \union Stored =>
           /\ call[c].id # token[call[c].account]
           /\ <<call[c].account, call[c].id>> \notin blacklist
           /\ \A d \in Calls : call[d].account = call[c].account
                                => call[d].old # call[c].id

(* A stored token that is revoked is about to be replaced.                 *)
RevokedIsReplaced ==
  \A a \in Accounts \ (broken \union clashed) :
    <<a, token[a]>> \in blacklist
      => \E c \in Calls : call[c].at = "store" /\ call[c].account = a

(* A stored token was handed out or is about to be.                        *)
StoredIsHanded ==
  \A a \in Accounts \ (broken \union clashed) :
    token[a] # NoToken
      => \/ <<a, token[a]>> \in handed
         \/ \E c \in Calls : /\ call[c].at \in Stored
                             /\ call[c].account = a
                             /\ call[c].token = token[a]

(* A verified account has a token stored or is about to.                   *)
VerifiedIsSigned ==
  \A a \in Accounts \ (broken \union clashed) :
    Verified(a)
      => \/ token[a] # NoToken
         \/ \E c \in Calls : /\ call[c].at \in {"sign"} \union Waiting
                             /\ call[c].account = a

TokenInv ==
  /\ Numbered /\ FreshUntilStored /\ RevokedIsReplaced
  /\ StoredIsHanded /\ VerifiedIsSigned

(* The invariant says what is wanted of accounts at rest.                  *)
LEMMA TokenInvSuffices == TypeInv /\ TokenInv => VerifiedHasTokens
  BY DEF TypeInv, TokenInv, VerifiedHasTokens, RevokedIsReplaced,
         StoredIsHanded, VerifiedIsSigned, InFlight, Verified, Waiting, Stored

(* A step that has nothing to do with tokens.                              *)
LEMMA TokensAtRest ==
  ASSUME TypeInv, TokenInv, NEW c \in Calls,
         UNCHANGED <<token, blacklist, signed, handed, clashed, begun>>,
         broken \subseteq broken',
         \A a \in Accounts : Verified(a)' => Verified(a),
         \A d \in Calls \ {c} : call'[d] = call[d],
         \/ /\ call'[c] = Idle
            /\ call[c].at \in Early \/ call[c].account \in broken'
         \/ /\ \/ call[c].at \in Early /\ call'[c].at \in Early
               \/ call[c].at \in Stored /\ call'[c].at \in Stored
            /\ call'[c].account = call[c].account
            /\ call'[c].id = call[c].id
            /\ call'[c].token = call[c].token
            /\ call'[c].old = call[c].old
  PROVE  TokenInv'
<1> USE DEF TokenInv, Early, Waiting, Stored
<1>0. /\ begun \in Nat /\ "idle" \notin Early
      /\ Idle.at = "idle" /\ Idle.old = 0
      /\ Idle.account = Nobody /\ Idle.id = 0
  BY DEF TypeInv, TypedSets, Idle
<1>1. Numbered'
  BY <1>0 DEF Numbered
<1>2. FreshUntilStored'
  BY <1>0 DEF FreshUntilStored
<1>3. RevokedIsReplaced'
  BY <1>0 DEF RevokedIsReplaced
<1>4. StoredIsHanded'
  BY <1>0 DEF StoredIsHanded
<1>5. VerifiedIsSigned'
  BY <1>0 DEF VerifiedIsSigned
<1> QED
  BY <1>1, <1>2, <1>3, <1>4, <1>5

(* A request that ends leaves its slot idle.                               *)
LEMMA EndIs ==
  ASSUME Requests, NEW c \in Calls, End(c)
  PROVE  call'[c] = Idle /\ \A d \in Calls \ {c} : call'[d] = call[d]
  BY DEF End, Requests

(* A request that has stored its token hands it out and ends.              *)
LEMMA AnswerStep ==
  ASSUME TypeInv, TokenInv, NEW c \in Calls, Answer(c),
         call[c].at \in Stored,
         UNCHANGED <<users, token, blacklist, signed, begun, broken,
                     clashed>>
  PROVE  TokenInv'
<1> USE DEF TokenInv, Waiting, Stored
<1>0. /\ Requests /\ begun \in Nat /\ Idle.at = "idle" /\ Idle.old = 0
      /\ Idle.account = Nobody
  BY DEF TypeInv, TypedSets, Idle
<1>1. /\ handed' = handed \union {<<call[c].account, call[c].token>>}
      /\ call'[c] = Idle /\ \A d \in Calls \ {c} : call'[d] = call[d]
  BY <1>0, EndIs DEF Answer
<1>2. Numbered'
  BY <1>0, <1>1 DEF Numbered
<1>3. FreshUntilStored'
  BY <1>0, <1>1 DEF FreshUntilStored, Numbered
<1>4. RevokedIsReplaced'
  BY <1>0, <1>1 DEF RevokedIsReplaced
<1>5. StoredIsHanded'
  BY <1>0, <1>1 DEF StoredIsHanded
<1>6. VerifiedIsSigned'
  BY <1>0, <1>1 DEF VerifiedIsSigned, Verified
<1> QED
  BY <1>2, <1>3, <1>4, <1>5, <1>6

(* Every step keeps tokens as they should be.                              *)
LEMMA TokenStep == TypeInv /\ TokenInv /\ [Next]_vars => TokenInv'
<1> SUFFICES ASSUME TypeInv, TokenInv, [Next]_vars PROVE TokenInv'
  OBVIOUS
<1> USE DEF TokenInv, tables, tokens, troubles, NoToken
<1>0. /\ Requests /\ begun \in Nat
      /\ token \in [Accounts -> Nat] /\ signed \in [Accounts -> Nat]
      /\ blacklist \subseteq Accounts \X Nat
      /\ users \in [Accounts -> {"none", "unverified", "verified"}]
      /\ \A c \in Calls : ~At(c, "idle") => call[c].account \in Accounts
      /\ \A c \in Calls : call[c].id \in Nat /\ call[c].old \in Nat
                          /\ call[c].token \in Nat
  BY DEF TypeInv, TypedTables, TypedKeys, TypedSets, Requests,
         RequestsAreFilled, At, Call
<1>1. ASSUME NEW c \in Calls, NEW label \in Early, NEW a \in Accounts, NEW r,
             NEW d, NEW t, Begin(c, label, a, r, d, t)
      PROVE  TokenInv'
  <2> USE DEF Early, Waiting, Stored
  <2>1. /\ UNCHANGED <<users, token, blacklist, signed, handed, broken,
                       clashed>>
        /\ begun' = begun + 1 /\ call[c].at = "idle"
    BY <1>1 DEF Begin, At
  <2>2. /\ call'[c].at = label /\ call'[c].account = a
        /\ call'[c].id = begun + 1 /\ call'[c].old = 0
        /\ \A e \in Calls \ {c} : call'[e] = call[e]
    BY <1>0, <1>1 DEF Begin, Requests
  <2>3. Numbered'
    BY <1>0, <2>1, <2>2 DEF Numbered
  <2>4. FreshUntilStored'
    <3>1. /\ begun + 1 # token[a] /\ <<a, begun + 1>> \notin blacklist
          /\ \A e \in Calls : call[e].old # begun + 1
      BY <1>0 DEF Numbered
    <3> QED
      BY <1>0, <2>1, <2>2, <3>1 DEF FreshUntilStored, Numbered
  <2>5. RevokedIsReplaced'
    BY <2>1, <2>2 DEF RevokedIsReplaced
  <2>6. StoredIsHanded'
    BY <2>1, <2>2 DEF StoredIsHanded
  <2>7. VerifiedIsSigned'
    BY <2>1, <2>2 DEF VerifiedIsSigned, Verified
  <2> QED
    BY <2>3, <2>4, <2>5, <2>6, <2>7
<1>2. ASSUME NEW c \in Calls, Signup(c) PROVE TokenInv'
  <2>1. CASE \E a \in Accounts, r \in Accounts \union {Nobody},
                  d \in Devices :
               Begin(c, "referrer", a, r, d, NoToken)
    BY <2>1, <1>1 DEF Early, Labels, Waiting, Stored, TypeInv, TypedKeys
  <2>2. CASE Referrer(c)
    BY <2>2, <1>0, GotoFacts, EndIs, TokensAtRest
       DEF Referrer, At, Verified, Early, Labels, Waiting, Stored
  <2>3. CASE FindUser(c)
    BY <2>3, <1>0, GotoFacts, EndIs, TokensAtRest
       DEF FindUser, SignupRefused, At, Verified, Early, Labels, Waiting, Stored
  <2>4. CASE Create(c)
    BY <2>4, <1>0, GotoFacts, EndIs, TokensAtRest
       DEF Create, At, Verified, Early, Labels, Waiting, Stored
  <2>5. CASE SetReferrer(c)
    BY <2>5, <1>0, GotoFacts, EndIs, TokensAtRest
       DEF SetReferrer, At, Verified, Early, Labels, Waiting, Stored
  <2>6. CASE FindDevice(c)
    BY <2>6, <1>0, GotoFacts, EndIs, TokensAtRest
       DEF FindDevice, At, Verified, Early, Labels, Waiting, Stored
  <2>7. CASE CreateDevice(c)
    BY <2>7, <1>0, GotoFacts, EndIs, TokensAtRest
       DEF CreateDevice, At, Verified, Early, Labels, Waiting, Stored
  <2>8. CASE Send(c)
    BY <2>8, <1>0, GotoFacts, EndIs, TokensAtRest
       DEF Send, At, Verified, Early, Labels, Waiting, Stored
  <2> QED
    BY <1>2, <2>1, <2>2, <2>3, <2>4, <2>5, <2>6, <2>7, <2>8 DEF Signup
<1>3. ASSUME NEW c \in Calls, SendOtp(c) PROVE TokenInv'
  <2>1. CASE \E a \in Accounts :
               Begin(c, "findToSend", a, Nobody, NoDevice, NoToken)
    BY <2>1, <1>1 DEF Early, Labels, Waiting, Stored, TypeInv, TypedKeys
  <2>2. CASE FindToSend(c)
    BY <2>2, <1>0, GotoFacts, EndIs, TokensAtRest
       DEF FindToSend, SendRefused, At, Verified, Early, Labels, Waiting, Stored
  <2> QED
    BY <1>3, <2>1, <2>2 DEF SendOtp
<1>4. ASSUME NEW c \in Calls, ValidateOtp(c) PROVE TokenInv'
  <2>1. CASE \E a \in Accounts, d \in Devices \union {NoDevice} :
               Begin(c, "findToValidate", a, Nobody, d, NoToken)
    BY <2>1, <1>1 DEF Early, Labels, Waiting, Stored, TypeInv, TypedKeys
  <2>2. CASE FindToValidate(c)
    BY <2>2, <1>0, GotoFacts, EndIs, TokensAtRest
       DEF FindToValidate, At, Verified, Early, Labels, Waiting, Stored
  <2>3. CASE Take(c)
    BY <2>3, <1>0, GotoFacts, EndIs, TokensAtRest
       DEF Take, At, Verified, Early, Labels, Waiting, Stored
  <2>4. CASE Verify(c)
    <3> USE DEF Early, Waiting, Stored
    <3>1. /\ UNCHANGED <<token, blacklist, signed, handed, broken, clashed,
                         begun>>
          /\ call[c].at = "verify" /\ call'[c].at = "sign"
          /\ call'[c].account = call[c].account
          /\ call'[c].id = call[c].id /\ call'[c].old = call[c].old
          /\ \A d \in Calls \ {c} : call'[d] = call[d]
      BY <2>4, <1>0, GotoFacts DEF Verify, At
    <3>2. \A a \in Accounts \ {call[c].account} : Verified(a)' => Verified(a)
      BY <2>4, <1>0 DEF Verify, Verified
    <3>3. Numbered'
      BY <1>0, <3>1 DEF Numbered
    <3>4. FreshUntilStored'
      BY <1>0, <3>1 DEF FreshUntilStored
    <3>5. RevokedIsReplaced'
      BY <3>1 DEF RevokedIsReplaced
    <3>6. StoredIsHanded'
      BY <3>1 DEF StoredIsHanded
    <3>7. VerifiedIsSigned'
      BY <3>1, <3>2 DEF VerifiedIsSigned
    <3> QED
      BY <3>3, <3>4, <3>5, <3>6, <3>7
  <2>5. CASE Sign(c)
    <3> USE DEF Early, Waiting, Stored
    <3> DEFINE b == call[c].account
    <3>1. /\ UNCHANGED <<users, token, blacklist, handed, broken, begun>>
          /\ call[c].at = "sign" /\ b \in Accounts
      BY <2>5, <1>0 DEF Sign, At
    <3>2. /\ call'[c].at \in Waiting /\ call'[c].account = b
          /\ call'[c].id = call[c].id /\ call'[c].old = token[b]
          /\ \A d \in Calls \ {c} : call'[d] = call[d]
      BY <2>5, <1>0, SignFacts
    <3>3. /\ clashed \subseteq clashed'
          /\ b \notin clashed' => call'[c].token = call[c].id
          /\ call'[c].token \in {call[c].id, signed[b]}
          /\ signed' = [signed EXCEPT ![b] = call'[c].token]
      BY <2>5, <1>0, SignFacts
    <3>4. Numbered'
      <4>1. call'[c].token <= begun
        BY <1>0, <3>1, <3>3 DEF Numbered
      <4>2. \A a \in Accounts : signed'[a] <= begun
        BY <1>0, <4>1, <3>1, <3>3 DEF Numbered
      <4> QED
        BY <1>0, <4>1, <4>2, <3>1, <3>2 DEF Numbered
    <3>5. FreshUntilStored'
      BY <1>0, <3>1, <3>2, <3>3 DEF FreshUntilStored
    <3>6. RevokedIsReplaced'
      BY <3>1, <3>2, <3>3 DEF RevokedIsReplaced
    <3>7. StoredIsHanded'
      BY <3>1, <3>2, <3>3 DEF StoredIsHanded
    <3>8. VerifiedIsSigned'
      BY <3>1, <3>2, <3>3 DEF VerifiedIsSigned, Verified
    <3> QED
      BY <3>4, <3>5, <3>6, <3>7, <3>8
  <2>6. CASE Revoke(c)
    <3> USE DEF Early, Waiting, Stored
    <3> DEFINE b == call[c].account
    <3>1. /\ UNCHANGED <<users, token, signed, handed, broken, clashed,
                         begun>>
          /\ blacklist' = blacklist \union {<<b, call[c].old>>}
          /\ call[c].at = "revoke" /\ call'[c].at = "store"
          /\ call'[c].account = b /\ b \in Accounts
          /\ call'[c].id = call[c].id /\ call'[c].old = call[c].old
          /\ call'[c].token = call[c].token
          /\ \A d \in Calls \ {c} : call'[d] = call[d]
      BY <2>6, <1>0, GotoFacts DEF Revoke, At
    <3>2. Numbered'
      BY <1>0, <3>1 DEF Numbered
    <3>3. FreshUntilStored'
      BY <1>0, <3>1 DEF FreshUntilStored
    <3>4. RevokedIsReplaced'
      BY <3>1 DEF RevokedIsReplaced
    <3>5. StoredIsHanded'
      BY <3>1 DEF StoredIsHanded
    <3>6. VerifiedIsSigned'
      BY <3>1 DEF VerifiedIsSigned, Verified
    <3> QED
      BY <3>2, <3>3, <3>4, <3>5, <3>6
  <2>7. CASE Store(c)
    <3> USE DEF Early, Waiting, Stored
    <3> DEFINE b == call[c].account
    <3>1. /\ UNCHANGED <<users, blacklist, signed, handed, broken, clashed,
                         begun>>
          /\ token' = [token EXCEPT ![b] = call[c].token]
          /\ call[c].at = "store" /\ call'[c].at = "findToTrust"
          /\ call'[c].account = b /\ b \in Accounts
          /\ call'[c].id = call[c].id /\ call'[c].old = call[c].old
          /\ call'[c].token = call[c].token
          /\ \A d \in Calls \ {c} : call'[d] = call[d]
      BY <2>7, <1>0, GotoFacts DEF Store, At
    <3>2. /\ token'[b] = call[c].token
          /\ \A a \in Accounts \ {b} : token'[a] = token[a]
      BY <1>0, <3>1
    <3>3. b \notin clashed => call[c].token = call[c].id
      BY <3>1 DEF FreshUntilStored
    <3>4. 0 < call[c].id /\ call[c].id <= begun
      BY <3>1 DEF Numbered
    <3>5. Numbered'
      BY <1>0, <3>1, <3>2 DEF Numbered
    <3>6. FreshUntilStored'
      BY <1>0, <3>1, <3>2, <3>3 DEF FreshUntilStored, Numbered
    <3>7. RevokedIsReplaced'
      BY <1>0, <3>1, <3>2, <3>3 DEF RevokedIsReplaced, FreshUntilStored
    <3>8. StoredIsHanded'
      BY <3>1, <3>2 DEF StoredIsHanded
    <3>9. VerifiedIsSigned'
      BY <1>0, <3>1, <3>2, <3>3, <3>4 DEF VerifiedIsSigned, Verified
    <3> QED
      BY <3>5, <3>6, <3>7, <3>8, <3>9
  <2>8. CASE FindToTrust(c)
    <3>1. CASE ~Answer(c)
      BY <2>8, <3>1, <1>0, TrustFacts, TokensAtRest
         DEF FindToTrust, At, Verified, Stored
    <3>2. CASE Answer(c)
      BY <2>8, <3>2, <1>0, AnswerStep DEF FindToTrust, At, Stored, Verified
    <3> QED
      BY <2>8, <3>1, <3>2
  <2>9. CASE Activate(c)
    BY <2>9, <1>0, GotoFacts, EndIs, TokensAtRest
       DEF Activate, At, Verified, Early, Labels, Waiting, Stored
  <2>10. CASE Record(c)
    BY <2>10, <1>0, GotoFacts, EndIs, TokensAtRest
       DEF Record, At, Verified, Early, Labels, Waiting, Stored
  <2>11. CASE Rotate(c)
    <3>2. CASE Answer(c)
      BY <2>11, <3>2, <1>0, AnswerStep DEF Rotate, At, Stored, Verified
    <3> QED
      BY <2>11, <3>2 DEF Rotate
  <2> QED
    BY <1>4, <2>1, <2>2, <2>3, <2>4, <2>5, <2>6, <2>7, <2>8, <2>9, <2>10, <2>11 DEF ValidateOtp
<1>5. ASSUME NEW c \in Calls, UpdateBasicProfile(c) PROVE TokenInv'
  <2>1. CASE \E p \in handed, r \in Accounts \union {Nobody} :
               Begin(c, "protect", p[1], r, NoDevice, p[2])
    BY <2>1, <1>1 DEF Early, Labels, Waiting, Stored, TypeInv, TypedKeys
  <2>2. CASE Protect(c)
    BY <2>2, <1>0, GotoFacts, EndIs, TokensAtRest
       DEF Protect, At, Verified, Early, Labels, Waiting, Stored
  <2>3. CASE Referee(c)
    BY <2>3, <1>0, GotoFacts, EndIs, TokensAtRest
       DEF Referee, At, Verified, Early, Labels, Waiting, Stored
  <2>4. CASE WriteProfile(c)
    BY <2>4, <1>0, GotoFacts, EndIs, TokensAtRest
       DEF WriteProfile, At, Verified, Early, Labels, Waiting, Stored
  <2> QED
    BY <1>5, <2>1, <2>2, <2>3, <2>4 DEF UpdateBasicProfile
<1>6. ASSUME NEW c \in Calls, Interrupt(c) PROVE TokenInv'
  BY <1>6, <1>0, EndIs, TokensAtRest DEF Interrupt, Verified
<1>7. ASSUME NEW a \in Accounts, ClaimTag(a) \/ ExpireCode(a)
      PROVE  TokenInv'
  BY <1>7 DEF ClaimTag, ExpireCode, Numbered, FreshUntilStored,
     RevokedIsReplaced, StoredIsHanded, VerifiedIsSigned, Verified
<1>8. CASE UNCHANGED vars
  BY <1>8 DEF vars, Numbered, FreshUntilStored, RevokedIsReplaced,
     StoredIsHanded, VerifiedIsSigned, Verified
<1> QED
  BY <1>2, <1>3, <1>4, <1>5, <1>6, <1>7, <1>8 DEF Next

(* A verified account at rest has its live token in its client's hands.    *)
THEOREM VerifiedHasTokensHolds == Spec => []VerifiedHasTokens
<1>1. Init => TokenInv
  BY DEF Init, Idle, TokenInv, Numbered, FreshUntilStored, RevokedIsReplaced,
     StoredIsHanded, VerifiedIsSigned, Verified, NoToken, FirstToken
<1> QED
  BY <1>1, TypeFirst, TypeStep, TokenStep, TokenInvSuffices, PTL DEF Spec

-----------------------------------------------------------------------------
(* Between activateTrustedDevice and rotateRefreshToken.                   *)
Trusting(c) == call[c].at \in {"record", "rotate"}
RowOf(c) == device[call[c].account][call[c].device]

(* What such a request has written is there until it is done: alone on its *)
(* account, nobody else activates the row.                                 *)
TrustIsWritten ==
  \A c \in Calls :
    Trusting(c) /\ call[c].account \notin overlapped =>
      /\ RowOf(c).status = "active" /\ RowOf(c).trust = call[c].id
      /\ call[c].at = "rotate"
           => <<call[c].account, call[c].device, call[c].id>> \in recorded

(* An active row has all that belongs to its trust, or a request that is   *)
(* about to complete it.                                                   *)
TrustIsCompleted ==
  \A a \in Accounts \ (broken \union overlapped), d \in Devices :
    device[a][d].status = "active" =>
      \/ /\ device[a][d].trust = device[a][d].refresh
         /\ <<a, d, device[a][d].trust>> \in recorded
      \/ \E c \in Calls : Trusting(c) /\ call[c].account = a /\ call[c].device = d

TrustInv == TrustIsWritten /\ TrustIsCompleted

(* A step of a request that is not between the two, or breaks off there.   *)
LEMMA TrustAtRest ==
  ASSUME TypeInv, TrustInv, NEW c \in Calls,
         UNCHANGED <<device, recorded>>,
         broken \subseteq broken', overlapped \subseteq overlapped',
         \A d \in Calls \ {c} : call'[d] = call[d],
         call[c].at \notin {"record", "rotate"} \/ call[c].account \in broken',
         call'[c].at \notin {"record", "rotate"}
  PROVE  TrustInv'
  BY DEF TrustInv, TrustIsWritten, TrustIsCompleted, Trusting, RowOf

(* CreateDevice, Activate, Record and Rotate.                              *)
LEMMA RowCreated ==
  ASSUME TypeInv, TrustInv, NEW c \in Calls, CreateDevice(c)
  PROVE  TrustInv'
<1> DEFINE a == call[c].account
           d == call[c].device
<1>1. /\ Requests /\ device \in [Accounts -> [Devices -> DeviceRow]]
      /\ call[c].at = "createDevice" /\ a \in Accounts /\ d \in Devices
      /\ UNCHANGED <<recorded, broken, overlapped>>
  BY DEF CreateDevice, At, TypeInv, TypedTables, Requests, RequestsAreFilled,
         WithDevice, troubles
<1>2. /\ call'[c].at \in {"send", "idle"}
      /\ \A e \in Calls \ {c} : call'[e] = call[e]
  BY <1>1, GotoFacts, EndFacts DEF CreateDevice
<1>3. CASE UNCHANGED device
  BY <1>1, <1>2, <1>3, TrustAtRest
<1>4. CASE ~UNCHANGED device
  <2>1. d \notin RowsOf(a) /\ device' = [device EXCEPT ![a][d] =
           [status |-> "pending", older |-> RowsOf(a), trust |-> 0, refresh |-> 0]]
    BY <1>4 DEF CreateDevice
  <2>2. device[a][d].status = "absent"
    BY <1>1, <2>1 DEF RowsOf
  <2>3. device'[a][d].status = "pending"
    BY <1>1, <2>1
  <2>4. \A b \in Accounts, e \in Devices :
          b # a \/ e # d => device'[b][e] = device[b][e]
    BY <1>1, <2>1
  <2> HIDE DEF a, d
  <2>5. ASSUME NEW e \in Calls, Trusting(e)', call[e].account \notin overlapped
        PROVE  Trusting(e) /\ call'[e] = call[e] /\ RowOf(e)' = RowOf(e)
    <3>1. e # c /\ Trusting(e) /\ call'[e] = call[e]
      BY <1>2, <2>5 DEF Trusting
    <3>2. call[e].account \in Accounts /\ call[e].device \in Devices
      BY <1>1, <3>1 DEF Requests, RequestsAreFilled, Trusting, WithDevice
    <3>3. RowOf(e).status = "active"
      BY <2>5, <3>1 DEF TrustInv, TrustIsWritten
    <3> QED
      BY <2>2, <2>4, <3>1, <3>2, <3>3 DEF RowOf
  <2>6. TrustIsWritten'
    BY <1>1, <1>2, <2>5 DEF TrustInv, TrustIsWritten, Trusting
  <2>7. TrustIsCompleted'
    BY <1>1, <1>2, <2>3, <2>4 DEF TrustInv, TrustIsCompleted, Trusting
  <2> QED
    BY <2>6, <2>7 DEF TrustInv
<1> QED
  BY <1>3, <1>4

LEMMA RowActivated ==
  ASSUME TypeInv, CodeInv, TrustInv, NEW c \in Calls, Activate(c)
  PROVE  TrustInv'
<1> DEFINE a == call[c].account
           d == call[c].device
<1>1. /\ Requests /\ device \in [Accounts -> [Devices -> DeviceRow]]
      /\ call[c].at = "activate" /\ a \in Accounts /\ d \in Devices
      /\ UNCHANGED <<recorded, broken, overlapped>>
      /\ device' = [device EXCEPT ![a][d] =
                      [@ EXCEPT !.status = "active", !.trust = call[c].id]]
  BY DEF Activate, At, TypeInv, TypedTables, Requests, RequestsAreFilled,
         WithDevice, troubles
<1>2. /\ call'[c].at = "record" /\ call'[c].account = a /\ call'[c].device = d
      /\ call'[c].id = call[c].id
      /\ \A e \in Calls \ {c} : call'[e] = call[e]
  BY <1>1, GotoFacts DEF Activate
<1>3. device'[a][d].status = "active" /\ device'[a][d].trust = call[c].id
  <2>1. device[a][d] \in DeviceRow
    BY <1>1
  <2>2. device'[a][d] = [device[a][d] EXCEPT !.status = "active", !.trust = call[c].id]
    BY <1>1
  <2> QED
    BY <2>1, <2>2 DEF DeviceRow
<1>4. \A b \in Accounts, e \in Devices :
        b # a \/ e # d => device'[b][e] = device[b][e]
  BY <1>1
<1> HIDE DEF a, d
<1>5. ASSUME NEW e \in Calls \ {c}, Trusting(e)', call'[e].account \notin overlapped
      PROVE  Trusting(e) /\ call'[e] = call[e] /\ RowOf(e)' = RowOf(e)
  <2>1. Trusting(e) /\ call'[e] = call[e]
    BY <1>2, <1>5 DEF Trusting
  <2>2. call[e].account \in Accounts /\ call[e].device \in Devices
    BY <1>1, <2>1 DEF Requests, RequestsAreFilled, Trusting, WithDevice
  <2>3. call[e].account # a
    BY <1>1, <1>5, <2>1 DEF CodeInv, OneAtATime, Trusting, a
  <2> QED
    BY <1>4, <2>1, <2>2, <2>3 DEF RowOf
<1>6. TrustIsWritten'
  <2>1. ASSUME NEW e \in Calls, Trusting(e)', call'[e].account \notin overlapped'
        PROVE  (/\ RowOf(e).status = "active" /\ RowOf(e).trust = call[e].id
                /\ call[e].at = "rotate"
                     => <<call[e].account, call[e].device, call[e].id>> \in recorded)'
    <3>1. CASE e = c
      BY <1>2, <1>3, <3>1 DEF RowOf
    <3>2. CASE e # c
      BY <1>1, <1>5, <2>1, <3>2 DEF TrustInv, TrustIsWritten
    <3> QED
      BY <3>1, <3>2
  <2> QED
    BY <2>1 DEF TrustIsWritten
<1>7. TrustIsCompleted'
  BY <1>1, <1>2, <1>4 DEF TrustInv, TrustIsCompleted, Trusting
<1> QED
  BY <1>6, <1>7 DEF TrustInv

LEMMA TrustRecorded ==
  ASSUME TypeInv, TrustInv, NEW c \in Calls, Record(c)
  PROVE  TrustInv'
<1>1. /\ Requests /\ call[c].at = "record"
      /\ UNCHANGED <<device, broken, overlapped>>
      /\ recorded' = recorded \union {<<call[c].account, call[c].device, call[c].id>>}
  BY DEF Record, At, TypeInv, troubles
<1>2. /\ call'[c].at = "rotate" /\ call'[c].account = call[c].account
      /\ call'[c].device = call[c].device /\ call'[c].id = call[c].id
      /\ \A e \in Calls \ {c} : call'[e] = call[e]
  BY <1>1, GotoFacts DEF Record
<1> QED
  BY <1>1, <1>2 DEF TrustInv, TrustIsWritten, TrustIsCompleted, Trusting, RowOf

LEMMA TrustRotated ==
  ASSUME TypeInv, CodeInv, TrustInv, NEW c \in Calls, Rotate(c)
  PROVE  TrustInv'
<1> DEFINE a == call[c].account
           d == call[c].device
<1>1. /\ Requests /\ device \in [Accounts -> [Devices -> DeviceRow]]
      /\ call[c].at = "rotate" /\ a \in Accounts /\ d \in Devices
      /\ UNCHANGED <<recorded, broken, overlapped>>
      /\ device' = [device EXCEPT ![a][d] = [@ EXCEPT !.refresh = call[c].id]]
  BY DEF Rotate, NewRefresh, At, TypeInv, TypedTables, Requests, RequestsAreFilled,
         WithDevice, troubles
<1>2. call'[c].at = "idle" /\ \A e \in Calls \ {c} : call'[e] = call[e]
  BY <1>1, EndFacts DEF Rotate, Answer
<1>3. /\ device'[a][d].status = device[a][d].status
      /\ device'[a][d].trust = device[a][d].trust
      /\ device'[a][d].refresh = call[c].id
  <2>1. device[a][d] \in DeviceRow
    BY <1>1
  <2>2. device'[a][d] = [device[a][d] EXCEPT !.refresh = call[c].id]
    BY <1>1
  <2> QED
    BY <2>1, <2>2 DEF DeviceRow
<1>4. \A b \in Accounts, e \in Devices :
        b # a \/ e # d => device'[b][e] = device[b][e]
  BY <1>1
<1>5. a \notin overlapped => device[a][d].trust = call[c].id /\ <<a, d, call[c].id>> \in recorded
  BY <1>1 DEF TrustInv, TrustIsWritten, Trusting, RowOf
<1> HIDE DEF a, d
<1>6. \A b \in Accounts, e \in Devices :
        device'[b][e].status = device[b][e].status /\ device'[b][e].trust = device[b][e].trust
  BY <1>3, <1>4
<1>7. TrustIsWritten'
  <2>1. \A e \in Calls : Trusting(e)' =>
          /\ e # c /\ call'[e] = call[e] /\ Trusting(e)
          /\ call[e].account \in Accounts /\ call[e].device \in Devices
    BY <1>1, <1>2 DEF Trusting, Requests, RequestsAreFilled, WithDevice
  <2> QED
    BY <1>1, <1>6, <2>1 DEF TrustInv, TrustIsWritten, RowOf
<1>8. TrustIsCompleted'
  <2>1. ASSUME NEW b \in Accounts \ (broken \union overlapped), NEW e \in Devices,
               device'[b][e].status = "active", b # a \/ e # d
        PROVE  (\/ /\ device[b][e].trust = device[b][e].refresh
                   /\ <<b, e, device[b][e].trust>> \in recorded
                \/ \E f \in Calls : Trusting(f) /\ call[f].account = b /\ call[f].device = e)'
    BY <1>1, <1>2, <1>4, <2>1 DEF TrustInv, TrustIsCompleted, Trusting, a, d
  <2>2. ASSUME a \notin overlapped
        PROVE  /\ device'[a][d].trust = device'[a][d].refresh
               /\ <<a, d, device'[a][d].trust>> \in recorded'
    BY <1>1, <1>3, <1>5, <2>2
  <2> QED
    BY <1>1, <2>1, <2>2 DEF TrustIsCompleted
<1> QED
  BY <1>7, <1>8 DEF TrustInv

(* Every step keeps trust written and completed.                           *)
LEMMA TrustStep == TypeInv /\ CodeInv /\ TrustInv /\ [Next]_vars => TrustInv'
<1> SUFFICES ASSUME TypeInv, CodeInv, TrustInv, [Next]_vars PROVE TrustInv'
  OBVIOUS
<1> USE DEF tables, tokens, troubles, At
<1>0. Requests
  BY DEF TypeInv
<1>1. ASSUME NEW c \in Calls, NEW label, NEW a, NEW r, NEW d, NEW t,
             label \in {"referrer", "findToSend", "findToValidate",
                        "protect"}, Begin(c, label, a, r, d, t)
      PROVE  TrustInv'
  <2>1. /\ call[c].at = "idle" /\ call'[c].at = label
        /\ \A e \in Calls \ {c} : call'[e] = call[e]
    BY <1>0, <1>1, BeginFacts DEF Begin
  <2>2. UNCHANGED <<device, recorded, broken>> /\ overlapped \subseteq overlapped'
    BY <1>1 DEF Begin
  <2> QED
    BY <1>1, <2>1, <2>2, TrustAtRest
<1>2. ASSUME NEW c \in Calls, Signup(c) \/ SendOtp(c), ~CreateDevice(c) PROVE TrustInv'
  <2>1. CASE \/ \E a \in Accounts, r \in Accounts \union {Nobody}, d \in Devices :
                  Begin(c, "referrer", a, r, d, NoToken)
             \/ \E a \in Accounts : Begin(c, "findToSend", a, Nobody, NoDevice, NoToken)
    BY <1>1, <2>1
  <2>2. CASE Referrer(c) \/ FindUser(c) \/ Create(c) \/ SetReferrer(c) \/ FindDevice(c)
               \/ Send(c) \/ FindToSend(c)
    <3>1. /\ call[c].at \notin {"record", "rotate"} /\ call'[c].at \notin {"record", "rotate"}
          /\ \A e \in Calls \ {c} : call'[e] = call[e]
      BY <1>0, <2>2, GotoFacts, EndFacts
         DEF Referrer, FindUser, Create, SetReferrer, FindDevice, Send, FindToSend
    <3>2. UNCHANGED <<device, recorded, broken, overlapped>>
      BY <2>2 DEF Referrer, FindUser, Create, SetReferrer, FindDevice, Send, FindToSend
    <3> QED
      BY <3>1, <3>2, TrustAtRest
  <2> QED
    BY <1>2, <2>1, <2>2 DEF Signup, SendOtp
<1>3. ASSUME NEW c \in Calls, ValidateOtp(c), ~Activate(c), ~Record(c), ~Rotate(c)
      PROVE  TrustInv'
  <2>1. CASE \E a \in Accounts, d \in Devices \union {NoDevice} :
               Begin(c, "findToValidate", a, Nobody, d, NoToken)
    BY <1>1, <2>1
  <2>2. CASE FindToValidate(c) \/ Take(c) \/ Verify(c) \/ Sign(c) \/ Revoke(c)
               \/ Store(c) \/ FindToTrust(c)
    <3>1. /\ call[c].at \notin {"record", "rotate"} /\ call'[c].at \notin {"record", "rotate"}
          /\ \A e \in Calls \ {c} : call'[e] = call[e]
      <4>1. CASE FindToValidate(c) \/ Take(c) \/ Verify(c) \/ Revoke(c) \/ Store(c)
        BY <1>0, <4>1, GotoFacts, EndFacts DEF FindToValidate, Take, Verify, Revoke, Store
      <4>2. CASE Sign(c)
        BY <1>0, <4>2, SignFacts DEF Sign
      <4>3. CASE FindToTrust(c)
        BY <1>0, <4>3, TrustFacts, EndFacts DEF FindToTrust, Answer
      <4> QED
        BY <2>2, <4>1, <4>2, <4>3
    <3>2. UNCHANGED <<device, recorded, broken, overlapped>>
      BY <2>2 DEF FindToValidate, Take, Verify, Sign, Revoke, Store, FindToTrust
    <3> QED
      BY <3>1, <3>2, TrustAtRest
  <2> QED
    BY <1>3, <2>1, <2>2 DEF ValidateOtp
<1>4. ASSUME NEW c \in Calls, UpdateBasicProfile(c) PROVE TrustInv'
  <2>1. CASE \E p \in handed, r \in Accounts \union {Nobody} :
               Begin(c, "protect", p[1], r, NoDevice, p[2])
    BY <1>1, <2>1
  <2>2. CASE Protect(c) \/ Referee(c) \/ WriteProfile(c)
    <3>1. /\ call[c].at \notin {"record", "rotate"} /\ call'[c].at \notin {"record", "rotate"}
          /\ \A e \in Calls \ {c} : call'[e] = call[e]
      BY <1>0, <2>2, GotoFacts, EndFacts DEF Protect, Referee, WriteProfile
    <3>2. UNCHANGED <<device, recorded, broken, overlapped>>
      BY <2>2 DEF Protect, Referee, WriteProfile
    <3> QED
      BY <3>1, <3>2, TrustAtRest
  <2> QED
    BY <1>4, <2>1, <2>2 DEF UpdateBasicProfile
<1>5. ASSUME NEW c \in Calls, Interrupt(c) PROVE TrustInv'
  <2>1. call'[c].at = "idle" /\ \A e \in Calls \ {c} : call'[e] = call[e]
    BY <1>0, <1>5, EndFacts DEF Interrupt
  <2>2. UNCHANGED <<device, recorded, overlapped>> /\ broken' = broken \union {call[c].account}
    BY <1>5 DEF Interrupt
  <2> QED
    BY <2>1, <2>2, TrustAtRest
<1>6. ASSUME NEW a \in Accounts, ClaimTag(a) \/ ExpireCode(a) PROVE TrustInv'
  BY <1>6 DEF ClaimTag, ExpireCode, TrustInv, TrustIsWritten, TrustIsCompleted, Trusting, RowOf
<1>7. CASE UNCHANGED vars
  BY <1>7 DEF vars, TrustInv, TrustIsWritten, TrustIsCompleted, Trusting, RowOf
<1>8. ASSUME NEW c \in Calls, CreateDevice(c) \/ Activate(c) \/ Record(c) \/ Rotate(c)
      PROVE  TrustInv'
  BY <1>8, RowCreated, RowActivated, TrustRecorded, TrustRotated
<1> QED
  BY <1>2, <1>3, <1>4, <1>5, <1>6, <1>7, <1>8 DEF Next

(* The trust of an active device is all of one validation: its token in    *)
(* the history and its refresh token, unless requests about the account    *)
(* overlapped or one was cut short (src/services/otp.service.ts:89).       *)
THEOREM TrustedByOneValidationHolds == Spec => []TrustedByOneValidation
<1>1. Init => CodeInv /\ TrustInv
  BY DEF Init, Idle, CodeInv, NoCodeAfterVerification, OneAtATime, CodeStages,
     TrustInv, TrustIsWritten, TrustIsCompleted, Trusting, RowOf, NoRow
<1>2. TypeInv /\ TrustInv => TrustedByOneValidation
  BY DEF TrustInv, TrustIsCompleted, TrustedByOneValidation, Trusting, InFlight
<1> QED
  BY <1>1, <1>2, TypeFirst, TypeStep, CodeStep, TrustStep, PTL DEF Spec
=============================================================================
