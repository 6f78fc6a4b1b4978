------------------------------- MODULE OAuth -------------------------------
(***************************************************************************)
(* Signing in with a Google or Apple identity token: the strategies of     *)
(* src/src/config/passport.ts and handleOAuthCallback of                   *)
(* src/src/services/auth/oauth.service.ts, over the tables users and       *)
(* oauth_providers and the Redis keys oauth:used:<token>.                  *)
(*                                                                         *)
(* A token is what verifyGoogleToken or verifyAppleToken let through: an   *)
(* identity of a provider and an email address, which may change from one  *)
(* token of an identity to the next, and which Apple may leave out.        *)
(***************************************************************************)
EXTENDS Naturals

CONSTANTS
  SignIns,      \* sign-ins in flight together
  Tokens,
  Identity,     \* token -> [provider, sub]
  Email,        \* token -> its address, NoEmail without one
  NoEmail,
  Users,        \* the ids of the users there may be
  MaxSignIns,   \* bound: sign-ins ever begun
  Lapsing       \* bound: the tokens whose exp may pass

ASSUME OAuthAssumption ==
  /\ MaxSignIns \in Nat /\ Lapsing \subseteq Tokens
  /\ \A t \in Tokens : Identity[t].provider \in {"google", "apple"}

VARIABLES
  users,        \* the rows: [id, email, named]; named: the username is not ""
  connections,  \* the rows of oauth_providers: [user, identity]
  usedKeys,     \* tokens whose oauth:used key exists
  clock,        \* token -> "before", "in" or "after" the second of its exp
  signIn,       \* sign-in -> [at, token, user]
  begun,        \* sign-ins so far (bound)
  accepted,     \* history: how often each token passed the check
  tangled,      \* history: tokens under check twice at once or in the second of
                \* their exp, or not marked
  loggedIn      \* history: <<identity, user id>>

oauthVars ==
  <<users, connections, usedKeys, clock, signIn, begun, accepted, tangled,
    loggedIn>>

Nobody == "nobody"
Outside == [at |-> "outside", token |-> "none", user |-> Nobody]

IdOf(email) == {row.id : row \in {r \in users : r.email = email}}

OAuthInit ==
  /\ users = {}
  /\ connections = {}
  /\ usedKeys = {} /\ clock = [t \in Tokens |-> "before"]
  /\ signIn = [s \in SignIns |-> Outside] /\ begun = 0
  /\ accepted = [t \in Tokens |-> 0]
  /\ tangled = {} /\ loggedIn = {}

At(s, label) == signIn[s].at = label
Goto(s, label) == signIn' = [signIn EXCEPT ![s].at = label]
Ends(s) == signIn' = [signIn EXCEPT ![s] = Outside]
Token(s) == signIn[s].token

UnderCheck(t) == {s \in SignIns : signIn[s].at \in {"verified", "unused"} /\ Token(s) = t}

\* verifyGoogleToken and verifyAppleToken refuse what is past its exp; the
\* Google strategy also a token without an address.
Verified(t) ==
  clock[t] # "after" /\ (Identity[t].provider = "google" => Email[t] # NoEmail)

Present(s, t) ==
  /\ At(s, "outside") /\ begun < MaxSignIns
  /\ begun' = begun + 1
  /\ IF Verified(t)
     THEN /\ signIn' = [signIn EXCEPT ![s] = [at |-> "verified", token |-> t, user |-> Nobody]]
          /\ tangled' = IF UnderCheck(t) # {} THEN tangled \union {t} ELSE tangled
     ELSE UNCHANGED <<signIn, tangled>>
  /\ UNCHANGED <<users, connections, usedKeys, clock, accepted, loggedIn>>

\* A failing Redis counts as "used".
isTokenUsed(s) ==
  /\ At(s, "verified")
  /\ \/ Ends(s) /\ UNCHANGED tangled
     \/ /\ Token(s) \notin usedKeys
        /\ Goto(s, "unused")
        /\ tangled' = IF clock[Token(s)] = "before" THEN tangled ELSE tangled \union {Token(s)}
  /\ UNCHANGED <<users, connections, usedKeys, clock, accepted, begun, loggedIn>>

\* markTokenAsUsed swallows its errors.
markTokenAsUsed(s) ==
  /\ At(s, "unused")
  /\ \/ usedKeys' = usedKeys \union {Token(s)} /\ UNCHANGED tangled
     \/ tangled' = tangled \union {Token(s)} /\ UNCHANGED usedKeys
  /\ accepted' = [accepted EXCEPT ![Token(s)] = @ + 1]
  /\ Goto(s, "marked")
  /\ UNCHANGED <<users, connections, clock, begun, loggedIn>>

ConnectionsOf(identity) == {k \in connections : k.identity = identity}

\* handleOAuthCallback: by identity first, then by address.
FindConnection(s) ==
  /\ At(s, "marked")
  /\ IF Email[Token(s)] = NoEmail
     THEN Ends(s)
     ELSE IF ConnectionsOf(Identity[Token(s)]) = {}
          THEN Goto(s, "unknown")
          ELSE \E k \in ConnectionsOf(Identity[Token(s)]) :
                 signIn' = [signIn EXCEPT ![s].at = "known", ![s].user = k.user]
  /\ UNCHANGED <<users, connections, usedKeys, clock, accepted, tangled, begun, loggedIn>>

LogIn(s, id) == loggedIn' = loggedIn \union {<<Identity[Token(s)], id>>}

updateTokens(s) ==
  /\ At(s, "known")
  /\ LogIn(s, signIn[s].user)
  /\ Ends(s)
  /\ UNCHANGED <<users, connections, usedKeys, clock, begun, accepted, tangled>>

FindUser(s) ==
  /\ At(s, "unknown")
  /\ IF IdOf(Email[Token(s)]) = {}
     THEN Goto(s, "creating")
     ELSE \E id \in IdOf(Email[Token(s)]) :
            signIn' = [signIn EXCEPT ![s].at = "linking", ![s].user = id]
  /\ UNCHANGED <<users, connections, usedKeys, clock, accepted, tangled, begun, loggedIn>>

\* The unique constraints of oauth_providers; before them, the table with the
\* one on (provider, provider_id) left out.
OneProviderPerUser(k) ==
  \A other \in connections :
    ~(other.user = k.user /\ other.identity.provider = k.identity.provider)
ConnectionIsNew(k) ==
  OneProviderPerUser(k) /\ \A other \in connections : other.identity # k.identity

createProviderConnectionIn(k) ==
  /\ ConnectionIsNew(k)
  /\ connections' = connections \union {k}

\* A constraint is violated, or the database fails: nothing is written.
SignInFails(s) ==
  /\ signIn[s].at \in {"marked", "known", "unknown", "linking", "creating"}
  /\ Ends(s)
  /\ UNCHANGED <<users, connections, usedKeys, clock, accepted, tangled, begun, loggedIn>>

Link(s) ==
  /\ At(s, "linking")
  /\ createProviderConnectionIn([user |-> signIn[s].user, identity |-> Identity[Token(s)]])
  /\ LogIn(s, signIn[s].user)
  /\ Ends(s)
  /\ UNCHANGED <<users, usedKeys, clock, begun, accepted, tangled>>

\* The column email is unique.
AddressIsNew(email) == \A row \in users : row.email # email

\* A user made here has the username "", which the column's unique constraint
\* allows to one user at a time.
UserIsNew(email) == AddressIsNew(email) /\ \A row \in users : row.named

createUserWithProvider(s) ==
  /\ At(s, "creating")
  /\ UserIsNew(Email[Token(s)])
  /\ \E id \in Users \ {row.id : row \in users} :
       /\ users' = users \union {[id |-> id, email |-> Email[Token(s)], named |-> FALSE]}
       /\ createProviderConnectionIn([user |-> id, identity |-> Identity[Token(s)]])
       /\ LogIn(s, id)
  /\ Ends(s)
  /\ UNCHANGED <<usedKeys, clock, begun, accepted, tangled>>

SignInStep(s) ==
  \/ \E t \in Tokens : Present(s, t)
  \/ isTokenUsed(s) \/ markTokenAsUsed(s) \/ FindConnection(s) \/ updateTokens(s) \/ FindUser(s)
  \/ Link(s) \/ createUserWithProvider(s) \/ SignInFails(s)

\* AuthService.signup meanwhile: a user without a username (NULL, which any number
\* of users may have).
signup(id, email) ==
  /\ id \notin {row.id : row \in users} /\ AddressIsNew(email)
  /\ users' = users \union {[id |-> id, email |-> email, named |-> TRUE]}
  /\ UNCHANGED <<connections, usedKeys, clock, signIn, accepted, tangled, begun, loggedIn>>

\* The user chooses a username (Verxatag).
Named(id) ==
  /\ \E row \in users :
       /\ row.id = id /\ ~row.named
       /\ users' = (users \ {row}) \union {[row EXCEPT !.named = TRUE]}
  /\ UNCHANGED <<connections, usedKeys, clock, signIn, accepted, tangled, begun, loggedIn>>

Ages(t) ==
  /\ t \in Lapsing /\ clock[t] # "after"
  /\ clock' = [clock EXCEPT ![t] = IF @ = "before" THEN "in" ELSE "after"]
  /\ UNCHANGED <<users, connections, usedKeys, signIn, accepted, tangled, begun, loggedIn>>

\* The key's time to live is exp - now in whole seconds, or a minute if that is
\* more: it may run out in the second of exp, when the token is still verified.
\* Before it, a lifetime chosen without a look at exp.
ShortLife(t) == t \in usedKeys
KeyRunsOut(t) == t \in usedKeys /\ clock[t] # "before"
ExpireKey(t) ==
  /\ KeyRunsOut(t)
  /\ usedKeys' = usedKeys \ {t}
  /\ UNCHANGED <<users, connections, clock, signIn, accepted, tangled, begun, loggedIn>>

OAuthElapse ==
  \/ \E id \in Users, email \in {Email[t] : t \in Tokens} \ {NoEmail} : signup(id, email)
  \/ \E id \in Users : Named(id)
  \/ \E t \in Tokens : Ages(t) \/ ExpireKey(t)

-----------------------------------------------------------------------------
(* Properties.                                                             *)

\* An identity always signs in as the same user, though its address changes
\* between tokens, users sign up with that address meanwhile, and the look-ups
\* by identity and by address are statements of their own
\* (oauth.service.ts:38-79; only oauth.schema.ts:21 keeps it true).
OneAccountPerIdentity ==
  \A x, y \in loggedIn : x[1] = y[1] => x[2] = y[2]

\* A token is accepted once, however its key and its own time run out, unless two
\* presentations overlapped, its key could not be written, or it was looked up in
\* the second of its exp, when the key may be gone and the token is not
\* (passport.ts:40-84, 279).
TokenAcceptedOnce ==
  \A t \in Tokens \ tangled : accepted[t] <= 1
=============================================================================
