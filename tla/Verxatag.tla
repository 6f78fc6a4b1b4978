------------------------------ MODULE Verxatag ------------------------------
(***************************************************************************)
(* VerxatagService.claimVerxatag and updateVerxatag                        *)
(* (src/services/verxatag.service.ts) over the verxatags and users tables. *)
(*                                                                         *)
(* claimVerxatag opens a transaction and then does its reads through       *)
(* `this.db`, so they neither see nor lock anything of the transaction and *)
(* each needs a second connection of the pool while the first is held.     *)
(* updateVerxatag reads before its transaction and trusts what it read.    *)
(*                                                                         *)
(* A transaction only writes, so it is one step, at its commit.  Rows are  *)
(* never INACTIVE: `deactivate` has no caller.  Names stand for normalised *)
(* usernames that pass validation and are not reserved.                    *)
(***************************************************************************)
EXTENDS Integers, Sequences, FiniteSets

CONSTANTS
  Calls,     \* slots for requests in flight
  Users,
  Names,     \* normalised usernames
  None,      \* users.username is null
  PoolMax,   \* envConfig.db.pool.max
  MaxYear,   \* bound: the last year
  MaxCalls   \* bound: requests ever made

ASSUME VerxatagAssumption ==
  /\ IsFiniteSet(Calls)
  /\ None \notin Names
  /\ PoolMax \in Nat \ {0}
  /\ MaxYear \in Nat /\ MaxCalls \in Nat

VARIABLES
  tags,      \* table verxatags: the id of a row is its place
  username,  \* users.username, without the "@" of formatDisplayName
  year,      \* the current year
  pc, user, name,  \* the requests: next step, who asks, for which name
  id, row,   \* updateVerxatag: existingVerxatag, its id and what was read
  inTx,      \* requests that hold a connection for their transaction
  begun,     \* requests made so far
  renames,   \* history: committed renames by each user in the current year
  overlapped \* history: users whose own requests have overlapped

request == <<user, name>>
vars == <<tags, username, year, pc, request, id, row, inTx, begun, renames,
          overlapped>>

Tag == [owner : Users, name : Names, changeCount : Nat, updated : Nat]
Labels == {"idle", "claimBegin", "claimAvailable", "claimActive",
           "claimCommit", "find", "available", "pin", "updateCommit"}
NoTag == [owner |-> None, name |-> None, changeCount |-> 0, updated |-> 0]

Init ==
  /\ tags = <<>>
  /\ username = [u \in Users |-> None]
  /\ year = 0
  /\ pc = [c \in Calls |-> "idle"]
  /\ user = [c \in Calls |-> None]
  /\ name = [c \in Calls |-> None]
  /\ id = [c \in Calls |-> 0]
  /\ row = [c \in Calls |-> NoTag]
  /\ inTx = {} /\ begun = 0
  /\ renames = [u \in Users |-> 0]
  /\ overlapped = {}

At(c, label) == pc[c] = label
Goto(c, label) == pc' = [pc EXCEPT ![c] = label]

TagsOf(u) == {i \in DOMAIN tags : tags[i].owner = u}

\* findByUsernameWithGracePeriod finds no row.
NameIsFree(n) == \A i \in DOMAIN tags : tags[i].name # n

\* The table's UNIQUE constraint lets row i (or a new one) have this name;
\* before it, a table without the constraint.
NoConstraint(i, n) == TRUE
UniqueName(i, n) == \A j \in DOMAIN tags : j # i => tags[j].name # n

\* findActiveByUserId finds no row; before it, no check.
AnyUser(u) == TRUE
HasNoTag(u) == TagsOf(u) = {}

\* postgres.js hands out at most PoolMax connections and queues the rest; before
\* it, a pool that keeps one back.
ConnectionSpare == Cardinality(inTx) < PoolMax - 1
ConnectionFree == Cardinality(inTx) < PoolMax

\* COMMIT and ROLLBACK return the connection; before it, a leak.
ConnectionLeak(c) == inTx' = inTx
ReleaseConnection(c) == inTx' = inTx \ {c}

\* updateUsername, in the same transaction; before it, left out of it.
UsernameForgotten(u, n) == UNCHANGED username
UpdateUsername(u, n) == username' = [username EXCEPT ![u] = n]

-----------------------------------------------------------------------------
Begin(c, label, u, n) ==
  /\ At(c, "idle") /\ begun < MaxCalls
  /\ begun' = begun + 1
  /\ user' = [user EXCEPT ![c] = u] /\ name' = [name EXCEPT ![c] = n]
  /\ Goto(c, label)
  /\ overlapped' = IF \E d \in Calls : pc[d] # "idle" /\ user[d] = u
                   THEN overlapped \union {u} ELSE overlapped
  /\ UNCHANGED <<tags, username, year, id, row, inTx, renames>>

\* claimVerxatag -----------------------------------------------------------
ClaimBegin(c) ==
  /\ At(c, "claimBegin") /\ ConnectionFree
  /\ inTx' = inTx \union {c}
  /\ Goto(c, "claimAvailable")
  /\ UNCHANGED <<tags, username, year, request, id, row, begun, renames,
                 overlapped>>

\* checkUsernameAvailability; a thrown error rolls the transaction back.
ClaimAvailable(c) ==
  /\ At(c, "claimAvailable") /\ ConnectionFree
  /\ \/ /\ NameIsFree(name[c])
        /\ Goto(c, "claimActive") /\ UNCHANGED inTx
     \/ /\ ~NameIsFree(name[c])
        /\ Goto(c, "idle") /\ ReleaseConnection(c)
  /\ UNCHANGED <<tags, username, year, request, id, row, begun, renames,
                 overlapped>>

\* findActiveByUserId.
ClaimActive(c) ==
  /\ At(c, "claimActive") /\ ConnectionFree
  /\ \/ /\ HasNoTag(user[c])
        /\ Goto(c, "claimCommit") /\ UNCHANGED inTx
     \/ /\ ~HasNoTag(user[c])
        /\ Goto(c, "idle") /\ ReleaseConnection(c)
  /\ UNCHANGED <<tags, username, year, request, id, row, begun, renames,
                 overlapped>>

\* INSERT, updateUsername, COMMIT; or the constraint fails and ROLLBACK.
ClaimCommit(c) ==
  /\ At(c, "claimCommit")
  /\ \/ /\ UniqueName(0, name[c])
        /\ tags' = Append(tags, [owner |-> user[c], name |-> name[c],
                                 changeCount |-> 0, updated |-> year])
        /\ UpdateUsername(user[c], name[c])
     \/ /\ ~UniqueName(0, name[c])
        /\ UNCHANGED <<tags, username, overlapped>>
  /\ Goto(c, "idle") /\ ReleaseConnection(c)
  /\ UNCHANGED <<year, request, id, row, begun, renames,
                 overlapped>>

\* updateVerxatag ----------------------------------------------------------
LimitReachedLate(t) == t.changeCount >= 3 /\ t.updated = year
LimitReached(t) == t.changeCount >= 2 /\ t.updated = year

\* findActiveByUserId, the change limit and the same-name check.
Find(c) ==
  /\ At(c, "find") /\ ConnectionFree
  /\ \/ /\ TagsOf(user[c]) = {}
        /\ Goto(c, "idle") /\ UNCHANGED <<id, row, overlapped>>
     \/ \E i \in TagsOf(user[c]) :
          /\ id' = [id EXCEPT ![c] = i] /\ row' = [row EXCEPT ![c] = tags[i]]
          /\ Goto(c, IF LimitReached(tags[i]) \/ tags[i].name = name[c]
                     THEN "idle" ELSE "available")
  /\ UNCHANGED <<tags, username, year, request, inTx, begun, renames,
                 overlapped>>

Available(c) ==
  /\ At(c, "available") /\ ConnectionFree
  /\ Goto(c, IF NameIsFree(name[c]) THEN "pin" ELSE "idle")
  /\ UNCHANGED <<tags, username, year, request, id, row, inTx, begun, renames,
                 overlapped>>

\* verifyTransactionPin (module TransactionPin) accepts the PIN or not.
Pin(c, success) ==
  /\ At(c, "pin") /\ ConnectionFree
  /\ Goto(c, IF success THEN "updateCommit" ELSE "idle")
  /\ UNCHANGED <<tags, username, year, request, id, row, inTx, begun, renames,
                 overlapped>>

\* The new count is computed from the row that was read, not from the table.
UpdateCommit(c) ==
  LET changes == IF row[c].updated = year THEN row[c].changeCount + 1 ELSE 1
  IN  /\ At(c, "updateCommit") /\ ConnectionFree
      /\ \/ /\ UniqueName(id[c], name[c])
            /\ tags' = [tags EXCEPT ![id[c]].name = name[c],
                                    ![id[c]].changeCount = changes,
                                    ![id[c]].updated = year]
            /\ UpdateUsername(user[c], name[c])
            /\ renames' = [renames EXCEPT ![user[c]] = @ + 1]
         \/ /\ ~UniqueName(id[c], name[c])
            /\ UNCHANGED <<tags, username, renames, overlapped>>
      /\ Goto(c, "idle")
      /\ UNCHANGED <<year, request, id, row, inTx, begun,
                 overlapped>>

-----------------------------------------------------------------------------
NewYear ==
  /\ year < MaxYear
  /\ year' = year + 1
  /\ renames' = [u \in Users |-> 0]
  /\ UNCHANGED <<tags, username, pc, request, id, row, inTx, begun,
                 overlapped>>

\* The database or the process fails under the request: nothing is committed.
Abort(c) ==
  /\ ~At(c, "idle")
  /\ Goto(c, "idle") /\ ReleaseConnection(c)
  /\ UNCHANGED <<tags, username, year, request, id, row, begun, renames,
                 overlapped>>

ClaimVerxatag(c) == \/ ClaimBegin(c) \/ ClaimAvailable(c)
                    \/ ClaimActive(c) \/ ClaimCommit(c)
UpdateVerxatag(c) == \/ Find(c) \/ Available(c) \/ UpdateCommit(c)
                     \/ \E success \in BOOLEAN : Pin(c, success)
Step(c) == ClaimVerxatag(c) \/ UpdateVerxatag(c)

Next == \/ NewYear
        \/ \E c \in Calls :
             \/ \E u \in Users, n \in Names, label \in {"claimBegin", "find"} :
                  Begin(c, label, u, n)
             \/ Step(c) \/ Abort(c)

Spec == Init /\ [][Next]_vars

\* Node runs every continuation whose query was answered, and the pool hands
\* out a free connection: a step of a request that stays possible is taken.
FairSpec == Spec /\ \A c \in Calls : WF_vars(Step(c))

-----------------------------------------------------------------------------
(* Type correctness of the tables and of the requests, and the connections *)
(* held: exactly those of the claims inside their transaction.             *)
TypeOK ==
  /\ tags \in Seq(Tag)
  /\ username \in [Users -> Names \union {None}]
  /\ year \in Nat
  /\ pc \in [Calls -> Labels]
  /\ user \in [Calls -> Users \union {None}]
  /\ name \in [Calls -> Names \union {None}]
  /\ id \in [Calls -> Nat]
  /\ row \in [Calls -> Tag \union {NoTag}]
  /\ inTx = {c \in Calls :
               pc[c] \in {"claimAvailable", "claimActive", "claimCommit"}}
  /\ begun \in Nat
  /\ renames \in [Users -> Nat]
  /\ overlapped \in SUBSET Users

(* Two tags never share a name, whoever claims or renames at the same      *)
(* time: the availability check alone, made outside the transaction, does  *)
(* not give this, the UNIQUE constraint does.                              *)
NamesAreUnique ==
  \A i, j \in DOMAIN tags : tags[i].name = tags[j].name => i = j

(* users.username is null or the name of a tag the user owns, after any    *)
(* interleaving and any failure: both rows change in one transaction.      *)
UsernameIsOwnTag ==
  \A u \in Users : \/ username[u] = None /\ TagsOf(u) = {}
                   \/ \E i \in TagsOf(u) : tags[i].name = username[u]

(* "Check if user already has an active Verxatag": a user has at most one. *)
OneActiveTagPerUser == \A u \in Users : Cardinality(TagsOf(u)) <= 1

(* A user whose own requests never overlap has at most one tag and renames *)
(* it at most twice a year ("max 2 updates per year"), however others race *)
(* for the same names.                                                     *)
LimitsHoldForOrderlyUsers ==
  \A u \in Users \ overlapped : Cardinality(TagsOf(u)) <= 1 /\ renames[u] <= 2

(* Every request is answered, also when claims hold connections while they *)
(* wait for another one, as long as fewer of them run than the pool has.   *)
EveryRequestEnds == \A c \in Calls : pc[c] # "idle" ~> pc[c] = "idle"
=============================================================================
