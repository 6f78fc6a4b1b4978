--------------------------- MODULE VerxatagProofs ---------------------------
(***************************************************************************)
(* Proofs about Verxatag: its types, unique names, and usernames that are  *)
(* always a tag of their user, for any number of users, names, requests,   *)
(* connections and years.                                                  *)
(***************************************************************************)
EXTENDS Verxatag, FiniteSetTheorems, TLAPS

USE VerxatagAssumption

InClaim == {"claimAvailable", "claimActive", "claimCommit"}
InUpdate == {"available", "pin", "updateCommit"}

\* A request in flight asks for a name on behalf of a user.
RequestsAreFilled ==
  \A c \in Calls : pc[c] # "idle" => user[c] \in Users /\ name[c] \in Names

\* An update works on a tag that exists and belongs to its user: tags are never
\* deleted and never change hands.
UpdatesOwnTag ==
  \A c \in Calls : pc[c] \in InUpdate =>
    /\ id[c] \in DOMAIN tags /\ tags[id[c]].owner = user[c]
    /\ row[c] \in Tag

TagInv ==
  /\ TypeOK
  /\ RequestsAreFilled
  /\ UpdatesOwnTag
  /\ NamesAreUnique
  /\ UsernameIsOwnTag

\* With empty tables and no requests the invariant holds.
LEMMA TagInitially == Init => TagInv
<1> SUFFICES ASSUME Init PROVE TagInv
  OBVIOUS
<1> USE DEF Init
<1>1. tags \in Seq(Tag) /\ DOMAIN tags = {}
  OBVIOUS
<1>2. TypeOK
  BY <1>1 DEF TypeOK, Labels, NoTag
<1>3. RequestsAreFilled /\ UpdatesOwnTag
  BY DEF RequestsAreFilled, UpdatesOwnTag, InUpdate
<1>4. NamesAreUnique /\ UsernameIsOwnTag
  BY <1>1 DEF NamesAreUnique, UsernameIsOwnTag, TagsOf
<1> QED
  BY <1>2, <1>3, <1>4 DEF TagInv

\* Steps that leave both tables alone preserve what is said about the tables.
LEMMA TablesUnchanged ==
  ASSUME NamesAreUnique, UsernameIsOwnTag, UNCHANGED <<tags, username>>
  PROVE  NamesAreUnique' /\ UsernameIsOwnTag'
  BY DEF NamesAreUnique, UsernameIsOwnTag, TagsOf

\* The commit of a claim.
LEMMA ClaimCommitStep ==
  ASSUME TagInv, NEW c \in Calls, ClaimCommit(c)
  PROVE  TagInv'
<1> USE DEF TagInv, At, Goto
<1>1. pc[c] = "claimCommit" /\ user[c] \in Users /\ name[c] \in Names
  BY DEF ClaimCommit, RequestsAreFilled
<1>2. /\ pc' \in [Calls -> Labels]
      /\ inTx' = {d \in Calls : pc'[d] \in InClaim}
  BY DEF ClaimCommit, TypeOK, Labels, ReleaseConnection, InClaim
<1>3. RequestsAreFilled'
  BY DEF ClaimCommit, RequestsAreFilled, request, TypeOK
<1>4. CASE UNCHANGED <<tags, username>>
  <2>1. TypeOK'
    BY <1>2, <1>4 DEF ClaimCommit, TypeOK, request, InClaim
  <2>2. UpdatesOwnTag'
    BY <1>4 DEF ClaimCommit, UpdatesOwnTag, request, TypeOK, InUpdate
  <2> QED
    BY <1>3, <1>4, <2>1, <2>2, TablesUnchanged
<1>5. CASE UniqueName(0, name[c]) /\ UpdateUsername(user[c], name[c])
           /\ tags' = Append(tags, [owner |-> user[c], name |-> name[c],
                                    changeCount |-> 0, updated |-> year])
  <2> DEFINE new == [owner |-> user[c], name |-> name[c],
                     changeCount |-> 0, updated |-> year]
  <2>1. new \in Tag
    BY <1>1 DEF Tag, TypeOK
  <2>2. /\ tags' \in Seq(Tag)
        /\ DOMAIN tags' = DOMAIN tags \union {Len(tags) + 1}
        /\ \A i \in DOMAIN tags : tags'[i] = tags[i]
        /\ tags'[Len(tags) + 1] = new
        /\ DOMAIN tags \subseteq Nat \ {0}
    BY <1>5, <2>1 DEF TypeOK
  <2>3. username' = [username EXCEPT ![user[c]] = name[c]]
    BY <1>5 DEF UpdateUsername
  <2>4. TypeOK'
    BY <1>1, <1>2, <2>2, <2>3 DEF ClaimCommit, TypeOK, request, InClaim
  <2>5. UpdatesOwnTag'
    BY <2>2 DEF ClaimCommit, UpdatesOwnTag, request, TypeOK, InUpdate
  <2>6. \A j \in DOMAIN tags : tags[j].name # name[c]
    BY <1>5, <2>2 DEF UniqueName
  <2>7. NamesAreUnique'
    BY <2>2, <2>6 DEF NamesAreUnique
  <2>8. ASSUME NEW u \in Users
        PROVE  (\/ username[u] = None /\ TagsOf(u) = {}
                \/ \E i \in TagsOf(u) : tags[i].name = username[u])'
    <3>1. CASE u = user[c]
      <4>1. username'[u] = name[c]
        BY <2>3, <3>1 DEF TypeOK
      <4>2. Len(tags) + 1 \in TagsOf(u)' /\ tags'[Len(tags) + 1].name = name[c]
        BY <2>2, <3>1 DEF TagsOf
      <4> QED
        BY <4>1, <4>2
    <3>2. CASE u # user[c]
      <4>1. username'[u] = username[u]
        BY <2>3, <3>2 DEF TypeOK
      <4>2. tags'[Len(tags) + 1].owner # u
        BY <2>2, <3>2
      <4>3. TagsOf(u)' = TagsOf(u)
        BY <2>2, <4>2 DEF TagsOf
      <4>4. \A i \in TagsOf(u) : tags'[i] = tags[i]
        BY <2>2 DEF TagsOf
      <4> QED
        BY <4>1, <4>3, <4>4 DEF UsernameIsOwnTag
    <3> QED
      BY <3>1, <3>2
  <2>9. UsernameIsOwnTag'
    BY <2>8 DEF UsernameIsOwnTag
  <2> QED
    BY <1>3, <2>4, <2>5, <2>7, <2>9
<1> QED
  BY <1>4, <1>5 DEF ClaimCommit

\* The commit of an update.
LEMMA UpdateCommitStep ==
  ASSUME TagInv, NEW c \in Calls, UpdateCommit(c)
  PROVE  TagInv'
<1> USE DEF TagInv, At, Goto
<1>1. /\ pc[c] = "updateCommit" /\ user[c] \in Users /\ name[c] \in Names
      /\ id[c] \in DOMAIN tags /\ tags[id[c]].owner = user[c]
      /\ row[c].changeCount \in Nat
  BY DEF UpdateCommit, RequestsAreFilled, UpdatesOwnTag, InUpdate, Tag
<1>2. /\ pc' \in [Calls -> Labels]
      /\ inTx' = {d \in Calls : pc'[d] \in InClaim}
  BY DEF UpdateCommit, TypeOK, Labels, InClaim
<1>3. RequestsAreFilled'
  BY DEF UpdateCommit, RequestsAreFilled, request, TypeOK
<1>4. CASE UNCHANGED <<tags, username, renames>>
  <2>1. TypeOK'
    BY <1>2, <1>4 DEF UpdateCommit, TypeOK, request, InClaim
  <2>2. UpdatesOwnTag'
    BY <1>4 DEF UpdateCommit, UpdatesOwnTag, request, TypeOK, InUpdate
  <2> QED
    BY <1>3, <1>4, <2>1, <2>2, TablesUnchanged
<1>5. CASE ~UNCHANGED <<tags, username, renames>>
  <2> DEFINE changes == IF row[c].updated = year
                        THEN row[c].changeCount + 1 ELSE 1
  <2>1. /\ UniqueName(id[c], name[c])
        /\ tags' = [tags EXCEPT ![id[c]].name = name[c],
                                ![id[c]].changeCount = changes,
                                ![id[c]].updated = year]
        /\ username' = [username EXCEPT ![user[c]] = name[c]]
        /\ renames' = [renames EXCEPT ![user[c]] = @ + 1]
    BY <1>5 DEF UpdateCommit, UpdateUsername
  <2>2. changes \in Nat
    BY <1>1
  <2> HIDE DEF changes
  <2>3. /\ tags' \in Seq(Tag)
        /\ DOMAIN tags' = DOMAIN tags
        /\ \A i \in DOMAIN tags : /\ tags'[i].owner = tags[i].owner
                                  /\ i # id[c] => tags'[i] = tags[i]
        /\ tags'[id[c]].name = name[c]
    <3> DEFINE old == tags[id[c]]
               new == [[[old EXCEPT !.name = name[c]]
                             EXCEPT !.changeCount = changes]
                             EXCEPT !.updated = year]
    <3>1. tags \in Seq(Tag) /\ year \in Nat
      BY DEF TypeOK
    <3>2. old \in Tag
      BY <1>1, <3>1
    <3>3. new \in Tag /\ new.owner = old.owner /\ new.name = name[c]
      <4>1. PICK t \in Tag : t = old
        BY <3>2
      <4>2. PICK n \in Names : n = name[c]
        BY <1>1
      <4>3. PICK k \in Nat : k = changes
        BY <2>2
      <4>4. PICK y \in Nat : y = year
        BY <3>1
      <4>5. new = [[[t EXCEPT !.name = n] EXCEPT !.changeCount = k]
                       EXCEPT !.updated = y]
        BY <4>1, <4>2, <4>3, <4>4
      <4> HIDE DEF new, old
      <4>6. new \in Tag /\ new.owner = t.owner /\ new.name = n
        BY <4>5 DEF Tag
      <4> QED
        BY <4>1, <4>2, <4>6
    <3>4. tags' = [tags EXCEPT ![id[c]] = new]
      BY <2>1
    <3> HIDE DEF new, old
    <3>5. tags' \in Seq(Tag) /\ DOMAIN tags' = DOMAIN tags
      BY <1>1, <3>1, <3>3, <3>4
    <3>6. tags'[id[c]] = new /\ \A i \in DOMAIN tags : i # id[c] => tags'[i] = tags[i]
      BY <1>1, <3>1, <3>4
    <3> QED
      BY <3>3, <3>5, <3>6 DEF old
  <2>4. TypeOK'
    BY <1>1, <1>2, <2>1, <2>3 DEF UpdateCommit, TypeOK, request, InClaim
  <2>5. UpdatesOwnTag'
    BY <2>3 DEF UpdateCommit, UpdatesOwnTag, request, TypeOK, InUpdate
  <2>6. \A j \in DOMAIN tags : j # id[c] => tags[j].name # name[c]
    BY <2>1 DEF UniqueName
  <2>7. NamesAreUnique'
    BY <1>1, <2>3, <2>6 DEF NamesAreUnique
  <2>8. ASSUME NEW u \in Users
        PROVE  (\/ username[u] = None /\ TagsOf(u) = {}
                \/ \E i \in TagsOf(u) : tags[i].name = username[u])'
    <3>1. CASE u = user[c]
      <4>1. username'[u] = name[c]
        BY <1>1, <2>1, <3>1 DEF TypeOK
      <4>2. id[c] \in TagsOf(u)'
        BY <1>1, <2>3, <3>1 DEF TagsOf
      <4> QED
        BY <2>3, <4>1, <4>2
    <3>2. CASE u # user[c]
      <4>1. username'[u] = username[u]
        BY <2>1, <3>2 DEF TypeOK
      <4>2. TagsOf(u)' = TagsOf(u) /\ id[c] \notin TagsOf(u)
        BY <1>1, <2>3, <3>2 DEF TagsOf
      <4>3. \A i \in TagsOf(u) : tags'[i] = tags[i]
        BY <2>3, <4>2 DEF TagsOf
      <4> QED
        BY <4>1, <4>2, <4>3 DEF UsernameIsOwnTag
    <3> QED
      BY <3>1, <3>2
  <2>9. UsernameIsOwnTag'
    BY <2>8 DEF UsernameIsOwnTag
  <2> QED
    BY <1>3, <2>4, <2>5, <2>7, <2>9
<1> QED
  BY <1>4, <1>5

\* Every other step leaves the tables alone and moves one request.
LEMMA TagStep == TagInv /\ [Next]_vars => TagInv'
<1> SUFFICES ASSUME TagInv, [Next]_vars PROVE TagInv'
  OBVIOUS
<1> USE DEF TagInv, At, Goto, request
<1>1. ASSUME NEW c \in Calls, NEW u \in Users, NEW n \in Names,
             NEW label \in {"claimBegin", "find"}, Begin(c, label, u, n)
      PROVE TagInv'
  <2>1. TypeOK'
    BY <1>1 DEF Begin, TypeOK, Labels
  <2>2. RequestsAreFilled' /\ UpdatesOwnTag'
    BY <1>1 DEF Begin, TypeOK, RequestsAreFilled, UpdatesOwnTag, InUpdate
  <2>3. UNCHANGED <<tags, username>>
    BY <1>1 DEF Begin
  <2> QED
    BY <2>1, <2>2, <2>3, TablesUnchanged
<1>2. ASSUME NEW c \in Calls, ClaimBegin(c) PROVE TagInv'
  <2>1. TypeOK'
    BY <1>2 DEF ClaimBegin, TypeOK, Labels
  <2>2. RequestsAreFilled' /\ UpdatesOwnTag'
    BY <1>2 DEF ClaimBegin, TypeOK, RequestsAreFilled, UpdatesOwnTag, InUpdate
  <2>3. UNCHANGED <<tags, username>>
    BY <1>2 DEF ClaimBegin
  <2> QED
    BY <2>1, <2>2, <2>3, TablesUnchanged
<1>3. ASSUME NEW c \in Calls, ClaimAvailable(c) PROVE TagInv'
  <2>1. TypeOK'
    BY <1>3 DEF ClaimAvailable, ReleaseConnection, TypeOK, Labels
  <2>2. RequestsAreFilled' /\ UpdatesOwnTag'
    BY <1>3 DEF ClaimAvailable, TypeOK, RequestsAreFilled, UpdatesOwnTag, InUpdate
  <2>3. UNCHANGED <<tags, username>>
    BY <1>3 DEF ClaimAvailable
  <2> QED
    BY <2>1, <2>2, <2>3, TablesUnchanged
<1>4. ASSUME NEW c \in Calls, ClaimActive(c) PROVE TagInv'
  <2>1. TypeOK'
    BY <1>4 DEF ClaimActive, ReleaseConnection, TypeOK, Labels
  <2>2. RequestsAreFilled' /\ UpdatesOwnTag'
    BY <1>4 DEF ClaimActive, TypeOK, RequestsAreFilled, UpdatesOwnTag, InUpdate
  <2>3. UNCHANGED <<tags, username>>
    BY <1>4 DEF ClaimActive
  <2> QED
    BY <2>1, <2>2, <2>3, TablesUnchanged
<1>5. ASSUME NEW c \in Calls, Find(c) PROVE TagInv'
  <2>0. \A i \in TagsOf(user[c]) : /\ i \in DOMAIN tags /\ i \in Nat
                                   /\ tags[i] \in Tag
                                   /\ tags[i].owner = user[c]
    BY DEF TagsOf, TypeOK
  <2>1. TypeOK'
    BY <1>5, <2>0 DEF Find, TypeOK, Labels
  <2>2. RequestsAreFilled'
    BY <1>5 DEF Find, TypeOK, RequestsAreFilled
  <2>3. UpdatesOwnTag'
    BY <1>5, <2>0 DEF Find, TypeOK, UpdatesOwnTag, InUpdate
  <2>4. UNCHANGED <<tags, username>>
    BY <1>5 DEF Find
  <2> QED
    BY <2>1, <2>2, <2>3, <2>4, TablesUnchanged
<1>6. ASSUME NEW c \in Calls, Available(c) PROVE TagInv'
  <2>1. TypeOK'
    BY <1>6 DEF Available, TypeOK, Labels
  <2>2. RequestsAreFilled' /\ UpdatesOwnTag'
    BY <1>6 DEF Available, TypeOK, RequestsAreFilled, UpdatesOwnTag, InUpdate
  <2>3. UNCHANGED <<tags, username>>
    BY <1>6 DEF Available
  <2> QED
    BY <2>1, <2>2, <2>3, TablesUnchanged
<1>7. ASSUME NEW c \in Calls, NEW success \in BOOLEAN, Pin(c, success) PROVE TagInv'
  <2>1. TypeOK'
    BY <1>7 DEF Pin, TypeOK, Labels
  <2>2. RequestsAreFilled' /\ UpdatesOwnTag'
    BY <1>7 DEF Pin, TypeOK, RequestsAreFilled, UpdatesOwnTag, InUpdate
  <2>3. UNCHANGED <<tags, username>>
    BY <1>7 DEF Pin
  <2> QED
    BY <2>1, <2>2, <2>3, TablesUnchanged
<1>8. ASSUME NEW c \in Calls, Abort(c) PROVE TagInv'
  <2>1. TypeOK'
    BY <1>8 DEF Abort, ReleaseConnection, TypeOK, Labels
  <2>2. RequestsAreFilled' /\ UpdatesOwnTag'
    BY <1>8 DEF Abort, TypeOK, RequestsAreFilled, UpdatesOwnTag, InUpdate
  <2>3. UNCHANGED <<tags, username>>
    BY <1>8 DEF Abort
  <2> QED
    BY <2>1, <2>2, <2>3, TablesUnchanged
<1>9. CASE NewYear
  <2>1. TypeOK' /\ RequestsAreFilled' /\ UpdatesOwnTag'
    BY <1>9 DEF NewYear, TypeOK, RequestsAreFilled, UpdatesOwnTag
  <2>2. UNCHANGED <<tags, username>>
    BY <1>9 DEF NewYear
  <2> QED
    BY <2>1, <2>2, TablesUnchanged
<1>10. CASE UNCHANGED vars
  <2>1. TypeOK' /\ RequestsAreFilled' /\ UpdatesOwnTag'
    BY <1>10 DEF vars, TypeOK, RequestsAreFilled, UpdatesOwnTag
  <2>2. UNCHANGED <<tags, username>>
    BY <1>10 DEF vars
  <2> QED
    BY <2>1, <2>2, TablesUnchanged
<1> QED
  BY <1>1, <1>2, <1>3, <1>4, <1>5, <1>6, <1>7, <1>8, <1>9, <1>10,
     ClaimCommitStep, UpdateCommitStep
  DEF Next, Step, ClaimVerxatag, UpdateVerxatag

\* The inductive invariant holds throughout every behaviour.
LEMMA TagInvHolds == Spec => []TagInv
  BY TagInitially, TagStep, PTL DEF Spec

\* Tables, requests and the pool are always well formed: the connections held
\* are exactly those of the claims inside their transaction.
THEOREM TypeCorrect == Spec => []TypeOK
<1>1. TagInv => TypeOK
  BY DEF TagInv
<1> QED
  BY TagInvHolds, <1>1, PTL

\* No two tags ever share a name, however many claims and renames race.
THEOREM NamesStayUnique == Spec => []NamesAreUnique
<1>1. TagInv => NamesAreUnique
  BY DEF TagInv
<1> QED
  BY TagInvHolds, <1>1, PTL

\* A user's username is always the name of one of that user's tags, or null
\* while there is none.
THEOREM UsernameStaysOwnTag == Spec => []UsernameIsOwnTag
<1>1. TagInv => UsernameIsOwnTag
  BY DEF TagInv
<1> QED
  BY TagInvHolds, <1>1, PTL

-----------------------------------------------------------------------------
(* The limits of a user whose own requests never overlap.  What such a     *)
(* user's request read of the tables is still so when it commits.          *)

\* One request of u at a time.
OneRequest(u) ==
  \A c, d \in Calls :
    pc[c] # "idle" /\ pc[d] # "idle" /\ user[c] = u /\ user[d] = u => c = d

\* One tag, and none while a claim is about to commit.
OneTag(u) ==
  /\ \A i, j \in TagsOf(u) : i = j
  /\ \A c \in Calls : pc[c] = "claimCommit" /\ user[c] = u => TagsOf(u) = {}

\* An update holds the row as it is in the table, and the row allowed it.
RowIsCurrent(u) ==
  \A c \in Calls : pc[c] \in InUpdate /\ user[c] = u =>
    row[c] = tags[id[c]] /\ ~LimitReached(row[c])

\* The tag's change count is the number of this year's renames or more.
RenamesAreCounted(u) ==
  /\ TagsOf(u) = {} => renames[u] = 0
  /\ \A i \in TagsOf(u) :
       /\ tags[i].updated <= year /\ tags[i].changeCount <= 2
       /\ renames[u] <= IF tags[i].updated = year THEN tags[i].changeCount ELSE 0

Orderly(u) == OneRequest(u) /\ OneTag(u) /\ RowIsCurrent(u) /\ RenamesAreCounted(u)

OrderlyInv == \A u \in Users \ overlapped : Orderly(u)

\* A request that goes on, ends or stands still makes no second one.
LEMMA OneRequestKept ==
  ASSUME NEW u, OneRequest(u),
         \A d \in Calls : pc'[d] # "idle" => pc[d] # "idle" /\ user'[d] = user[d]
  PROVE  OneRequest(u)'
  BY DEF OneRequest

\* Steps that leave the table, the year and the history alone.
LEMMA QuietStep ==
  ASSUME NEW u, Orderly(u), UNCHANGED <<tags, year, renames>>, OneRequest(u)',
         \A d \in Calls : pc'[d] = "claimCommit" /\ user'[d] = u => TagsOf(u) = {},
         \A d \in Calls : pc'[d] \in InUpdate /\ user'[d] = u =>
           row'[d] = tags[id'[d]] /\ ~LimitReached(row'[d])
  PROVE  Orderly(u)'
  BY DEF Orderly, OneTag, RowIsCurrent, RenamesAreCounted, TagsOf, LimitReached

\* With no tags and no requests every user is orderly.
LEMMA OrderlyInitially == Init => OrderlyInv
<1> SUFFICES ASSUME Init, NEW u \in Users PROVE Orderly(u)
  BY DEF OrderlyInv
<1>1. tags = << >> /\ TagsOf(u) = {} /\ renames[u] = 0
  BY DEF Init, TagsOf
<1>2. \A c \in Calls : pc[c] = "idle"
  BY DEF Init
<1> QED
  BY <1>1, <1>2 DEF Orderly, OneRequest, OneTag, RowIsCurrent, RenamesAreCounted, InUpdate

\* The commit of a claim gives its user the first tag, and no one else any.
LEMMA ClaimCommitIsOrderly ==
  ASSUME TagInv, NEW c \in Calls, ClaimCommit(c),
         NEW u \in Users, Orderly(u)
  PROVE  Orderly(u)'
<1> USE DEF At, Goto
<1>1. /\ pc[c] = "claimCommit" /\ pc' = [pc EXCEPT ![c] = "idle"]
      /\ pc \in [Calls -> Labels] /\ tags \in Seq(Tag)
      /\ renames \in [Users -> Nat] /\ year \in Nat
      /\ UNCHANGED <<year, user, id, row, renames>>
  BY DEF ClaimCommit, TagInv, TypeOK, request
<1>2. OneRequest(u)'
  BY <1>1, OneRequestKept DEF Orderly
<1>3. CASE UNCHANGED tags
  <2>1. \A d \in Calls : pc'[d] \in InUpdate => pc'[d] = pc[d]
    BY <1>1 DEF InUpdate
  <2>2. \A d \in Calls : pc'[d] = "claimCommit" => pc'[d] = pc[d]
    BY <1>1
  <2> QED
    BY <1>1, <1>2, <1>3, <2>1, <2>2, QuietStep DEF Orderly, OneTag, RowIsCurrent
<1>4. CASE tags' = Append(tags, [owner |-> user[c], name |-> name[c],
                                 changeCount |-> 0, updated |-> year])
  <2> DEFINE n == Len(tags) + 1
  <2>1. /\ DOMAIN tags' = DOMAIN tags \union {n} /\ n \notin DOMAIN tags
        /\ \A i \in DOMAIN tags : tags'[i] = tags[i]
        /\ tags'[n].owner = user[c] /\ tags'[n].changeCount = 0 /\ tags'[n].updated = year
    BY <1>1, <1>4
  <2>2. \A d \in Calls : pc'[d] \in InUpdate => pc'[d] = pc[d] /\ id[d] \in DOMAIN tags
    BY <1>1 DEF InUpdate, TagInv, UpdatesOwnTag
  <2> HIDE DEF n
  <2>3. RowIsCurrent(u)'
    BY <1>1, <2>1, <2>2 DEF Orderly, RowIsCurrent, LimitReached
  <2>4. CASE user[c] = u
    <3>1. TagsOf(u) = {} /\ renames[u] = 0
      BY <1>1, <2>4 DEF Orderly, OneTag, RenamesAreCounted
    <3>2. TagsOf(u)' = {n}
      BY <2>1, <2>4, <3>1 DEF TagsOf
    <3>3. \A d \in Calls : ~(pc'[d] = "claimCommit" /\ user'[d] = u)
      BY <1>1, <2>4 DEF Orderly, OneRequest
    <3>4. RenamesAreCounted(u)'
      BY <1>1, <2>1, <3>1, <3>2 DEF RenamesAreCounted
    <3> QED
      BY <1>2, <2>3, <3>2, <3>3, <3>4 DEF Orderly, OneTag
  <2>5. CASE user[c] # u
    <3>1. TagsOf(u)' = TagsOf(u) /\ \A i \in TagsOf(u) : tags'[i] = tags[i]
      BY <2>1, <2>5 DEF TagsOf
    <3>2. \A d \in Calls : pc'[d] = "claimCommit" => pc'[d] = pc[d]
      BY <1>1
    <3> QED
      BY <1>1, <1>2, <2>3, <3>1, <3>2 DEF Orderly, OneTag, RenamesAreCounted
  <2> QED
    BY <2>4, <2>5
<1> QED
  BY <1>3, <1>4 DEF ClaimCommit

\* The commit of an update counts one rename more, on the count the table holds.
LEMMA UpdateCommitIsOrderly ==
  ASSUME TagInv, NEW c \in Calls, UpdateCommit(c),
         NEW u \in Users, Orderly(u)
  PROVE  Orderly(u)'
<1> USE DEF At, Goto
<1>1. /\ pc[c] = "updateCommit" /\ pc' = [pc EXCEPT ![c] = "idle"]
      /\ pc \in [Calls -> Labels] /\ tags \in Seq(Tag) /\ user[c] \in Users
      /\ renames \in [Users -> Nat] /\ year \in Nat
      /\ UNCHANGED <<year, user, id, row>>
      /\ id[c] \in DOMAIN tags /\ tags[id[c]].owner = user[c]
  BY DEF UpdateCommit, TagInv, TypeOK, request, RequestsAreFilled, UpdatesOwnTag, InUpdate
<1>2. OneRequest(u)'
  BY <1>1, OneRequestKept DEF Orderly
<1>3. /\ \A d \in Calls : pc'[d] \in InUpdate => pc'[d] = pc[d] /\ d # c
      /\ \A d \in Calls : pc'[d] = "claimCommit" => pc'[d] = pc[d]
  BY <1>1 DEF InUpdate
<1>4. CASE UNCHANGED <<tags, renames>>
  BY <1>1, <1>2, <1>3, <1>4, QuietStep DEF Orderly, OneTag, RowIsCurrent
<1>5. CASE ~UNCHANGED <<tags, username, renames>>
  <2> DEFINE changes == IF row[c].updated = year THEN row[c].changeCount + 1 ELSE 1
             k == id[c]
             old == tags[k]
             new == [[[old EXCEPT !.name = name[c]]
                           EXCEPT !.changeCount = changes]
                           EXCEPT !.updated = year]
  <2>1. /\ tags' = [tags EXCEPT ![k] = new]
        /\ renames' = [renames EXCEPT ![user[c]] = @ + 1]
    BY <1>5 DEF UpdateCommit
  <2>2. old \in Tag
    BY <1>1
  <2>3. PICK t \in Tag : t = old
    BY <2>2
  <2>4. new = [[[t EXCEPT !.name = name[c]] EXCEPT !.changeCount = changes]
                   EXCEPT !.updated = year]
    BY <2>3
  <2> HIDE DEF changes, new, old
  <2>5. new.owner = t.owner /\ new.changeCount = changes /\ new.updated = year
    BY <2>4 DEF Tag
  <2> HIDE DEF k
  <2>6. /\ DOMAIN tags' = DOMAIN tags /\ tags'[k] = new
        /\ k \in DOMAIN tags /\ k = id[c] /\ tags[k] = t /\ t.owner = user[c]
        /\ \A i \in DOMAIN tags : i # k => tags'[i] = tags[i]
    BY <1>1, <2>1, <2>3 DEF k, old
  <2>7. TagsOf(u)' = TagsOf(u)
    BY <2>5, <2>6 DEF TagsOf
  <2>8. OneTag(u)'
    BY <1>1, <1>3, <2>7 DEF Orderly, OneTag
  <2>9. CASE user[c] = u
    <3>1. TagsOf(u) = {k}
      BY <2>6, <2>9 DEF Orderly, OneTag, TagsOf
    <3>2. RowIsCurrent(u)'
      BY <1>1, <1>3, <2>9 DEF Orderly, OneRequest, RowIsCurrent, InUpdate
    <3>3. row[c] = t /\ ~LimitReached(t)
      BY <1>1, <2>6, <2>9 DEF Orderly, RowIsCurrent, InUpdate
    <3>4. t.changeCount \in Nat /\ t.updated \in Nat /\ renames[u] \in Nat
      BY <1>1 DEF Tag
    <3>5. /\ t.changeCount <= 2
          /\ renames[u] <= IF t.updated = year THEN t.changeCount ELSE 0
      BY <2>6, <3>1 DEF Orderly, RenamesAreCounted
    <3>6. renames'[u] = renames[u] + 1
      BY <1>1, <2>1, <2>9
    <3>7. changes <= 2 /\ renames[u] + 1 <= changes
      BY <3>3, <3>4, <3>5 DEF changes, LimitReached
    <3>8. RenamesAreCounted(u)'
      <4>1. tags'[k].updated = year' /\ tags'[k].changeCount = changes
        BY <1>1, <2>5, <2>6
      <4>2. tags'[k].updated <= year' /\ tags'[k].changeCount <= 2 /\ renames'[u] <= changes
        BY <1>1, <3>6, <3>7, <4>1
      <4> QED
        BY <2>7, <3>1, <4>1, <4>2 DEF RenamesAreCounted
    <3> QED
      BY <1>2, <2>8, <3>2, <3>8 DEF Orderly
  <2>10. CASE user[c] # u
    <3>1. k \notin TagsOf(u)
      BY <2>6, <2>10 DEF TagsOf
    <3>2. \A i \in TagsOf(u) : tags'[i] = tags[i]
      BY <2>6, <3>1 DEF TagsOf
    <3>3. renames'[u] = renames[u]
      BY <1>1, <2>1, <2>10
    <3>4. \A d \in Calls : pc[d] \in InUpdate /\ user[d] = u => id[d] \in TagsOf(u)
      BY DEF TagInv, UpdatesOwnTag, TagsOf
    <3>5. RowIsCurrent(u)'
      BY <1>1, <1>3, <3>2, <3>4 DEF Orderly, RowIsCurrent, LimitReached
    <3>6. RenamesAreCounted(u)'
      BY <1>1, <2>7, <3>2, <3>3 DEF Orderly, RenamesAreCounted
    <3> QED
      BY <1>2, <2>8, <3>5, <3>6 DEF Orderly
  <2> QED
    BY <2>9, <2>10
<1> QED
  BY <1>4, <1>5 DEF UpdateCommit

\* A step of one request before its commit, or of none.
LEMMA OrderlyStep == TagInv /\ OrderlyInv /\ [Next]_vars => OrderlyInv'
<1> SUFFICES ASSUME TagInv, OrderlyInv, [Next]_vars, NEW u \in Users \ overlapped'
             PROVE  Orderly(u)'
  BY DEF OrderlyInv
<1> USE DEF At, Goto, request
<1>1. overlapped \subseteq overlapped'
  BY DEF Next, vars, Begin, NewYear, Abort, Step, ClaimVerxatag, UpdateVerxatag,
         ClaimBegin, ClaimAvailable, ClaimActive, ClaimCommit, Find, Available,
         UpdateCommit, Pin
<1>2. u \in Users /\ Orderly(u)
  BY <1>1 DEF OrderlyInv
<1>3. /\ OneRequest(u) /\ OneTag(u) /\ RowIsCurrent(u)
      /\ pc \in [Calls -> Labels] /\ user \in [Calls -> Users \union {None}]
  BY <1>2 DEF Orderly, TagInv, TypeOK
<1>4. ASSUME NEW c \in Calls, NEW v \in Users, NEW n \in Names,
             NEW label \in {"claimBegin", "find"}, Begin(c, label, v, n)
      PROVE  Orderly(u)'
  <2>1. /\ \A d \in Calls : d # c => pc'[d] = pc[d] /\ user'[d] = user[d]
        /\ pc'[c] = label /\ user'[c] = v
        /\ UNCHANGED <<tags, year, renames, id, row>>
    BY <1>3, <1>4 DEF Begin
  <2>2. v = u => \A d \in Calls : pc[d] # "idle" => user[d] # u
    BY <1>4 DEF Begin
  <2>3. OneRequest(u)'
    BY <1>3, <2>1, <2>2 DEF OneRequest
  <2> QED
    BY <1>2, <1>3, <2>1, <2>3, QuietStep DEF OneTag, RowIsCurrent, InUpdate
<1>5. ASSUME NEW c \in Calls,
             ClaimBegin(c) \/ ClaimAvailable(c) \/ ClaimActive(c) \/ Available(c)
               \/ (\E success \in BOOLEAN : Pin(c, success)) \/ Abort(c)
      PROVE  Orderly(u)'
  <2>1. /\ \A d \in Calls : d # c => pc'[d] = pc[d]
        /\ pc[c] # "idle"
        /\ UNCHANGED <<tags, year, renames, id, row, user>>
    BY <1>3, <1>5 DEF ClaimBegin, ClaimAvailable, ClaimActive, Available, Pin, Abort
  <2>2. OneRequest(u)'
    BY <1>3, <2>1, OneRequestKept
  <2>3. pc'[c] \in InUpdate => pc[c] \in InUpdate
    BY <1>3, <1>5 DEF ClaimBegin, ClaimAvailable, ClaimActive, Available, Pin, Abort, InUpdate
  <2>4. pc'[c] = "claimCommit" => HasNoTag(user[c])
    BY <1>3, <1>5 DEF ClaimBegin, ClaimAvailable, ClaimActive, Available, Pin, Abort
  <2> QED
    BY <1>2, <1>3, <2>1, <2>2, <2>3, <2>4, QuietStep DEF OneTag, RowIsCurrent, HasNoTag
<1>6. ASSUME NEW c \in Calls, Find(c) PROVE Orderly(u)'
  <2>1. /\ \A d \in Calls : d # c => pc'[d] = pc[d] /\ id'[d] = id[d] /\ row'[d] = row[d]
        /\ pc[c] = "find" /\ pc'[c] # "claimCommit"
        /\ UNCHANGED <<tags, year, renames, user>>
    BY <1>3, <1>6 DEF Find, TagInv, TypeOK
  <2>2. OneRequest(u)'
    BY <1>3, <2>1, OneRequestKept
  <2>3. pc'[c] \in InUpdate => row'[c] = tags[id'[c]] /\ ~LimitReached(row'[c])
    BY <1>3, <1>6 DEF Find, TagInv, TypeOK, InUpdate, LimitReached
  <2> QED
    BY <1>2, <1>3, <2>1, <2>2, <2>3, QuietStep DEF OneTag, RowIsCurrent
<1>7. CASE NewYear
  <2>1. /\ UNCHANGED <<tags, pc, user, id, row>>
        /\ year \in Nat /\ year' = year + 1 /\ renames'[u] = 0
        /\ tags \in Seq(Tag)
    BY <1>2, <1>7 DEF NewYear, TagInv, TypeOK
  <2>2. OneRequest(u)' /\ OneTag(u)'
    BY <1>3, <2>1 DEF OneRequest, OneTag, TagsOf
  <2>3. \A i \in TagsOf(u) : /\ tags[i].updated \in Nat /\ tags[i].changeCount \in Nat
                             /\ tags[i].updated <= year /\ tags[i].changeCount <= 2
    <3>1. \A i \in TagsOf(u) : tags[i] \in Tag
      BY <2>1 DEF TagsOf
    <3> QED
      BY <1>2, <3>1 DEF Orderly, RenamesAreCounted, Tag
  <2>4. RenamesAreCounted(u)'
    BY <2>1, <2>3 DEF RenamesAreCounted, TagsOf
  <2>5. \A d \in Calls : pc[d] \in InUpdate /\ user[d] = u => id[d] \in TagsOf(u)
    BY DEF TagInv, UpdatesOwnTag, TagsOf
  <2>6. RowIsCurrent(u)'
    BY <1>3, <2>1, <2>3, <2>5 DEF RowIsCurrent, LimitReached
  <2> QED
    BY <2>2, <2>4, <2>6 DEF Orderly
<1>8. CASE UNCHANGED vars
  BY <1>2, <1>8 DEF vars, Orderly, OneRequest, OneTag, RowIsCurrent, RenamesAreCounted,
                    TagsOf, LimitReached
<1> QED
  BY <1>2, <1>4, <1>5, <1>6, <1>7, <1>8, ClaimCommitIsOrderly, UpdateCommitIsOrderly
  DEF Next, Step, ClaimVerxatag, UpdateVerxatag

\* A user whose own requests never overlap has one tag at most and renames it
\* twice a year at most, whatever the others do: claimVerxatag checks for a tag
\* and updateVerxatag for the limit long before they commit, and only requests of
\* the same user can make these checks out of date.
THEOREM OrderlyUsersKeepLimits == Spec => []LimitsHoldForOrderlyUsers
<1>1. TagInv /\ OrderlyInv => LimitsHoldForOrderlyUsers
  <2> SUFFICES ASSUME TagInv, OrderlyInv, NEW u \in Users \ overlapped
               PROVE  Cardinality(TagsOf(u)) <= 1 /\ renames[u] <= 2
    BY DEF LimitsHoldForOrderlyUsers
  <2>1. Orderly(u)
    BY DEF OrderlyInv
  <2>2. /\ year \in Nat /\ renames[u] \in Nat
        /\ \A i \in TagsOf(u) : tags[i].changeCount \in Nat
    <3>1. \A i \in TagsOf(u) : tags[i] \in Tag
      BY DEF TagInv, TypeOK, TagsOf
    <3> QED
      BY <3>1 DEF TagInv, TypeOK, Tag
  <2>3. CASE TagsOf(u) = {}
    BY <2>1, <2>3, FS_EmptySet DEF Orderly, RenamesAreCounted
  <2>4. CASE TagsOf(u) # {}
    <3>1. PICK i \in TagsOf(u) : TRUE
      BY <2>4
    <3>2. TagsOf(u) = {i}
      BY <2>1, <3>1 DEF Orderly, OneTag
    <3>3. Cardinality(TagsOf(u)) = 1
      BY <3>2, FS_Singleton
    <3> QED
      BY <2>1, <2>2, <3>1, <3>3 DEF Orderly, RenamesAreCounted
  <2> QED
    BY <2>3, <2>4
<1> QED
  BY OrderlyInitially, OrderlyStep, TagInvHolds, <1>1, PTL DEF Spec
=============================================================================
