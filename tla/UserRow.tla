------------------------------ MODULE UserRow ------------------------------
(***************************************************************************)
(* The row of one user under the transactions of src/src/repository/user.ts*)
(* that take its lock (the avatar history) and the single statements that  *)
(* run around them: updateAvatar, which writes the same columns and checks *)
(* nothing, deletion on request and the archive job.  Nothing in the       *)
(* repository calls updateAvatar: what it is given is any of Overwrites.   *)
(***************************************************************************)
EXTENDS Naturals, Sequences, SequencesExt

CONSTANTS Changes,           \* avatar transactions in flight together
          MAX_HISTORY_SIZE,
          MaxUploads,        \* bound: avatars ever uploaded
          Overwrites         \* what updateAvatar is called with

NoOne == "no one"

ASSUME HistoryAssumption ==
  /\ MAX_HISTORY_SIZE \in Nat \ {0} /\ MaxUploads \in Nat
  /\ NoOne \notin Changes
  /\ Overwrites \subseteq [avatar : Nat, current : Nat, history : Seq(Nat)]

VARIABLES
  avatar,      \* the column: an upload, 0 for the one given at sign-up
  current,     \* avatarHistory.current, 0 for null
  history,     \* avatarHistory.history, oldest first
  lockedBy,    \* the transaction that holds the row, if any
  change,      \* transaction -> [at, upload, read]
  uploads,     \* uploads so far (bound)
  stored,      \* history: what the last updateAvatar wrote, then the uploads whose
               \* transaction committed, in order
  given,       \* history: how many avatars the last updateAvatar wrote
  overwritten, \* history: the avatar is the one the last updateAvatar wrote
  deletion,    \* "none", "pending" (its 20 days run) or "due"
  isArchived

rowVars ==
  <<avatar, current, history, lockedBy, change, uploads, stored, given, overwritten,
    deletion, isArchived>>
avatarVars == <<avatar, current, history, stored, given, overwritten>>
deletionVars == <<deletion, isArchived>>

NoChange == [at |-> "idle", upload |-> 0, read |-> << >>]

RowInit ==
  /\ avatar = 0 /\ current = 0 /\ history = << >>
  /\ lockedBy = NoOne
  /\ change = [c \in Changes |-> NoChange]
  /\ uploads = 0 /\ stored = << >> /\ given = 0 /\ overwritten = FALSE
  /\ deletion = "none" /\ isArchived = FALSE

ChangeAt(c, label) == change[c].at = label
ChangeEnds(c) == change' = [change EXCEPT ![c] = NoChange]

\* SELECT ... FOR UPDATE waits for the row; before it, the SELECT alone.
AnyTime(c) == TRUE
RowIsFree(c) == lockedBy = NoOne

\* The transaction's first statement: the row is locked and its history read.
Lock(c, label, upload) ==
  /\ ChangeAt(c, "idle") /\ RowIsFree(c)
  /\ lockedBy' = c
  /\ change' = [change EXCEPT ![c] = [at |-> label, upload |-> upload, read |-> history]]
  /\ UNCHANGED <<avatarVars, deletionVars>>

addAvatarToHistory(c) ==
  /\ uploads < MaxUploads
  /\ uploads' = uploads + 1
  /\ Lock(c, "adding", uploads + 1)

restoreAvatarFromHistory(c, upload) ==
  /\ Lock(c, "restoring", upload)
  /\ UNCHANGED uploads

Unlock == lockedBy' = NoOne

\* First in, first out.
Pushed(read, upload) ==
  Append(IF Len(read) >= MAX_HISTORY_SIZE THEN Tail(read) ELSE read, upload)

Added(c) ==
  /\ ChangeAt(c, "adding")
  /\ history' = Pushed(change[c].read, change[c].upload)
  /\ current' = change[c].upload
  /\ avatar' = change[c].upload
  /\ stored' = Append(stored, change[c].upload)
  /\ overwritten' = FALSE
  /\ Unlock /\ ChangeEnds(c)
  /\ UNCHANGED <<uploads, given, deletionVars>>

\* An avatar that is not in the history throws, and nothing is written.
Restored(c) ==
  /\ ChangeAt(c, "restoring")
  /\ IF change[c].upload \in Range(change[c].read)
     THEN /\ history' = change[c].read
          /\ current' = change[c].upload
          /\ avatar' = change[c].upload
          /\ overwritten' = FALSE
     ELSE UNCHANGED <<history, current, avatar, overwritten>>
  /\ Unlock /\ ChangeEnds(c)
  /\ UNCHANGED <<uploads, stored, given, deletionVars>>

RollBack(c) ==
  /\ ~ChangeAt(c, "idle")
  /\ Unlock /\ ChangeEnds(c)
  /\ UNCHANGED <<avatarVars, uploads, deletionVars>>

\* One UPDATE that replaces avatar and history by what its caller made of them:
\* it waits for the row like any statement, and reads nothing.
updateAvatar(o) ==
  /\ lockedBy = NoOne
  /\ avatar' = o.avatar /\ current' = o.current /\ history' = o.history
  /\ stored' = o.history /\ given' = Len(o.history) /\ overwritten' = TRUE
  /\ UNCHANGED <<lockedBy, change, uploads, deletionVars>>

\* Single UPDATEs of other columns wait for the row.
setPendingDeletion ==
  /\ lockedBy = NoOne
  /\ deletion' = "pending"
  /\ UNCHANGED <<avatarVars, lockedBy, change, uploads, isArchived>>

cancelPendingDeletion ==
  /\ lockedBy = NoOne
  /\ deletion' = "none"
  /\ UNCHANGED <<avatarVars, lockedBy, change, uploads, isArchived>>

\* The 20 days go by.
DeletionFallsDue ==
  /\ deletion = "pending"
  /\ deletion' = "due"
  /\ UNCHANGED <<avatarVars, lockedBy, change, uploads, isArchived>>

\* One statement; FOR UPDATE SKIP LOCKED leaves a locked row for the next run.
archiveDueBatch ==
  /\ deletion = "due" /\ ~isArchived /\ lockedBy = NoOne
  /\ isArchived' = TRUE
  /\ deletion' = "none"
  /\ UNCHANGED <<avatarVars, lockedBy, change, uploads>>

ChangeStep(c) ==
  \/ addAvatarToHistory(c)
  \/ \E upload \in (1..uploads) \union Range(history) : restoreAvatarFromHistory(c, upload)
  \/ Added(c) \/ Restored(c) \/ RollBack(c)

OverwriteStep == \E o \in Overwrites : updateAvatar(o)

DeletionStep ==
  setPendingDeletion \/ cancelPendingDeletion \/ DeletionFallsDue \/ archiveDueBatch

-----------------------------------------------------------------------------
\* The history is allowed its limit, or what updateAvatar gave it beyond that.
Limit == IF given > MAX_HISTORY_SIZE THEN given ELSE MAX_HISTORY_SIZE
Kept == IF Len(stored) < Limit THEN Len(stored) ELSE Limit

\* Since updateAvatar last replaced it (user.ts:282-285), or since sign-up, the
\* history has lost no upload to an overlapping upload or restore: it is the last
\* avatars that were stored, up to the limit.  What the user sees is one of them,
\* unless updateAvatar wrote it (user.ts:296-405).
AvatarHistoryIsKept ==
  /\ history = SubSeq(stored, 1 + Len(stored) - Kept, Len(stored))
  /\ current # 0 /\ ~overwritten => current = avatar /\ avatar \in Range(history)
=============================================================================
