-------------------------- MODULE IdempotencyKeys --------------------------
(***************************************************************************)
(* IdempotencyRepository (src/repository/idempotency.ts) and its cleanup   *)
(* job, for one value of the column `key`, which alone is the primary key  *)
(* of the table.                                                           *)
(*                                                                         *)
(* Each SQL statement is one step: the methods run them on the pool, each  *)
(* committed by itself, and between two of them anybody's may run.         *)
(***************************************************************************)
EXTENDS Integers, FiniteSets

CONSTANTS
  Acquirers,    \* the calls of acquire, each followed by the caller's work
  Scopes

VARIABLES
  table,        \* the rows with this key: scope, whether complete has stored
                \*   a response, whether expiresAt has passed, and, as
                \*   history, the call that inserted it
  where, scope,
  lapsed,       \* history: calls whose row has reached its expiresAt
  entangled     \* history: calls that overlapped another or the cleanup

keyVars == <<table, where, scope, lapsed, entangled>>

Rows == [scope : Scopes, filled : BOOLEAN, expired : BOOLEAN, owner : Acquirers]
Inquiring == {"select", "delete", "reinsert"}
Acquired == {"work", "completed", "crashed"}

KeysInit ==
  /\ table = {}
  /\ where = [c \in Acquirers |-> "insert"]
  /\ scope \in [Acquirers -> Scopes]
  /\ lapsed = {} /\ entangled = {}

AtStatement(c, label) == where[c] = label
ToStatement(c, label) == where' = [where EXCEPT ![c] = label]
Inquirers == {c \in Acquirers : where[c] \in Inquiring}

\* INSERT ... ON CONFLICT DO NOTHING; before it, an insert into a table whose
\* key column is not unique.
InsertAnyway(c) ==
  /\ table' = table \union {[scope |-> scope[c], filled |-> FALSE,
                             expired |-> FALSE, owner |-> c]}
  /\ ToStatement(c, "work")
InsertRow(c) == table = {} /\ InsertAnyway(c)
InsertConflicts == table # {}

\* WHERE scope = ... AND key = ...
Matching(c) == {r \in table : r.scope = scope[c]}

-----------------------------------------------------------------------------
(* acquire                                                                 *)

Insert(c) ==
  /\ AtStatement(c, "insert")
  /\ \/ InsertRow(c)
     \/ InsertConflicts /\ ToStatement(c, "select") /\ UNCHANGED table
  /\ entangled' = entangled \union (IF Inquirers = {} THEN {} ELSE {c})
  /\ UNCHANGED <<scope, lapsed>>

\* No row: acquired all the same, with nothing in the table to show it.
Select(c) ==
  /\ AtStatement(c, "select")
  /\ \/ Matching(c) = {} /\ ToStatement(c, "work")
     \/ \E r \in Matching(c) : r.expired /\ ToStatement(c, "delete")
     \/ \E r \in Matching(c) : ~r.expired /\ ToStatement(c, "refused")
  /\ UNCHANGED <<table, scope, lapsed, entangled>>

\* Deletes the row there is by now, expired or not.
Delete(c) ==
  /\ AtStatement(c, "delete")
  /\ table' = table \ Matching(c)
  /\ ToStatement(c, "reinsert")
  /\ UNCHANGED <<scope, lapsed, entangled>>

Reinsert(c) ==
  /\ AtStatement(c, "reinsert")
  /\ \/ InsertRow(c)
     \/ InsertConflicts /\ ToStatement(c, "refused") /\ UNCHANGED table
  /\ UNCHANGED <<scope, lapsed, entangled>>

-----------------------------------------------------------------------------
(* complete, the cleanup job, time and crashes.                            *)

complete(c) ==
  /\ AtStatement(c, "work")
  /\ table' = (table \ Matching(c)) \union
                {[r EXCEPT !.filled = TRUE] : r \in Matching(c)}
  /\ ToStatement(c, "completed")
  /\ UNCHANGED <<scope, lapsed, entangled>>

CallerCrashes(c) ==
  /\ AtStatement(c, "work")
  /\ ToStatement(c, "crashed")
  /\ UNCHANGED <<table, scope, lapsed, entangled>>

deleteExpiredKeys ==
  /\ \E r \in table : r.expired
  /\ table' = {r \in table : ~r.expired}
  /\ entangled' = entangled \union Inquirers
  /\ UNCHANGED <<where, scope, lapsed>>

RowExpires ==
  /\ \E r \in table :
       /\ ~r.expired
       /\ table' = (table \ {r}) \union {[r EXCEPT !.expired = TRUE]}
       /\ lapsed' = lapsed \union {r.owner}
  /\ UNCHANGED <<where, scope, entangled>>

KeysNext ==
  \/ \E c \in Acquirers : \/ Insert(c) \/ Select(c) \/ Delete(c) \/ Reinsert(c)
                      \/ complete(c) \/ CallerCrashes(c)
  \/ deleteExpiredKeys
  \/ RowExpires

KeysSpec == KeysInit /\ [][KeysNext]_keyVars

-----------------------------------------------------------------------------
(* Properties.                                                             *)

Holds(c) == where[c] \in Acquired /\ c \notin lapsed

\* "uniqueIndex(idempotency_scope_key_unq)": of the calls with one scope and
\* key, one alone is told "acquired" until its row's time to live has passed.
OneAcquirer ==
  \A c, d \in Acquirers : Holds(c) /\ Holds(d) /\ scope[c] = scope[d] => c = d

\* The same for a key used in one scope only, as long as either no row of it has
\* run out or no acquire overlaps another one or the cleanup job.
OneAcquirerOfScopedKey ==
  /\ \A c, d \in Acquirers : scope[c] = scope[d]
  /\ lapsed = {} \/ entangled = {}
  => OneAcquirer
=============================================================================
