----------------------- MODULE IdempotencyMiddleware -----------------------
(***************************************************************************)
(* IdempotencyMiddleware.create (src/middlewares/idempotency.middleware.ts)*)
(* around one route handler, for one user and one Redis key.               *)
(*                                                                         *)
(* A body is what the hash keeps of it and what the hash loses: the array  *)
(* of top-level names that JSON.stringify is given filters the members of  *)
(* nested objects too, so two bodies that differ only there share a key.   *)
(* The bodies here are bodies with one key.                                *)
(***************************************************************************)
EXTENDS Integers

CONSTANTS
  Slots,         \* requests in flight at the same time
  Bodies,        \* bodies whose generateKey is the same
  MaxRequests    \* bound: requests ever made

ASSUME MiddlewareAssumption == MaxRequests \in Nat

Absent == "absent"

VARIABLES
  status,        \* Redis: "processing", "completed" or "failed", or Absent
  origin,        \* Redis: the bodies whose answer the record holds
  saves,         \* records sent to Redis by res.json and not yet written
  stage, body,   \* the requests
  requests,
  runs,          \* history: handler runs since the record last went away
  disturbances   \* history: "overlap" of requests, "redisError", and
                 \*   "slowHandler", a handler that outlived the record

redisVars == <<status, origin>>
middlewareVars == <<redisVars, saves, stage, body, requests, runs, disturbances>>

MiddlewareInit ==
  /\ status = Absent /\ origin = {} /\ saves = {}
  /\ stage = [s \in Slots |-> "idle"]
  /\ body \in [Slots -> Bodies]
  /\ requests = 0 /\ runs = 0 /\ disturbances = {}

\* A record without an answer replaces the one there was.
NoAnswer == origin' = {}

AtStage(s, label) == stage[s] = label
ToStage(s, label) == stage' = [stage EXCEPT ![s] = label]

Request(s, b) ==
  /\ AtStage(s, "idle") /\ requests < MaxRequests
  /\ requests' = requests + 1
  /\ body' = [body EXCEPT ![s] = b]
  /\ ToStage(s, "get")
  /\ disturbances' = disturbances \union
       (IF \E t \in Slots : ~AtStage(t, "idle") THEN {"overlap"} ELSE {})
  /\ UNCHANGED <<redisVars, saves, runs>>

\* What turns a request away: a record says somebody is at it, or has the answer.
TurnedAwayByAnswer == status \in {"completed", "failed"}
TurnedAway == status # Absent

\* 409 while another is processing; else the answer on record.
Refuse(s) ==
  /\ AtStage(s, "get") /\ TurnedAway
  /\ ToStage(s, "idle")
  /\ UNCHANGED <<redisVars, saves, body, requests, runs, disturbances>>

Proceed(s) ==
  /\ AtStage(s, "get") /\ ~TurnedAway
  /\ ToStage(s, "mark")
  /\ UNCHANGED <<redisVars, saves, body, requests, runs, disturbances>>

\* A SET without NX, after a GET that may be out of date.
Mark(s) ==
  /\ AtStage(s, "mark")
  /\ status' = "processing" /\ NoAnswer
  /\ ToStage(s, "guarded")
  /\ UNCHANGED <<saves, body, requests, runs, disturbances>>

\* "Continue without idempotency protection if middleware fails"
Unprotected(s) ==
  /\ stage[s] \in {"get", "mark"}
  /\ ToStage(s, "bare")
  /\ disturbances' = disturbances \union {"redisError"}
  /\ UNCHANGED <<redisVars, saves, body, requests, runs>>

Handle(s) ==
  /\ AtStage(s, "guarded")
  /\ runs' = runs + 1
  /\ ToStage(s, "handler")
  /\ UNCHANGED <<redisVars, saves, body, requests, disturbances>>

HandleUnprotected(s) ==
  /\ AtStage(s, "bare")
  /\ runs' = runs + 1
  /\ ToStage(s, "idle")
  /\ UNCHANGED <<redisVars, saves, body, requests, disturbances>>

\* The handler answers through res.json: 2xx is saved as completed and 4xx or
\* 5xx as failed, by a SET nobody awaits.
Answer(s, outcome) ==
  /\ AtStage(s, "handler")
  /\ saves' = saves \union {[status |-> outcome, body |-> body[s]]}
  /\ ToStage(s, "idle")
  /\ UNCHANGED <<redisVars, body, requests, runs, disturbances>>

\* The handler answers 3xx, or without res.json: nothing is saved.
AnswerUnsaved(s) ==
  /\ AtStage(s, "handler")
  /\ ToStage(s, "idle")
  /\ UNCHANGED <<redisVars, saves, body, requests, runs, disturbances>>

\* The response stream fails: the record is deleted.
StreamError(s) ==
  /\ AtStage(s, "handler")
  /\ status' = Absent /\ NoAnswer /\ runs' = 0
  /\ ToStage(s, "idle")
  /\ UNCHANGED <<saves, body, requests, disturbances>>

\* A failed record carries an error message of the handler for that body.
Save(r) ==
  /\ status' = r.status /\ origin' = {r.body}
  /\ saves' = saves \ {r}
  /\ UNCHANGED <<stage, body, requests, runs, disturbances>>

SaveFails(r) ==
  /\ saves' = saves \ {r}
  /\ disturbances' = disturbances \union {"redisError"}
  /\ UNCHANGED <<redisVars, stage, body, requests, runs>>

\* The time to live of the record: 30 seconds while processing, then ttl.
RecordExpires ==
  /\ status # Absent
  /\ status' = Absent /\ NoAnswer /\ runs' = 0
  /\ disturbances' = disturbances \union
       (IF \E s \in Slots : ~AtStage(s, "idle") THEN {"slowHandler"} ELSE {})
  /\ UNCHANGED <<saves, stage, body, requests>>

MiddlewareNext ==
  \/ \E s \in Slots :
       \/ \E b \in Bodies : Request(s, b)
       \/ Refuse(s) \/ Proceed(s) \/ Mark(s) \/ Unprotected(s)
       \/ Handle(s) \/ HandleUnprotected(s)
       \/ Answer(s, "completed") \/ Answer(s, "failed")
       \/ AnswerUnsaved(s) \/ StreamError(s)
  \/ \E r \in saves : Save(r) \/ SaveFails(r)
  \/ RecordExpires

MiddlewareSpec == MiddlewareInit /\ [][MiddlewareNext]_middlewareVars

-----------------------------------------------------------------------------
(* Properties.                                                             *)

\* "Prevents duplicate request processing for critical operations" (the class
\* comment), for a client that waits for each answer before it retries: while a
\* record of it stands, a request runs its handler once, as long as Redis works
\* and no handler outlives its record, also when the record is still on its way
\* to Redis as the retry arrives.  Copies that arrive together run it twice.
RunsOnceInTurn == disturbances = {} => runs <= 1
=============================================================================
