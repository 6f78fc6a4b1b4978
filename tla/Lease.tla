------------------------------- MODULE Lease -------------------------------
(***************************************************************************)
(* What a lock with a time to live can promise: one holder at a time, and  *)
(* work that is protected exactly until its lease runs out.  Whoever works *)
(* on after that is an overrunner, and no promise is made to it.           *)
(***************************************************************************)
CONSTANTS Tokens, Nobody

VARIABLES holder,      \* the token of the present lease, or Nobody
          working,     \* tokens of those inside the protected function
          overrun      \* tokens whose lease ended by running out

vars == <<holder, working, overrun>>

Init == holder = Nobody /\ working = {} /\ overrun = {}

\* A lease is granted and its owner goes to work.
Grant(t) ==
  /\ holder = Nobody
  /\ holder' = t
  /\ working' = working \union {t}
  /\ overrun' = overrun \ {t}

\* A lease is granted and its owner never hears of it.
GrantUnheard(t) ==
  /\ holder = Nobody
  /\ holder' = t
  /\ UNCHANGED <<working, overrun>>

Lapse ==
  /\ holder # Nobody
  /\ holder' = Nobody
  /\ overrun' = overrun \union {holder}
  /\ UNCHANGED working

\* The owner stops working; it gives up its own lease or leaves it to lapse,
\* and never touches another's.
Finish(t) ==
  /\ t \in working
  /\ working' = working \ {t}
  /\ holder' \in IF holder = t THEN {t, Nobody} ELSE {holder}
  /\ UNCHANGED overrun

Next ==
  \/ \E t \in Tokens : Grant(t) \/ GrantUnheard(t) \/ Finish(t)
  \/ Lapse

Spec == Init /\ [][Next]_vars
=============================================================================
