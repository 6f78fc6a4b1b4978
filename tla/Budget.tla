------------------------------- MODULE Budget -------------------------------
(***************************************************************************)
(* What a Redis attempt counter with a limit promises, for one life of the *)
(* counter's key: at most Max of the calls that were let through may do    *)
(* the limited thing.  A call holds a permit from the moment the counter   *)
(* lets it through until it acts or gives up; when the key goes away, by   *)
(* expiry or by DEL, the account starts again, and a call let through by   *)
(* the old key is no longer charged to the new one.                        *)
(*                                                                         *)
(* OtpService uses two such counters (verification attempts and resends);  *)
(* module Otp is shown to implement this module once for each of them.     *)
(***************************************************************************)
EXTENDS Integers, FiniteSets

CONSTANTS Callers,  \* the calls that may be in flight
          Max       \* how many may act in one life of the counter

VARIABLES used,     \* how many acted in this life of the counter
          holders   \* calls let through by this counter that have not acted

vars == <<used, holders>>

Init == used = 0 /\ holders = {}

Grant(c) == /\ c \notin holders
            /\ used + Cardinality(holders) < Max
            /\ holders' = holders \union {c}
            /\ UNCHANGED used

Act(c) == /\ c \in holders
          /\ holders' = holders \ {c}
          /\ used' = used + 1

GiveUp(c) == /\ c \in holders
             /\ holders' = holders \ {c}
             /\ UNCHANGED used

Reset == used' = 0 /\ holders' = {}

Next == Reset \/ \E c \in Callers : Grant(c) \/ Act(c) \/ GiveUp(c)

Spec == Init /\ [][Next]_vars

WithinBudget == used + Cardinality(holders) <= Max
=============================================================================
