----------------------------- MODULE MCMailPath -----------------------------
(* Two calls of sendEmail and two webhook calls over a cache with room for *)
(* one of the two templates mails are rendered from.                       *)
EXTENDS MailPath, TLC
CONSTANTS c1, c2, h1, h2, m1
const_Slots == {c1, c2}
const_Hooks == {h1, h2}
const_Messages == {m1}
const_Kinds == SendGridEvent
Interchangeable == Permutations(const_Slots) \union Permutations(const_Hooks)
=============================================================================
