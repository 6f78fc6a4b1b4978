--------------------------- MODULE MCUserRequests ---------------------------
(***************************************************************************)
(* A Google identity whose address changes (g1, g2), an Apple identity     *)
(* with one of those addresses, a second one without an address, and users *)
(* who sign up with either address meanwhile.  Three overlapping avatar    *)
(* changes with four uploads over a history of two, and an updateAvatar    *)
(* that empties the history, one made from what was read after the first   *)
(* upload, and one with more avatars than the limit and another current    *)
(* one.  Failed PINs that block at two and from four on.  Two languages.   *)
(* Two devices with two push tokens and two trust tokens.  The pure helpers*)
(* are evaluated against what they should answer.                          *)
(***************************************************************************)
EXTENDS UserRequests, Pagination, NameSimilarity, TLC

CONSTANTS g1, g2, a1, a2,         \* tokens
          address1, address2

Accounts == 1..3
Id(provider, sub) == [provider |-> provider, sub |-> sub]
TokenIdentity ==
  (g1 :> Id("google", "G")) @@ (g2 :> Id("google", "G")) @@
  (a1 :> Id("apple", "A")) @@ (a2 :> Id("apple", "B"))
TokenEmail ==
  (g1 :> address1) @@ (g2 :> address2) @@ (a1 :> address1) @@ (a2 :> NoEmail)

AvatarOverwrites ==
  {[avatar |-> 5, current |-> 0, history |-> << >>],
   [avatar |-> 1, current |-> 1, history |-> <<1>>],
   [avatar |-> 7, current |-> 5, history |-> <<5, 6, 7>>]}

\* Of the ten thousand transaction PINs all but 24 may be chosen: the weak ones
\* are told by their first digit and the step from each digit to the next.
WeakPins ==
  {[i \in 1..4 |-> first + step * (i - 1)] : first \in 0..9, step \in -1..1}
ASSUME OnlyWeakPinsAreRefused ==
  LET pins == [1..4 -> 0..9]
      refusedPins == {pin \in pins : ~validatePin(pin, "transaction")}
  IN  refusedPins = WeakPins \cap pins /\ Cardinality(refusedPins) = 24

\* A row trusts the one token of its last activation, until that expires, and a
\* revoked row none, whatever it was before.
TrustRows ==
  [status : {"pending", "active", "revoked"}, hash : TrustTokens \union {NoToken},
   push : {NoToken}, idle : BOOLEAN]
TrustIsExact ==
  \A row \in TrustRows, k, presented \in TrustTokens,
     ages \in [TrustTokens -> {"valid", "over"}] :
    /\ isTrusted(Activated(row, k), presented, ages)
         <=> presented = k /\ ages[k] = "valid"
    /\ ~isTrusted(Revoked(row), presented, ages)
ASSUME TrustIsExact

\* A client that asks for one page after the other until hasNextPage is false has
\* seen each item once, in order, whatever limit it asked for, and no page of a
\* collection that has items is empty.
SmallConfig == [defaultPage |-> 1, defaultLimit |-> 2, maxLimit |-> 3, minLimit |-> 1]
ASSUME PagesAddUp ==
  \A items \in 0..7, limit \in {{}} \union {{n} : n \in -1..5} :
    LET collection == [i \in 1..items |-> i]
        Page(n) == handlePagination({n}, limit, SmallConfig, collection)
        pages == Page(1).meta.totalPages
    IN  /\ FlattenSeq([n \in 1..pages |-> Page(n).data]) = collection
        /\ \A n \in 1..(pages + 1) : Page(n).meta.hasNextPage <=> n < pages
        /\ items > 0 => \A n \in 1..pages : Page(n).data # << >>
        /\ \A n \in {-1, 0} : handlePagination({n}, limit, SmallConfig, collection) = Page(1)

\* Which of two names is compared with which makes no difference, no two names are
\* wholly alike unless they are the same, and compareName (70 in a hundred)
\* forgives one wrong letter in four.
Words ==
  UNION {[1..n -> 1..2] : n \in 0..5} \union UNION {[1..n -> 1..3] : n \in 0..3}
ASSUME SimilarityIsSymmetric ==
  \A a, b \in Words :
    LET there == jaroWinkler(a, b)
        back == jaroWinkler(b, a)
    IN  /\ there.num * back.den = back.num * there.den
        /\ there.num \in 0..there.den
        /\ there.num = there.den <=> a = b
        /\ Len(a) >= 4 /\ Len(b) = Len(a) /\ Cardinality({i \in DOMAIN a : a[i] # b[i]}) = 1
             => compareNameFuzzy(a, b, 70)

Symmetry == Permutations(SignIns) \union Permutations(Pins) \union Permutations(Devices)
=============================================================================
