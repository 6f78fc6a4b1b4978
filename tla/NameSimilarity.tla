--------------------------- MODULE NameSimilarity ---------------------------
(***************************************************************************)
(* DataHelper.jaroWinkler (src/src/utils/helpers/data.helpers.ts) over     *)
(* normalized names, sequences of characters.  Similarities are exact      *)
(* fractions [num, den]; the code rounds them to floating point.           *)
(***************************************************************************)
LOCAL INSTANCE Integers
LOCAL INSTANCE Sequences
LOCAL INSTANCE FiniteSets
LOCAL INSTANCE FiniteSetsExt
LOCAL INSTANCE SequencesExt

\* Characters this far apart may match.
matchDist(a, b) == Max({0, (Max({Len(a), Len(b)}) \div 2) - 1})

\* The places of a that match, each with the first free place of b that does.
MatchedPlaces(a, b) ==
  LET Free(i, s2Matches) ==
        {j \in Max({1, i - matchDist(a, b)})..Min({i + matchDist(a, b), Len(b)}) :
           j \notin s2Matches /\ a[i] = b[j]}
      MatchNext(matched, i) ==
        LET free == Free(i, matched.s2Matches)
        IN  IF free = {}
            THEN matched
            ELSE [s1Matches |-> matched.s1Matches \union {i},
                  s2Matches |-> matched.s2Matches \union {Min(free)}]
  IN  FoldLeft(MatchNext, [s1Matches |-> {}, s2Matches |-> {}],
               [i \in 1..Len(a) |-> i])

Spelled(word, places) ==
  LET order == SetToSortSeq(places, <) IN [r \in 1..Len(order) |-> word[order[r]]]

\* Places in which the matched characters come in another order.
transpositions(a, b) ==
  LET matched == MatchedPlaces(a, b)
      ofA == Spelled(a, matched.s1Matches)
      ofB == Spelled(b, matched.s2Matches)
  IN  Cardinality({r \in DOMAIN ofA : ofA[r] # ofB[r]})

\* Length of the common beginning, four at most.
prefix(a, b) ==
  Max({n \in 0..Min({4, Len(a), Len(b)}) : SubSeq(a, 1, n) = SubSeq(b, 1, n)})

jaro(a, b) ==
  LET m == Cardinality(MatchedPlaces(a, b).s1Matches)
      len1 == Len(a)
      len2 == Len(b)
  IN  IF m = 0
      THEN [num |-> 0, den |-> 1]
      ELSE [num |-> 2 * m * m * (len1 + len2) + (2 * m - transpositions(a, b)) * len1 * len2,
            den |-> 6 * m * len1 * len2]

jaroWinkler(a, b) ==
  LET j == jaro(a, b)
  IN  IF a = b
      THEN [num |-> 1, den |-> 1]
      ELSE IF j.num = 0
      THEN j
      ELSE [num |-> 10 * j.num + prefix(a, b) * (j.den - j.num), den |-> 10 * j.den]

\* threshold: in hundredths.
compareNameFuzzy(a, b, threshold) ==
  100 * jaroWinkler(a, b).num >= threshold * jaroWinkler(a, b).den
=============================================================================
