--------------------------- MODULE MCRateLimiting ---------------------------
\* Bounds for RateLimiting: two overlapping requests, presets of three points.
\* The presets' key spaces are compared for all presets.
EXTENDS RateLimiting

\* Prefixes differ, and of two presets of which one's prefix extends the other's
\* the keys may still meet, where a key of the shorter begins with what a request
\* says.  That is so for three pairs, the one with "Separate Redis key space"
\* (rate-limiting.ts:179) among them; both of the wallet pairs are one limiter
\* outside and inside end-to-end tests.
Extends(q, p) ==
    Len(q.prefix) > Len(p.prefix) /\ SubSeq(q.prefix, 1, Len(p.prefix)) = p.prefix
SharedKeySpaces ==
    {<<p.prefix, q.prefix>> : <<p, q>> \in
        {pair \in Presets \X Presets :
            LET p == pair[1]
                q == pair[2]
            IN  Extends(q, p) /\ MayBeginWith(p, q.prefix[Len(p.prefix) + 1])}}
ASSUME KeySpacesAreKnown ==
    /\ \A p, q \in Presets : p.prefix = q.prefix => p = q
    /\ SharedKeySpaces =
        {<<<<"webhooks", "fireblocks">>, <<"webhooks", "fireblocks", "test">>>>,
         <<<<"wallet", "transaction">>, <<"wallet", "transaction", "e2e">>>>,
         <<<<"wallet", "transfer">>, <<"wallet", "transfer", "e2e">>>>}
=============================================================================
