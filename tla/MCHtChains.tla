----------------------------- MODULE MCHtChains -----------------------------
(* One short and three long keys; the table starts with one bucket, so     *)
(* that it doubles twice; buckets hold one entry before they grow.         *)
EXTENDS HtChains

CONSTANTS a, b
MCValues == {a, b}
MCSymmetry == Permutations(MCValues)

MCKeys == {"short", "u", "v", "w"}
MCLong == {"u", "v", "w"}
\* Three keys share a bucket of two, two of them one of four.
MCHash == [k \in MCKeys |-> CASE k = "short" -> 0 [] k = "u" -> 1
                              [] k = "v" -> 5 [] OTHER -> 3]
=============================================================================
