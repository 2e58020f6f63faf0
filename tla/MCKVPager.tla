----------------------------- MODULE MCKVPager -----------------------------
\* Three pages, two of them of one request, of sizes 1 and 2 and adjacent token ranges.
EXTENDS KVPager

CONSTANTS a, b, c

MCOwner == [p \in Pages |-> IF p = c THEN "other" ELSE "one"]
MCSize == [p \in Pages |-> IF p = b THEN 2 ELSE 1]
MCFirst == [p \in Pages |-> IF p = b THEN 4 ELSE 0]
MCLast == [p \in Pages |-> IF p = b THEN 8 ELSE 4]
=============================================================================
