----------------------------- MODULE MCIndexLists -----------------------------
EXTENDS IndexLists

Row(id, name, resolved, keys, percent, pages) ==
    [id |-> id, name |-> name, resolved |-> resolved, keys |-> keys, percent |-> percent,
     pages |-> pages]

\* As a missing index the third cannot be used; as an index the second needs nothing, and
\* the last two tie.
MCCandidates ==
    {Row(1, 1, TRUE, 1, 31, 1000), Row(2, 2, TRUE, 2, 40, 999), Row(3, 2, FALSE, 1, 5, 1000)}
=============================================================================
