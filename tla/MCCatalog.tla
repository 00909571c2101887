----------------------------- MODULE MCCatalog -----------------------------
\* Two organisations and two requests at a time; request slots are used again.
EXTENDS Catalog, TLC
Interchangeable == Permutations(Request) \cup Permutations(Org) \cup Permutations(Content)
=============================================================================
