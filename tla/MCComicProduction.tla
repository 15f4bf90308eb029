------------------------- MODULE MCComicProduction -------------------------
EXTENDS ComicProduction, TLC

\* Two shots, the second of which continues the first.
MCPlans == {<<0, 1>>}

MCSymmetry == Permutations(Clients) \cup Permutations(Workers)
=============================================================================
