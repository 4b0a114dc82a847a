-------------------------- MODULE MCOrderMatching --------------------------
EXTENDS OrderMatching, TLC

CONSTANTS i1, d1, d2, o1, o2, m1, m2, k1, k2

MCItem == {i1}
MCDevice == {d1, d2}
MCOffer == {o1, o2}
MCMatcher == {m1}
MCTwoMatchers == {m1, m2}
MCSkuOf == (d1 :> k1) @@ (d2 :> k2)
MCFits == MCDevice \X MCOffer
\* The two devices are alike when their SKUs are swapped with them.
MCSwap == (d1 :> d2) @@ (d2 :> d1) @@ (k1 :> k2) @@ (k2 :> k1)
MCSymmetry ==
  Permutations(MCTwoMatchers) \cup Permutations(MCOffer) \cup {MCSwap}
=============================================================================
