-------------------------- MODULE MCGeminiDelivery --------------------------
EXTENDS GeminiDelivery, TLC
Symmetry == Permutations(Orders) \cup Permutations(Links)
=============================================================================
