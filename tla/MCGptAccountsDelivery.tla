----------------------- MODULE MCGptAccountsDelivery -----------------------
EXTENDS GptAccountsDelivery, TLC
Symmetry == Permutations(Orders) \cup Permutations(Accounts)
=============================================================================
