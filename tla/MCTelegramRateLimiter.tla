----------------------- MODULE MCTelegramRateLimiter -----------------------
EXTENDS TelegramRateLimiter, TLC
Symmetry == Permutations(Threads)
=============================================================================
