---------------------------- MODULE MCRateLimiter ----------------------------
\* RateLimiter with a symmetry: client addresses are interchangeable.
EXTENDS RateLimiter, TLC

IPSymmetry == Permutations(IPs)

==============================================================================
