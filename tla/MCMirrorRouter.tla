--------------------------- MODULE MCMirrorRouter ---------------------------
(* One window, two terminals and two directories *)
EXTENDS MirrorRouter
CONSTANTS t1, t2, w1, c1, c2

Perms == Permutations({t1, t2}) \cup Permutations({c1, c2})
=============================================================================
