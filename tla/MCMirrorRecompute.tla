-------------------------- MODULE MCMirrorRecompute --------------------------
(***************************************************************************)
(* Two directories compete for a budget of one governed recompute.  They   *)
(* are interchangeable.                                                    *)
(***************************************************************************)
EXTENDS MirrorRecompute, TLC

CONSTANTS c1, c2

MCCwd == {c1, c2}
MCSymmetry == Permutations(MCCwd)
=============================================================================
