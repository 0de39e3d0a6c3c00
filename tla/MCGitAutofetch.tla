--------------------------- MODULE MCGitAutofetch ---------------------------
(* Two repositories and one slot, so that they compete; the intervals keep *)
(* the order of the code's: retry floor < cooldown < interval < ceiling.   *)
EXTENDS GitAutofetch

CONSTANTS r1, r2
=============================================================================
