--------------------------- MODULE MCMirrorWatcher ---------------------------
(***************************************************************************)
(* Two working directories of one repository: the smallest instance where  *)
(* a watcher group is shared, joined and left.                             *)
(***************************************************************************)
EXTENDS MirrorWatcher

CONSTANTS c1, c2, r1

MCCwd == {c1, c2}
MCRepo == {r1}
MCRepoOf == [c \in MCCwd |-> r1]
=============================================================================
