-------------------------- MODULE MCDiffContentCache --------------------------
(* A file with a working-tree and a staged body in one project, and a       *)
(* staged file in another; the sizes change with the version, so that each  *)
(* of the three limits is met.  The two callers are of one lane: the second *)
(* may join the request of the first, early or late.                        *)
EXTENDS DiffContentCache

CONSTANTS draft, staged, far, p1, p2, click, burst

Files == (draft :> 1) @@ (staged :> 1) @@ (far :> 2)
Projects == (draft :> p1) @@ (staged :> p1) @@ (far :> p2)
Backings == (draft :> "worktree") @@ (staged :> "index") @@ (far :> "index")
Edits == (draft :> 1) @@ (staged :> 1) @@ (far :> 0)
BodySizes == (draft :> (0 :> 1 @@ 1 :> 2)) @@ (staged :> (0 :> 2 @@ 1 :> 4)) @@ (far :> (0 :> 1 @@ 1 :> 1))
OneLane == (click :> 0) @@ (burst :> 0)
Symmetry == Permutations(Caller)
=============================================================================
