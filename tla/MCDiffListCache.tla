-------------------------- MODULE MCDiffListCache --------------------------
(* One repository with submodules *)
EXTENDS DiffListCache
=============================================================================
