--------------------------- MODULE MCUpdateService ---------------------------
(* Two versions of two builds each, and files of two blocks *)
EXTENDS UpdateService
=============================================================================
