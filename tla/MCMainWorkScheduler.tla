------------------------- MODULE MCMainWorkScheduler -------------------------
(***************************************************************************)
(* Four submissions for two slots: a and b carry one dedupe key, of two    *)
(* owners; c and d share a concurrency key with different limits, as a     *)
(* directory listing (2) and an index build (1) of one root do.            *)
(***************************************************************************)
EXTENDS MainWorkScheduler, TLC

CONSTANTS a, b, c, d

MCTask == {a, b, c, d}
MCRank == (a :> 4) @@ (b :> 3) @@ (c :> 3) @@ (d :> 1)
MCKey == (a :> "search") @@ (b :> "search") @@ (c :> None) @@ (d :> None)
MCOwner == (a :> "o1") @@ (b :> "o2") @@ (c :> "o1") @@ (d :> None)
MCConcurrencyKey == (a :> None) @@ (b :> None) @@ (c :> "root") @@ (d :> "root")
MCLimit == (a :> 1) @@ (b :> 1) @@ (c :> 2) @@ (d :> 1)
=============================================================================
