---------------------------- MODULE LspManagerMC ----------------------------
(* An instance of LspManager for TLC: two calls on one file and a third on a file of *)
(* another language, so that a Broadcast wakes waiters of both.                      *)
EXTENDS LspManager, TLC

CONSTANTS r1, r2, r3, go, py, main, tool

TheRequests == {r1, r2, r3}
TwoLangs == (main :> go) @@ (tool :> py)
TwoStarts == (r1 :> main) @@ (r2 :> main) @@ (r3 :> tool)
=============================================================================
