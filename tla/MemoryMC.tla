------------------------------ MODULE MemoryMC ------------------------------
(* An instance of Memory for TLC: a pack with one handler, and the command line. *)
EXTENDS Memory, TLC

CONSTANTS a, b, pack, cli, handler

OnePair == {<<a, b>>}
InPack == handler :> pack
=============================================================================
