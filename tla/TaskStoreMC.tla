----------------------------- MODULE TaskStoreMC -----------------------------
(* Instances of TaskStore for TLC.  Root stands for the empty string; with Root in Ids a *)
(* task may have it for its id, which slugify gives a title of punctuation.              *)
EXTENDS TaskStore, TLC

CONSTANTS a, b, s1, s2

Symmetry == Permutations({a, b}) \cup Permutations({s1, s2})
=============================================================================
