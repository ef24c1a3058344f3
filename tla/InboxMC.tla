------------------------------- MODULE InboxMC -------------------------------
(* An instance of Inbox for TLC: m1 and m2 carry one id, m3 another and the path of m1. *)
EXTENDS Inbox, TLC

CONSTANTS m1, m2, m3, x, y, p1, p2

TheIds == (m1 :> x) @@ (m2 :> x) @@ (m3 :> y)
ThePaths == (m1 :> {p1}) @@ (m2 :> {p2}) @@ (m3 :> {p1})
TheKinds == (m1 :> {"plain"}) @@ (m2 :> {"plain"}) @@ (m3 :> {"ttl", "link", "invalid", "locked"})
TheTimes == (m1 :> {2}) @@ (m2 :> {1}) @@ (m3 :> {1})
=============================================================================
